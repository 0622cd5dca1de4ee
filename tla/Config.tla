--------------------------------- MODULE Config ---------------------------------
(***************************************************************************)
(* The config family (Config.cpp, config.scm, hl-monitor-rule-add!).  One  *)
(* Scheme call is several entry points over state that outlives the call:  *)
(* the scratch Lua stack a value is built on, and the monitor parser a     *)
(* rule is collected in.  The watchdog, or an unsupported value, may end   *)
(* the call between any two of them, and the next call finds what is left. *)
(***************************************************************************)
EXTENDS Naturals, Sequences, SequencesExt, Errors

CONSTANTS Keys, Outputs, Devices, Names,  \* options, outputs, devices, curves
          Fields,       \* monitor and device fields; Gaps go over the scratch
          Gaps,         \* stack, the others are handed over directly
          Good, Bad,    \* values their parser takes, and values it refuses
          Leaves,       \* the animation tree's leaves
          MaxFields,    \* how many fields a call gives (the bound)
          None

Values == Good \cup Bad
Rules == [Fields -> Values \cup {None}]

ASSUME ConfigAssumption ==
    /\ Gaps \subseteq Fields /\ Good \cap Bad = {} /\ MaxFields \in Nat
    /\ None \notin Values \cup Outputs \cup [output : Outputs, rule : Rules]

VARIABLES scratch,     \* the Lua stack, top last
          option,      \* option[k]: the value of a config option
          parser,      \* the monitor parser: its output and its rule, or None
          monitor,     \* monitor[o]: the rule of an output
          device,      \* device[d]: what a device is configured with
          curves,      \* the declared animation curves
          animation,   \* animation[l]: the curve of a leaf
          permissions, \* the number of permission rules (0 or 1)
          launching,   \* the compositor's first launch is not over
          refresh,     \* a pass of the property refresher is scheduled
          call,        \* the Scheme call under way, or None
          done         \* history: what the last call wrote or read, and what
                       \* it was about (until the next call begins)

configVars == <<scratch, option, parser, monitor, device, curves, animation,
                permissions, launching, refresh, call, done>>
stores == <<option, monitor, device, curves, animation, permissions>>

Empty == [f \in Fields |-> None]
Given == UNION {[1..n -> Fields \X Values] : n \in 1..MaxFields}

\* A rule with a sequence of fields written over it, the last write winning.
Overlay(rule, fields) ==
    [f \in Fields |-> LET at == {i \in DOMAIN fields : fields[i][1] = f}
                      IN  IF at = {} THEN rule[f] ELSE fields[Max(at)][2]]

ConfigInit ==
    /\ scratch = <<>>
    /\ option = [k \in Keys |-> None]
    /\ parser = None
    /\ monitor = [o \in Outputs |-> Empty]
    /\ device = [d \in Devices |-> Empty]
    /\ curves = {}
    /\ animation = [l \in Leaves |-> None]
    /\ permissions = 0
    /\ launching = TRUE
    /\ refresh = FALSE
    /\ call = None
    /\ done = None

-------------------------------------------------------------------------------
(* The scratch stack: hl--c-config-begin, then hl--push-val, which pushes  *)
(* and folds tables until the value alone is on top.                       *)

Begin == <<>>
Push(stack, v) == Append(stack, v)

\* hl-config-add!, up to the value being on the stack.
ConfigAdd ==
    /\ call = None
    /\ \E k \in Keys \cup {"unknown"}, v \in Values :
        /\ call' = [op |-> "option", name |-> k, fields |-> <<<<None, v>>>>, left |-> <<>>]
        /\ scratch' = Push(Begin, v)
    /\ done' = None
    /\ Fine /\ UNCHANGED <<stores, parser, launching, refresh>>

\* configValueByKey.
Known(k) == k \in Keys

\* hlConfigSet.  An unknown key returns before the stack is emptied.
ConfigSet ==
    /\ call # None /\ call.op = "option"
    /\ call' = None
    /\ IF ~Known(call.name)
       THEN Fail("hl-config-add!") /\ UNCHANGED <<scratch, option, refresh, done>>
       ELSE /\ scratch' = <<>>
            /\ IF Last(scratch) \in Good
               THEN /\ option' = [option EXCEPT ![call.name] = Last(scratch)]
                    /\ done' = [asked |-> call.fields[1][2], is |-> Last(scratch)]
                    /\ refresh' = TRUE
                    /\ Fine
               ELSE Fail("hl-config-add!") /\ UNCHANGED <<option, refresh, done>>
    /\ UNCHANGED <<parser, monitor, device, curves, animation, permissions, launching>>

\* hlConfigGet: the value goes over the stack, above anything left there.
ConfigGet ==
    /\ call = None
    /\ \E k \in Keys : done' = [asked |-> option[k], is |-> Last(Push(scratch, option[k]))]
    /\ scratch' = <<>>
    /\ Fine /\ UNCHANGED <<stores, parser, launching, refresh, call>>

-------------------------------------------------------------------------------
(* hl-monitor-rule-add!: begin, one entry point for each field, commit.    *)

\* Mutant: the parser starts from nothing.
SeededBlank(o) == [output |-> o, rule |-> Empty]

\* The rule a call goes on from is the output's own.
Seeded(o) == [output |-> o, rule |-> monitor[o]]

\* hlMonitorBegin: a new parser, seeded from the output's rule.
MonitorBegin ==
    /\ call = None
    /\ \E o \in Outputs, fs \in Given :
        /\ parser' = Seeded(o)
        /\ call' = [op |-> "monitor", name |-> o, fields |-> fs, left |-> fs]
    /\ done' = None
    /\ Fine /\ UNCHANGED <<scratch, stores, launching, refresh>>

\* An output without a name is refused before anything changes.
MonitorUnnamed ==
    /\ call = None
    /\ Fail("hl-monitor-rule-add!")
    /\ UNCHANGED configVars

CollectingField == call # None /\ call.op = "monitor" /\ call.left # <<>>

\* The value of a gap field is pushed like an option's.
MonitorPushGap ==
    /\ CollectingField /\ Head(call.left)[1] \in Gaps
    /\ call' = [call EXCEPT !.op = "gap"]
    /\ scratch' = Push(Begin, Head(call.left)[2])
    /\ Fine /\ UNCHANGED <<stores, parser, launching, refresh, done>>

\* The entry point takes the field, or refuses it and the wrapper raises.  The
\* parser is kept then, and what the refused value did to it is abstracted: no
\* commit comes before the next begin.  Without a parser no reason is written.
Takes(f, v) ==
    /\ IF parser # None /\ v \in Good
       THEN /\ parser' = [parser EXCEPT !.rule[f] = v]
            /\ call' = [call EXCEPT !.op = "monitor", !.left = Tail(@)]
            /\ Fine
       ELSE /\ IF parser = None THEN FailSilently("hl-monitor-rule-add!")
                                ELSE Fail("hl-monitor-rule-add!")
            /\ call' = None
            /\ UNCHANGED parser
    /\ UNCHANGED <<stores, launching, refresh, done>>

NextIsPlain == CollectingField /\ Head(call.left)[1] \notin Gaps

\* hlMonitorFieldStr; an unknown name is a bad value.
MonitorFieldStr ==
    /\ NextIsPlain
    /\ Takes(Head(call.left)[1], Head(call.left)[2])
    /\ UNCHANGED scratch

\* hlMonitorFieldBool has one name to refuse and no value.
MonitorFieldBool ==
    /\ NextIsPlain
    /\ Takes(Head(call.left)[1], Head(call.left)[2])
    /\ UNCHANGED scratch

\* hlMonitorFieldNum: the number is checked on a stack of its own making.
MonitorFieldNum ==
    /\ NextIsPlain
    /\ Takes(Head(call.left)[1], Last(Push(Begin, Head(call.left)[2])))
    /\ scratch' = <<>>

\* hlMonitorFieldGap: whatever is on top of the stack is the value.
MonitorFieldGap ==
    /\ call # None /\ call.op = "gap"
    /\ Takes(Head(call.left)[1], Last(scratch))
    /\ scratch' = <<>>

\* hlMonitorCommit.
MonitorCommit ==
    /\ call # None /\ call.op = "monitor" /\ call.left = <<>> /\ parser # None
    /\ monitor' = [monitor EXCEPT ![parser.output] = parser.rule]
    /\ done' = [asked |-> Overlay(monitor[call.name], call.fields), is |-> monitor'[call.name]]
    /\ parser' = None
    /\ refresh' = TRUE
    /\ call' = None
    /\ Fine
    /\ UNCHANGED <<scratch, option, device, curves, animation, permissions, launching>>

\* The call ends between two entry points: the watchdog's interrupt, or a value
\* hl--push-val does not support.  The value may be half built then (None).
Abandon ==
    /\ call # None
    /\ call' = None
    /\ \/ UNCHANGED scratch
       \/ call.op \in {"option", "gap"} /\ scratch' = Push(Front(scratch), None)
    /\ Fine /\ UNCHANGED <<stores, parser, launching, refresh, done>>

-------------------------------------------------------------------------------
(* The calls that are one entry point.                                     *)

\* deviceValue: a value of the field's kind, within its bounds.
Coerces(f, v) == f \in Fields /\ v \in Good

\* hlSchemeDeviceAdd: every field is read and coerced before any is written.
DeviceAdd ==
    /\ call = None
    /\ \E d \in Devices, fs \in Given \cup {<<<<"unknown", v>>>> : v \in Good} :
        IF \A i \in DOMAIN fs : Coerces(fs[i][1], fs[i][2])
        THEN /\ device' = [device EXCEPT ![d] = Overlay(@, fs)]
             /\ done' = [asked |-> Overlay(device[d], fs), is |-> device'[d]]
             /\ refresh' = TRUE
             /\ Fine
        ELSE /\ Fail("hl-device-add!")
             /\ UNCHANGED <<device, refresh>>
             /\ done' = [asked |-> device[d], is |-> device'[d]]
    /\ UNCHANGED <<scratch, option, parser, monitor, curves, animation, permissions, launching, call>>

\* hl-bezier-curve-add!, which refuses a missing name only; a name may be
\* declared again.
BezierCurveAdd ==
    /\ call = None
    /\ \/ \E c \in Names : curves' = curves \cup {c} /\ Fine
       \/ Fail("hl-bezier-curve-add!") /\ UNCHANGED curves
    /\ UNCHANGED <<scratch, option, parser, monitor, device, animation, permissions,
                   launching, refresh, call, done>>

\* hl-spring-curve-add!: each of the three numbers is above a half.
SpringCurveAdd ==
    /\ call = None
    /\ \E c \in Names, v \in Values :
        IF v \in Good THEN curves' = curves \cup {c} /\ Fine
                      ELSE Fail("hl-spring-curve-add!") /\ UNCHANGED curves
    /\ UNCHANGED <<scratch, option, parser, monitor, device, animation, permissions,
                   launching, refresh, call, done>>

\* hlAnimationSet: the leaf, the curve and the style are checked, in this order.
AnimationSet ==
    /\ call = None
    /\ \E l \in Leaves \cup {"unknown"}, c \in Names \cup {None}, styled \in BOOLEAN :
        IF l \in Leaves /\ c \in curves \cup {None} /\ styled
        THEN animation' = [animation EXCEPT ![l] = c] /\ Fine
        ELSE Fail("hl-animation-add!") /\ UNCHANGED animation
    /\ UNCHANGED <<scratch, option, parser, monitor, device, curves, permissions,
                   launching, refresh, call, done>>

\* hlPermissionAdd: during the first launch only.
PermissionAdd ==
    /\ call = None
    /\ \/ launching /\ permissions' = 1 /\ Fine
       \/ Fail("hl-permission-add!") /\ UNCHANGED permissions
    /\ UNCHANGED <<scratch, option, parser, monitor, device, curves, animation,
                   launching, refresh, call, done>>

Launched ==
    /\ launching /\ call = None
    /\ launching' = FALSE
    /\ Fine /\ UNCHANGED <<scratch, stores, parser, refresh, call, done>>

\* hl-refresh: arm the pass, with the bits the caller names.
ScheduleRefresh ==
    /\ call = None
    /\ refresh' = TRUE
    /\ Fine /\ UNCHANGED <<scratch, stores, parser, launching, call, done>>

\* #:immediately: the pass is drained now, if one is armed.
PropRefreshImmediately ==
    /\ call = None
    /\ refresh' = FALSE
    /\ Fine /\ UNCHANGED <<scratch, stores, parser, launching, call, done>>

\* The refresher's own tick.
RunRefresh == refresh /\ PropRefreshImmediately

\* The calls over the scratch stack, and those over a table each: no state of
\* one half is read by the other.
StackNext ==
    \/ ConfigAdd \/ ConfigSet \/ ConfigGet
    \/ MonitorBegin \/ MonitorUnnamed \/ MonitorPushGap
    \/ MonitorFieldStr \/ MonitorFieldNum \/ MonitorFieldBool \/ MonitorFieldGap
    \/ MonitorCommit
    \/ Abandon

TablesNext ==
    \/ DeviceAdd
    \/ BezierCurveAdd \/ SpringCurveAdd \/ AnimationSet
    \/ PermissionAdd \/ Launched
    \/ ScheduleRefresh \/ PropRefreshImmediately \/ RunRefresh

-------------------------------------------------------------------------------

ConfigTypeOK ==
    /\ scratch \in Seq(Values \cup {None}) /\ Len(scratch) <= 1
    /\ option \in [Keys -> Good \cup {None}]
    /\ monitor \in [Outputs -> [Fields -> Good \cup {None}]]
    /\ device \in [Devices -> [Fields -> Good \cup {None}]]
    /\ parser # None => parser.output \in Outputs /\ parser.rule \in [Fields -> Good \cup {None}]
    /\ curves \subseteq Names
    /\ animation \in [Leaves -> curves \cup {None}]
    /\ permissions \in 0..1
    /\ launching \in BOOLEAN /\ refresh \in BOOLEAN

(* What a call wrote is what that call asked for, over what was there, and *)
(* what it read is what is there: not a value an abandoned call left on    *)
(* the stack, not a field of a rule that was never committed, not a part   *)
(* of a list that was refused.                                             *)
WrittenAsAsked == done # None => done.is = done.asked
===============================================================================
