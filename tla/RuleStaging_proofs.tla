--------------------------- MODULE RuleStaging_proofs ---------------------------
(* Proofs about RuleStaging.tla, for any names, specs and number of calls.     *)
EXTENDS RuleStaging, TLAPS

\* What has not been called has nothing; a rule in progress is of its kind, and registered.
Numbered ==
    /\ running <= made /\ engine \subseteq 1 .. made
    /\ \A c \in Calls : c > made => own[c] = 0 /\ handle[c] = 0 /\ content[c] = {}
    /\ \A r \in Calls : \A x \in content[r] : x[1] \in 1 .. made
    /\ \A k \in EngineKinds : \A n \in Names : byName[k][n] <= made
    /\ \A k \in Kinds : cur[k] # 0 =>
         cur[k] <= made /\ kind[cur[k]] = k /\ (k \in EngineKinds => cur[k] \in engine)

\* The call under way owns the rule in progress of its kind, which has what it sent.
CallOwns ==
    running # 0 =>
        /\ own[running] = cur[kind[running]] /\ own[running] # 0
        /\ at <= Len(spec[running])
        /\ \A i \in 1 .. at : kind[running] = "window" \/ spec[running][i] = "effect" =>
             <<running, i>> \in content[own[running]]
        /\ kind[running] = "workspace" =>
             /\ own[running] = running /\ running \notin engine
             /\ content[running] = {<<running, i>> : i \in 1 .. at}

\* The inductive invariant.
IInv == TypeOK /\ Numbered /\ CallOwns /\ HandlesAndNamesAreLive /\ ItemsStayHome

LEMMA SpecsAre ==
    ASSUME TypeOK, NEW c \in Calls
    PROVE  spec[c] \in Seq(Items) /\ Len(spec[c]) \in Nat
  <1>1. <<>> \in Seq(Items)
    OBVIOUS
  <1>2. spec[c] \in Specs \cup {<<>>}
    BY DEF TypeOK
  <1>3. spec[c] \in Seq(Items)
    BY <1>1, <1>2, RuleAssumption
  <1>4. QED
    BY <1>3

LEMMA InitHolds == Init => IInv
  BY RuleAssumption DEF Init, IInv, TypeOK, Numbered, CallOwns, HandlesAndNamesAreLive, ItemsStayHome,
     Calls, Kinds, EngineKinds, Rules

\* A call begins: what was there of earlier calls stays.
LEMMA CallIs ==
    ASSUME IInv, NEW k \in Kinds, NEW s \in Specs, Call(k, s)
    PROVE  /\ running = 0 /\ made' = made + 1 /\ made' \in Calls /\ running' = made' /\ at' = 0
           /\ kind' = [kind EXCEPT ![made'] = k] /\ kind' \in [Calls -> Kinds]
           /\ spec' = [spec EXCEPT ![made'] = s] /\ spec' \in [Calls -> Specs \cup {<<>>}]
           /\ \A c \in 1 .. made : c \in Calls /\ kind'[c] = kind[c] /\ spec'[c] = spec[c]
           /\ Len(spec'[made']) \in Nat
  BY RuleAssumption DEF IInv, TypeOK, Call, Calls, Rules

LEMMA RuleBeginKeeps ==
    ASSUME IInv, NEW k \in EngineKinds, NEW n \in Names \cup {Anon}, NEW b \in BOOLEAN,
           RuleBegin(k, n, b)
    PROVE  IInv'
  <1> DEFINE old  == IF n = Anon THEN 0 ELSE byName[k][n]
             rule == IF old # 0 THEN old ELSE made'
  <1>1. PICK s \in Specs : Call(k, s)
    BY DEF RuleBegin
  <1>2. k \in Kinds
    BY DEF Kinds, EngineKinds
  <1>3. /\ running = 0 /\ made' = made + 1 /\ made' \in Calls /\ running' = made' /\ at' = 0
        /\ kind' = [kind EXCEPT ![made'] = k] /\ kind' \in [Calls -> Kinds]
        /\ spec' = [spec EXCEPT ![made'] = s] /\ spec' \in [Calls -> Specs \cup {<<>>}]
        /\ \A c \in 1 .. made : c \in Calls /\ kind'[c] = kind[c] /\ spec'[c] = spec[c]
        /\ Len(spec'[made']) \in Nat
    BY <1>1, <1>2, CallIs
  <1>4. /\ byName' = IF n = Anon THEN byName ELSE [byName EXCEPT ![k][n] = rule]
        /\ engine' = engine \cup {rule}
        /\ enabled' = IF b THEN enabled \cup {rule} ELSE enabled \ {rule}
        /\ cur' = [cur EXCEPT ![k] = rule]
        /\ own' = [own EXCEPT ![made'] = rule]
        /\ UNCHANGED <<content, handle>>
    BY DEF RuleBegin
  <1>5. made \in Nat /\ \A c \in Calls : c \in Nat
    BY DEF IInv, TypeOK, Calls, Rules
  <1>6. rule \in 1 .. made' /\ rule \in Calls /\ rule # 0 /\ kind'[rule] = k
        /\ (old = 0 => rule = made') /\ (old # 0 => rule = old /\ old \in engine /\ old \in 1 .. made)
    BY <1>3, <1>5 DEF IInv, TypeOK, Numbered, HandlesAndNamesAreLive, Calls, Rules
  <1> HIDE DEF rule
  <1>7. TypeOK'
    BY <1>2, <1>3, <1>4, <1>6 DEF IInv, TypeOK, Rules, Calls
  <1>8. Numbered'
    <2>1. running' <= made' /\ engine' \subseteq 1 .. made'
      BY <1>3, <1>4, <1>5, <1>6 DEF IInv, Numbered
    <2>2. \A c \in Calls : c > made' => own'[c] = 0 /\ handle'[c] = 0 /\ content'[c] = {}
      BY <1>3, <1>4, <1>5 DEF IInv, TypeOK, Numbered
    <2>3. \A r \in Calls : \A x \in content'[r] : x[1] \in 1 .. made'
      BY <1>3, <1>4, <1>5 DEF IInv, Numbered
    <2>4. \A j \in EngineKinds : \A m \in Names : byName'[j][m] <= made'
      <3>1. ASSUME NEW j \in EngineKinds, NEW m \in Names
            PROVE  byName'[j][m] = byName[j][m] \/ byName'[j][m] = rule
        BY <1>4 DEF IInv, TypeOK
      <3>2. \A j \in EngineKinds : \A m \in Names : byName[j][m] \in Nat /\ byName[j][m] <= made
        BY DEF IInv, TypeOK, Numbered, Rules
      <3>3. QED
        BY <1>3, <1>5, <1>6, <3>1, <3>2
    <2>5. \A j \in Kinds : cur'[j] # 0 =>
            cur'[j] <= made' /\ kind'[cur'[j]] = j /\ (j \in EngineKinds => cur'[j] \in engine')
      <3>1. ASSUME NEW j \in Kinds, cur'[j] # 0
            PROVE  cur'[j] <= made' /\ kind'[cur'[j]] = j /\ (j \in EngineKinds => cur'[j] \in engine')
        <4>1. CASE j = k
          <5>1. cur'[j] = rule
            BY <1>2, <1>4, <4>1 DEF IInv, TypeOK
          <5>2. QED
            BY <1>4, <1>6, <4>1, <5>1
        <4>2. CASE j # k
          <5>1. cur'[j] = cur[j] /\ cur[j] \in Nat /\ cur[j] <= made
            BY <1>4, <3>1, <4>2 DEF IInv, TypeOK, Numbered, Rules
          <5>2. cur[j] \in 1 .. made /\ kind[cur[j]] = j /\ (j \in EngineKinds => cur[j] \in engine)
            BY <1>5, <3>1, <5>1 DEF IInv, Numbered
          <5>3. QED
            BY <1>3, <1>4, <1>5, <5>1, <5>2
        <4>3. QED
          BY <4>1, <4>2
      <3>2. QED
        BY <3>1
    <2>6. QED
      BY <2>1, <2>2, <2>3, <2>4, <2>5 DEF Numbered
  <1>9. CallOwns'
    BY <1>2, <1>3, <1>4, <1>5, <1>6 DEF IInv, TypeOK, CallOwns, EngineKinds
  <1>10. HandlesAndNamesAreLive'
    <2>1. ASSUME NEW c \in Calls, handle'[c] # 0
          PROVE  /\ handle'[c] = own'[c] /\ own'[c] \in engine'
                 /\ \A x \in ItemsOf(c)' :
                      kind'[c] = "window" \/ SortOf(x)' = "effect" => x \in content'[own'[c]]
      <3>1. handle[c] # 0 /\ c \in 1 .. made
        BY <1>4, <1>5, <2>1 DEF IInv, Numbered, Calls
      <3>2. own'[c] = own[c] /\ kind'[c] = kind[c] /\ spec'[c] = spec[c]
        BY <1>3, <1>4, <1>5, <3>1 DEF IInv, TypeOK
      <3>3. QED
        BY <1>4, <3>1, <3>2 DEF IInv, HandlesAndNamesAreLive, ItemsOf, SortOf
    <2>2. ASSUME NEW j \in EngineKinds, NEW m \in Names, byName'[j][m] # 0
          PROVE  /\ byName'[j][m] \in engine' /\ kind'[byName'[j][m]] = j
                 /\ \A l \in Names \ {m} : byName'[j][l] # byName'[j][m]
      <3>1. CASE n # Anon /\ j = k /\ old = 0
        BY <1>3, <1>4, <1>5, <1>6, <2>2, <3>1 DEF IInv, TypeOK, Numbered, HandlesAndNamesAreLive, Rules
      <3>2. CASE ~(n # Anon /\ j = k /\ old = 0)
        <4>1. byName'[j] = byName[j]
          BY <1>4, <1>6, <3>2 DEF IInv, TypeOK
        <4>2. byName[j][m] \in 1 .. made
          BY <2>2, <4>1, <1>5 DEF IInv, TypeOK, Numbered, Rules
        <4>3. QED
          BY <1>3, <1>4, <2>2, <4>1, <4>2 DEF IInv, HandlesAndNamesAreLive
      <3>3. QED
        BY <3>1, <3>2
    <2>3. QED
      BY <2>1, <2>2 DEF HandlesAndNamesAreLive
  <1>11. ItemsStayHome'
    <2>1. ASSUME NEW r \in Calls, NEW x \in content'[r], SortOf(x)' = "effect" \/ kind'[x[1]] = "window"
          PROVE  own'[x[1]] = r
      <3>1. x \in content[r] /\ x[1] \in 1 .. made
        BY <1>4 DEF IInv, Numbered
      <3>2. own'[x[1]] = own[x[1]] /\ kind'[x[1]] = kind[x[1]] /\ spec'[x[1]] = spec[x[1]]
        BY <1>3, <1>4, <1>5, <3>1 DEF IInv, TypeOK
      <3>3. QED
        BY <2>1, <3>1, <3>2 DEF IInv, ItemsStayHome, SortOf
    <2>2. ASSUME NEW c \in engine', kind'[c] = "workspace"
          PROVE  content'[c] = ItemsOf(c)'
      <3>1. c # rule
        BY <1>6, <2>2 DEF EngineKinds
      <3>2. c \in engine /\ c \in 1 .. made
        BY <1>4, <2>2, <3>1 DEF IInv, Numbered
      <3>3. QED
        BY <1>3, <1>4, <2>2, <3>2 DEF IInv, ItemsStayHome, ItemsOf
    <2>3. QED
      BY <2>1, <2>2 DEF ItemsStayHome
  <1>12. QED
    BY <1>7, <1>8, <1>9, <1>10, <1>11 DEF IInv

LEMMA WorkspaceRuleBeginKeeps ==
    ASSUME IInv, WorkspaceRuleBegin
    PROVE  IInv'
  <1>1. PICK s \in Specs : Call("workspace", s)
    BY DEF WorkspaceRuleBegin
  <1>2. "workspace" \in Kinds /\ "workspace" \notin EngineKinds /\ EngineKinds \subseteq Kinds
    BY DEF Kinds, EngineKinds
  <1>3. /\ running = 0 /\ made' = made + 1 /\ made' \in Calls /\ running' = made' /\ at' = 0
        /\ kind' = [kind EXCEPT ![made'] = "workspace"] /\ kind' \in [Calls -> Kinds]
        /\ spec' = [spec EXCEPT ![made'] = s] /\ spec' \in [Calls -> Specs \cup {<<>>}]
        /\ \A c \in 1 .. made : c \in Calls /\ kind'[c] = kind[c] /\ spec'[c] = spec[c]
        /\ Len(spec'[made']) \in Nat
    BY <1>1, <1>2, CallIs
  <1>4. /\ cur' = [cur EXCEPT !["workspace"] = made']
        /\ own' = [own EXCEPT ![made'] = made']
        /\ UNCHANGED <<byName, engine, enabled, content, handle>>
    BY DEF WorkspaceRuleBegin
  <1>5. made \in Nat /\ (\A c \in Calls : c \in Nat) /\ made' \notin engine /\ content[made'] = {}
    BY <1>3 DEF IInv, TypeOK, Numbered, Calls, Rules
  <1>6. kind'[made'] = "workspace" /\ own'[made'] = made' /\ cur'["workspace"] = made'
    BY <1>2, <1>3, <1>4 DEF IInv, TypeOK
  <1>7. \A j \in EngineKinds : j # "workspace" /\ cur'[j] = cur[j] /\ cur[j] \in Nat
    BY <1>2, <1>4 DEF IInv, TypeOK, Rules
  <1>8. TypeOK'
    BY <1>2, <1>3, <1>4 DEF IInv, TypeOK, Rules, Calls
  <1>9. Numbered'
    <2>1. running' <= made' /\ engine' \subseteq 1 .. made'
      BY <1>3, <1>4, <1>5 DEF IInv, Numbered
    <2>2. \A c \in Calls : c > made' => own'[c] = 0 /\ handle'[c] = 0 /\ content'[c] = {}
      BY <1>3, <1>4, <1>5 DEF IInv, TypeOK, Numbered
    <2>3. \A r \in Calls : \A x \in content'[r] : x[1] \in 1 .. made'
      BY <1>3, <1>4, <1>5 DEF IInv, Numbered
    <2>4. \A j \in EngineKinds : \A m \in Names : byName'[j][m] <= made'
      BY <1>3, <1>4, <1>5 DEF IInv, TypeOK, Numbered, Rules
    <2>5. ASSUME NEW j \in Kinds, cur'[j] # 0
          PROVE  cur'[j] <= made' /\ kind'[cur'[j]] = j /\ (j \in EngineKinds => cur'[j] \in engine')
      <3>1. CASE j = "workspace"
        BY <1>2, <1>3, <1>5, <1>6, <3>1
      <3>2. CASE j # "workspace"
        <4>1. j \in EngineKinds
          BY <3>2 DEF Kinds, EngineKinds
        <4>2. cur[j] \in 1 .. made /\ kind[cur[j]] = j /\ cur[j] \in engine
          BY <1>2, <1>5, <1>7, <2>5, <4>1 DEF IInv, Numbered
        <4>3. QED
          BY <1>3, <1>4, <1>5, <1>7, <4>1, <4>2
      <3>3. QED
        BY <3>1, <3>2
    <2>6. QED
      BY <2>1, <2>2, <2>3, <2>4, <2>5 DEF Numbered
  <1>10. CallOwns'
    <2>1. content'[running'] = {<<running', i>> : i \in 1 .. at'}
      BY <1>3, <1>4, <1>5
    <2>2. QED
      BY <1>3, <1>4, <1>5, <1>6, <2>1 DEF CallOwns
  <1>11. HandlesAndNamesAreLive'
    <2>1. ASSUME NEW c \in Calls, handle'[c] # 0
          PROVE  /\ handle'[c] = own'[c] /\ own'[c] \in engine'
                 /\ \A x \in ItemsOf(c)' :
                      kind'[c] = "window" \/ SortOf(x)' = "effect" => x \in content'[own'[c]]
      <3>1. handle[c] # 0 /\ c \in 1 .. made
        BY <1>4, <1>5, <2>1 DEF IInv, Numbered, Calls
      <3>2. own'[c] = own[c] /\ kind'[c] = kind[c] /\ spec'[c] = spec[c]
        BY <1>3, <1>4, <1>5, <3>1 DEF IInv, TypeOK
      <3>3. QED
        BY <1>4, <3>1, <3>2 DEF IInv, HandlesAndNamesAreLive, ItemsOf, SortOf
    <2>2. ASSUME NEW j \in EngineKinds, NEW m \in Names, byName'[j][m] # 0
          PROVE  /\ byName'[j][m] \in engine' /\ kind'[byName'[j][m]] = j
                 /\ \A l \in Names \ {m} : byName'[j][l] # byName'[j][m]
      <3>1. byName[j][m] \in 1 .. made
        BY <1>4, <1>5, <2>2 DEF IInv, TypeOK, Numbered, Rules
      <3>2. QED
        BY <1>3, <1>4, <2>2, <3>1 DEF IInv, HandlesAndNamesAreLive
    <2>3. QED
      BY <2>1, <2>2 DEF HandlesAndNamesAreLive
  <1>12. ItemsStayHome'
    <2>1. ASSUME NEW r \in Calls, NEW x \in content'[r], SortOf(x)' = "effect" \/ kind'[x[1]] = "window"
          PROVE  own'[x[1]] = r
      <3>1. x \in content[r] /\ x[1] \in 1 .. made
        BY <1>4 DEF IInv, Numbered
      <3>2. own'[x[1]] = own[x[1]] /\ kind'[x[1]] = kind[x[1]] /\ spec'[x[1]] = spec[x[1]]
        BY <1>3, <1>4, <1>5, <3>1 DEF IInv, TypeOK
      <3>3. QED
        BY <2>1, <3>1, <3>2 DEF IInv, ItemsStayHome, SortOf
    <2>2. ASSUME NEW c \in engine', kind'[c] = "workspace"
          PROVE  content'[c] = ItemsOf(c)'
      <3>1. c \in engine /\ c \in 1 .. made
        BY <1>4 DEF IInv, Numbered
      <3>2. QED
        BY <1>3, <1>4, <2>2, <3>1 DEF IInv, ItemsStayHome, ItemsOf
    <2>3. QED
      BY <2>1, <2>2 DEF ItemsStayHome
  <1>13. QED
    BY <1>8, <1>9, <1>10, <1>11, <1>12 DEF IInv

\* An item goes to the rule r, and if it is one that stays home, r is the call's own.
LEMMA ReceivesKeeps ==
    ASSUME IInv, NEW r \in Calls, r <= made, running # 0, at < Len(spec[running]), Receives(r),
           kind[running] = "window" \/ spec[running][at + 1] = "effect" => r = own[running],
           kind[running] = "workspace" => r = own[running],
           kind[r] = "workspace" => r = running
    PROVE  IInv'
  <1> DEFINE item == <<running, at + 1>>
  <1>1. /\ content' = [content EXCEPT ![r] = @ \cup {item}] /\ at' = at + 1
        /\ UNCHANGED <<made, kind, spec, running, cur, byName, engine, enabled, handle, own>>
    BY DEF Receives, callVars
  <1>2. running \in Calls /\ running \in 1 .. made /\ at \in Nat /\ r \in Nat
    BY DEF IInv, TypeOK, Numbered, Rules, Calls
  <1>3. \A c \in Calls : content[c] \subseteq content'[c]
    BY <1>1 DEF IInv, TypeOK
  <1>4. content'[r] = content[r] \cup {item} /\ \A c \in Calls \ {r} : content'[c] = content[c]
    BY <1>1 DEF IInv, TypeOK
  <1>5. Len(spec[running]) \in Nat
    BY <1>2, SpecsAre DEF IInv
  <1>6. /\ own[running] = cur[kind[running]] /\ own[running] \in Calls
        /\ kind[running] = "workspace" => own[running] = running
    BY <1>2 DEF IInv, TypeOK, CallOwns, Rules, Calls
  <1>7. r <= made
    OBVIOUS
  <1>8. TypeOK'
    <2>1. item \in Calls \X (Nat \ {0})
      BY <1>2
    <2>2. content' \in [Calls -> SUBSET (Calls \X (Nat \ {0}))]
      BY <1>1, <2>1 DEF IInv, TypeOK
    <2>3. QED
      BY <1>1, <1>2, <2>2 DEF IInv, TypeOK
  <1>9. Numbered'
    <2>1. \A c \in Calls : c > made' => content'[c] = {}
      <3>1. ASSUME NEW c \in Calls, c > made
            PROVE  content'[c] = {}
        <4>1. c # r
          BY <1>2, <1>7, <3>1 DEF IInv, TypeOK, Rules, Calls
        <4>2. QED
          BY <1>4, <3>1, <4>1 DEF IInv, Numbered
      <3>2. QED
        BY <1>1, <3>1
    <2>2. \A c \in Calls : \A x \in content'[c] : x[1] \in 1 .. made'
      BY <1>1, <1>2, <1>4 DEF IInv, Numbered
    <2>3. QED
      BY <1>1, <2>1, <2>2 DEF IInv, Numbered
  <1>10. CallOwns'
    <2>1. at' <= Len(spec[running])
      BY <1>1, <1>2, <1>5
    <2>2. ASSUME NEW i \in 1 .. at', kind[running] = "window" \/ spec[running][i] = "effect"
          PROVE  <<running, i>> \in content'[own[running]]
      <3>1. CASE i \in 1 .. at
        BY <1>3, <1>6, <2>2, <3>1 DEF IInv, CallOwns
      <3>2. CASE i = at + 1
        BY <1>4, <2>2, <3>2
      <3>3. QED
        BY <1>1, <1>2, <3>1, <3>2
    <2>3. ASSUME kind[running] = "workspace"
          PROVE  content'[running] = {<<running, i>> : i \in 1 .. at'}
      <3>1. content'[running] = {<<running, i>> : i \in 1 .. at} \cup {item}
        BY <1>4, <1>6, <2>3 DEF IInv, CallOwns
      <3>2. 1 .. at' = (1 .. at) \cup {at + 1}
        BY <1>1, <1>2
      <3>3. QED
        BY <3>1, <3>2
    <2>4. own[running] # 0 /\ (kind[running] = "workspace" => running \notin engine)
      BY DEF IInv, CallOwns
    <2>5. QED
      BY <1>1, <1>6, <2>1, <2>2, <2>3, <2>4 DEF CallOwns
  <1>11. HandlesAndNamesAreLive'
    <2>1. ASSUME NEW c \in Calls, handle[c] # 0
          PROVE  /\ handle[c] = own[c] /\ own[c] \in engine
                 /\ \A x \in ItemsOf(c) :
                      kind[c] = "window" \/ SortOf(x) = "effect" => x \in content'[own[c]]
      <3>1. own[c] \in engine /\ own[c] \in Calls
        BY <2>1 DEF IInv, TypeOK, HandlesAndNamesAreLive
      <3>2. QED
        BY <1>3, <2>1, <3>1 DEF IInv, HandlesAndNamesAreLive
    <2>2. QED
      BY <1>1, <2>1 DEF IInv, HandlesAndNamesAreLive, ItemsOf, SortOf
  <1>12. ItemsStayHome'
    <2>1. ASSUME NEW q \in Calls, NEW x \in content'[q], SortOf(x) = "effect" \/ kind[x[1]] = "window"
          PROVE  own[x[1]] = q
      <3>1. CASE x \in content[q]
        BY <2>1, <3>1 DEF IInv, ItemsStayHome
      <3>2. CASE x \notin content[q]
        BY <1>4, <2>1, <3>2 DEF SortOf
      <3>3. QED
        BY <3>1, <3>2
    <2>2. ASSUME NEW c \in engine, kind[c] = "workspace"
          PROVE  content'[c] = ItemsOf(c)
      <3>1. c \in Calls /\ c # r
        BY <1>6, <2>2 DEF IInv, TypeOK, CallOwns
      <3>2. QED
        BY <1>4, <2>2, <3>1 DEF IInv, ItemsStayHome
    <2>3. QED
      BY <1>1, <2>1, <2>2 DEF ItemsStayHome, ItemsOf, SortOf
  <1>13. QED
    BY <1>8, <1>9, <1>10, <1>11, <1>12 DEF IInv

LEMMA RuleMatchKeeps ==
    ASSUME IInv, RuleMatch
    PROVE  IInv'
  <1> DEFINE rule == IF cur["window"] # 0 THEN cur["window"] ELSE cur["layer"]
  <1>1. /\ running # 0 /\ at < Len(spec[running]) /\ spec[running][at + 1] = "match"
        /\ kind[running] # "workspace" /\ Receives(rule)
    BY DEF RuleMatch, Sends
  <1>2. rule \in Rules /\ rule # 0 /\ running \in Calls
    BY <1>1 DEF IInv, TypeOK, Receives, Kinds, Rules, Calls
  <1>3. rule \in Calls /\ rule <= made /\ kind[rule] # "workspace"
    BY <1>2 DEF IInv, Numbered, Kinds, Calls, Rules
  <1>4. kind[running] = "window" => rule = own[running]
    BY <1>1 DEF IInv, CallOwns
  <1> HIDE DEF rule
  <1>5. QED
    BY <1>1, <1>3, <1>4, ReceivesKeeps

LEMMA RuleEffectKeeps ==
    ASSUME IInv, RuleEffect
    PROVE  IInv'
  <1> DEFINE rule == cur[kind[running]]
  <1>1. running # 0 /\ at < Len(spec[running]) /\ Receives(rule)
    BY DEF RuleEffect, Sends
  <1>2. running \in Calls /\ kind[running] \in Kinds
    BY <1>1 DEF IInv, TypeOK, Rules, Calls
  <1>3. rule \in Rules /\ rule # 0 /\ rule = own[running]
    BY <1>1, <1>2 DEF IInv, TypeOK, CallOwns
  <1>4. rule \in Calls /\ rule <= made /\ kind[rule] = kind[running]
    BY <1>2, <1>3 DEF IInv, Numbered, Calls, Rules
  <1>5. kind[rule] = "workspace" => rule = running
    BY <1>1, <1>3, <1>4 DEF IInv, CallOwns
  <1> HIDE DEF rule
  <1>6. QED
    BY <1>1, <1>3, <1>4, <1>5, ReceivesKeeps

\* A call that ends without a rule, and a rule that is (dis)abled, leave what matters alone.
LEMMA QuietKeeps ==
    ASSUME IInv, running' \in {running, 0}, enabled' \in SUBSET Calls,
           UNCHANGED <<callVars, at, cur, byName, engine, content, handle, own>>
    PROVE  IInv'
  <1>1. UNCHANGED <<made, kind, spec, at, cur, byName, engine, content, handle, own>>
    BY DEF callVars
  <1>2. TypeOK'
    BY <1>1, RuleAssumption DEF IInv, TypeOK, Rules
  <1>3. Numbered'
    BY <1>1 DEF IInv, TypeOK, Numbered, Rules
  <1>4. CallOwns'
    BY <1>1 DEF IInv, CallOwns
  <1>5. HandlesAndNamesAreLive'
    BY <1>1 DEF IInv, HandlesAndNamesAreLive, ItemsOf, SortOf
  <1>6. ItemsStayHome'
    BY <1>1 DEF IInv, ItemsStayHome, ItemsOf, SortOf
  <1>7. QED
    BY <1>2, <1>3, <1>4, <1>5, <1>6 DEF IInv

LEMMA EngineRuleCommitKeeps ==
    ASSUME IInv, RuleCommit
    PROVE  IInv'
  <1>1. /\ running # 0 /\ at = Len(spec[running]) /\ kind[running] \in EngineKinds
        /\ handle' = [handle EXCEPT ![running] = cur[kind[running]]]
        /\ cur' = [cur EXCEPT ![kind[running]] = 0] /\ running' = 0
        /\ UNCHANGED <<made, kind, spec, at, byName, engine, enabled, content, own>>
    BY DEF RuleCommit, SpecSent, callVars
  <1>2. running \in Calls /\ running \in 1 .. made /\ kind[running] \in Kinds
    BY <1>1 DEF IInv, TypeOK, Numbered, Rules, Calls, Kinds, EngineKinds
  <1>3. handle'[running] = own[running] /\ own[running] \in engine /\ cur[kind[running]] \in Rules
    BY <1>1, <1>2 DEF IInv, TypeOK, Numbered, CallOwns
  <1>4. TypeOK'
    BY <1>1, <1>2, <1>3, RuleAssumption DEF IInv, TypeOK, Rules
  <1>5. Numbered'
    <2>1. running' <= made' /\ engine' \subseteq 1 .. made'
      BY <1>1, <1>2 DEF IInv, TypeOK, Numbered, Rules
    <2>2. \A c \in Calls : c > made' => own'[c] = 0 /\ handle'[c] = 0 /\ content'[c] = {}
      BY <1>1, <1>2 DEF IInv, TypeOK, Numbered, Calls
    <2>3. ASSUME NEW j \in Kinds, cur'[j] # 0
          PROVE  cur'[j] <= made' /\ kind'[cur'[j]] = j /\ (j \in EngineKinds => cur'[j] \in engine')
      <3>1. cur'[j] = cur[j]
        BY <1>1, <2>3 DEF IInv, TypeOK
      <3>2. QED
        BY <1>1, <2>3, <3>1 DEF IInv, Numbered
    <2>4. QED
      BY <1>1, <2>1, <2>2, <2>3 DEF IInv, Numbered
  <1>6. CallOwns'
    BY <1>1 DEF CallOwns
  <1>7. HandlesAndNamesAreLive'
    <2>1. ASSUME NEW c \in Calls, handle'[c] # 0
          PROVE  /\ handle'[c] = own[c] /\ own[c] \in engine
                 /\ \A x \in ItemsOf(c) :
                      kind[c] = "window" \/ SortOf(x) = "effect" => x \in content[own[c]]
      <3>1. CASE c = running
        <4>1. ASSUME NEW x \in ItemsOf(c), kind[c] = "window" \/ SortOf(x) = "effect"
              PROVE  x \in content[own[c]]
          <5>1. PICK i \in 1 .. Len(spec[c]) : x = <<c, i>>
            BY <4>1 DEF ItemsOf
          <5>2. QED
            BY <1>1, <3>1, <4>1, <5>1 DEF IInv, CallOwns, SortOf
        <4>2. QED
          BY <1>3, <3>1, <4>1
      <3>2. CASE c # running
        BY <1>1, <2>1, <3>2 DEF IInv, TypeOK, HandlesAndNamesAreLive
      <3>3. QED
        BY <3>1, <3>2
    <2>2. QED
      BY <1>1, <2>1 DEF IInv, HandlesAndNamesAreLive, ItemsOf, SortOf
  <1>8. ItemsStayHome'
    BY <1>1 DEF IInv, ItemsStayHome, ItemsOf, SortOf
  <1>9. QED
    BY <1>4, <1>5, <1>6, <1>7, <1>8 DEF IInv

LEMMA WorkspaceRuleCommitKeeps ==
    ASSUME IInv, WorkspaceRuleCommit
    PROVE  IInv'
  <1>1. /\ running # 0 /\ at = Len(spec[running]) /\ kind[running] = "workspace"
        /\ engine' = engine \cup {cur["workspace"]}
        /\ cur' = [cur EXCEPT !["workspace"] = 0] /\ running' = 0
        /\ UNCHANGED <<made, kind, spec, at, byName, enabled, content, handle, own>>
    BY DEF WorkspaceRuleCommit, SpecSent, callVars
  <1>2. running \in Calls /\ running \in 1 .. made
    BY <1>1 DEF IInv, TypeOK, Numbered, Rules, Calls
  <1>3. engine' = engine \cup {running} /\ content[running] = ItemsOf(running)
    BY <1>1 DEF IInv, CallOwns, ItemsOf
  <1>4. TypeOK'
    <2>1. cur' \in [Kinds -> Rules] /\ running' \in Rules
      <3>1. 0 \in Rules
        BY RuleAssumption DEF Rules
      <3>2. cur \in [Kinds -> Rules]
        BY DEF IInv, TypeOK
      <3>3. QED
        BY <1>1, <3>1, <3>2
    <2>2. engine' \in SUBSET Calls
      BY <1>2, <1>3 DEF IInv, TypeOK
    <2>3. QED
      BY <1>1, <2>1, <2>2 DEF IInv, TypeOK, Rules
  <1>5. Numbered'
    <2>1. running' <= made' /\ engine' \subseteq 1 .. made'
      <3>1. made' = made /\ made \in Nat /\ running' = 0
        BY <1>1 DEF IInv, TypeOK, Rules
      <3>2. engine \subseteq 1 .. made
        BY DEF IInv, Numbered
      <3>3. QED
        BY <1>2, <1>3, <3>1, <3>2
    <2>2. ASSUME NEW j \in Kinds, cur'[j] # 0
          PROVE  cur'[j] <= made' /\ kind'[cur'[j]] = j /\ (j \in EngineKinds => cur'[j] \in engine')
      <3>1. cur'[j] = cur[j]
        BY <1>1, <2>2 DEF IInv, TypeOK
      <3>2. QED
        BY <1>1, <2>2, <3>1 DEF IInv, Numbered
    <2>3. QED
      BY <1>1, <2>1, <2>2 DEF IInv, Numbered
  <1>6. CallOwns'
    BY <1>1 DEF CallOwns
  <1>7. HandlesAndNamesAreLive'
    BY <1>1 DEF IInv, HandlesAndNamesAreLive, ItemsOf, SortOf
  <1>8. ItemsStayHome'
    BY <1>1, <1>3 DEF IInv, ItemsStayHome, ItemsOf, SortOf
  <1>9. QED
    BY <1>4, <1>5, <1>6, <1>7, <1>8 DEF IInv

LEMMA ClearSchemeRulesKeeps ==
    ASSUME IInv, ClearSchemeRules
    PROVE  IInv'
  <1>1. /\ running = 0 /\ running' = 0 /\ engine' = {}
        /\ byName' = [k \in EngineKinds |-> [n \in Names |-> 0]]
        /\ handle' = [c \in Calls |-> 0] /\ cur' = [k \in Kinds |-> 0]
        /\ UNCHANGED <<made, kind, spec, at, enabled, content, own>>
    BY DEF ClearSchemeRules, callVars
  <1>2. TypeOK'
    BY <1>1 DEF IInv, TypeOK, Rules
  <1>3. Numbered'
    BY <1>1 DEF IInv, TypeOK, Numbered, Rules
  <1>4. CallOwns'
    BY <1>1 DEF CallOwns
  <1>5. HandlesAndNamesAreLive'
    BY <1>1 DEF HandlesAndNamesAreLive
  <1>6. ItemsStayHome'
    BY <1>1 DEF IInv, ItemsStayHome, ItemsOf, SortOf
  <1>7. QED
    BY <1>2, <1>3, <1>4, <1>5, <1>6 DEF IInv

LEMMA StepKeeps ==
    ASSUME IInv, [Next]_vars
    PROVE  IInv'
  <1>1. ASSUME NEW k \in EngineKinds, NEW n \in Names \cup {Anon}, NEW b \in BOOLEAN, RuleBegin(k, n, b)
        PROVE  IInv'
    BY <1>1, RuleBeginKeeps
  <1>2. CASE WorkspaceRuleBegin
    BY <1>2, WorkspaceRuleBeginKeeps
  <1>3. CASE RuleMatch
    BY <1>3, RuleMatchKeeps
  <1>4. CASE RuleEffect
    BY <1>4, RuleEffectKeeps
  <1>5. CASE Refuse \/ Abandon
    <2>1. enabled' \in SUBSET Calls
      BY <1>5 DEF Refuse, Abandon, IInv, TypeOK
    <2>2. running' = 0 /\ UNCHANGED <<callVars, at, cur, byName, engine, content, handle, own>>
      BY <1>5 DEF Refuse, Abandon
    <2>3. QED
      BY <2>1, <2>2, QuietKeeps
  <1>6. CASE RuleCommit
    BY <1>6, EngineRuleCommitKeeps
  <1>7. CASE WorkspaceRuleCommit
    BY <1>7, WorkspaceRuleCommitKeeps
  <1>8. CASE RuleSetEnabled
    <2>1. enabled' \in SUBSET Calls
      <3>1. PICK c \in Calls : /\ handle[c] # 0
                               /\ \/ enabled' = enabled \cup {handle[c]}
                                  \/ enabled' = enabled \ {handle[c]}
        BY <1>8 DEF RuleSetEnabled
      <3>2. handle[c] \in Calls
        BY <3>1 DEF IInv, TypeOK, Rules, Calls
      <3>3. QED
        BY <3>1, <3>2 DEF IInv, TypeOK
    <2>2. running' = running /\ UNCHANGED <<callVars, at, cur, byName, engine, content, handle, own>>
      BY <1>8 DEF RuleSetEnabled
    <2>3. QED
      BY <2>1, <2>2, QuietKeeps
  <1>9. CASE ClearSchemeRules
    BY <1>9, ClearSchemeRulesKeeps
  <1>10. CASE UNCHANGED vars
    BY <1>10, QuietKeeps DEF vars, IInv, TypeOK
  <1>11. QED
    BY <1>1, <1>2, <1>3, <1>4, <1>5, <1>6, <1>7, <1>8, <1>9, <1>10 DEF Next

LEMMA Invariance == Spec => []IInv
  <1>1. Init => IInv
    BY InitHolds
  <1>2. IInv /\ [Next]_vars => IInv'
    BY StepKeeps
  <1>3. QED
    BY <1>1, <1>2, PTL DEF Spec

\* The variables of the staging protocol keep their types.
THEOREM TypeCorrect == Spec => []TypeOK
  <1>1. IInv => TypeOK
    BY DEF IInv
  <1>2. QED
    BY <1>1, Invariance, PTL

\* However many calls of the three makers were refused or abandoned half way, an effect,
\* and a match of a window rule, is on the rule of its own call, and the compositor has a
\* workspace rule whole or not at all (hlRuleMatch, hlWindowRuleEffect, hlLayerRuleEffect,
\* hlWorkspaceRuleCommit).
THEOREM ItemsHome == Spec => []ItemsStayHome
  <1>1. IInv => ItemsStayHome
    BY DEF IInv
  <1>2. QED
    BY <1>1, Invariance, PTL

\* A handle stands for a registered rule that has what its call asked for, and a name for
\* one registered rule of its kind, also after a reload (hlWindowRuleCommit,
\* hlLayerRuleCommit, clearSchemeRules).
THEOREM LiveHandles == Spec => []HandlesAndNamesAreLive
  <1>1. IInv => HandlesAndNamesAreLive
    BY DEF IInv
  <1>2. QED
    BY <1>1, Invariance, PTL
=============================================================================
