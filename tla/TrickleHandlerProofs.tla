------------------------ MODULE TrickleHandlerProofs ------------------------
(***************************************************************************)
(* Proofs about TrickleHandler, for every number of messages, sensors,     *)
(* ids, failures and crashes: datapoints arrive under their own id, none   *)
(* are lost without a failure, none arrive twice without a crash.          *)
(***************************************************************************)
EXTENDS TrickleHandler, TLAPS

\* An id in a group or in the message in work is one the OSD server gave out for
\* a sensor of that name.
OwnIds(f) == \A n \in DOMAIN f : f[n].id # Unknown => owner[f[n].id] = n

OwnInv == /\ \A g \in Group : OwnIds(stored[g])
          /\ OwnIds(tr)
          /\ UploadedUnderOwnName

\* How far the message in work is: which of its sensors have an id.
Has(n) == tr[n].id # Unknown
Asked(g, n) == Has(n) \/ n \in DOMAIN stored[g]
PassInv ==
  cur \notin hit =>
    /\ pc = "host request" => \A n \in DOMAIN tr :
         tr[n].desc # Workunit => Asked("host", n)
    /\ pc \in {"wus", "wus request", "datapoints"} => \A n \in DOMAIN tr :
         tr[n].desc # Workunit => Has(n)
    /\ pc = "wus request" => \A n \in DOMAIN tr :
         tr[n].desc = Workunit => Asked("wus", n)
    /\ pc = "datapoints" => \A n \in DOMAIN tr : Has(n)
    /\ pc = "return" /\ DOMAIN content[cur] # {} => uploads[cur] >= 1

\* How often the datapoints of a message were received.
CountInv ==
  /\ pc # "idle" => status[cur] = "new"
  /\ \A m \in Msg :
       status[m] \in {"none", "new"} /\ (m = cur => pc # "return")
         => uploads[m] <= crashes
  /\ UploadedOnce

Inv == TypeOK /\ OwnInv /\ PassInv /\ CountInv /\ NothingLostWithoutFailure

----------------------------------------------------------------------------
\* The sensors of the message with the ids of group g are sensors.
LEMMA IdentifiedIs ==
  ASSUME TypeOK, NEW g \in Group
  PROVE  /\ IsSensors(Identified(g))
         /\ DOMAIN Identified(g) = DOMAIN tr
         /\ \A n \in DOMAIN tr : Identified(g)[n].desc = tr[n].desc
         /\ \A n \in DOMAIN tr \ Managed(g) : Identified(g)[n] = tr[n]
BY DEF TypeOK, IsSensors, Identified, Managed

\* So are the sensors a group is updated to.
LEMMA ReconciledIs ==
  ASSUME TypeOK, NEW g \in Group
  PROVE  /\ IsSensors(Reconciled(g))
         /\ New(g) \subseteq DOMAIN Reconciled(g)
<1>1. /\ Old(g) \subseteq DOMAIN stored[g] /\ New(g) \subseteq DOMAIN tr
      /\ Redescribed(g) \subseteq DOMAIN tr
  BY DEF Old, New, Redescribed, Managed
<1>2. IsSensors(stored[g]) /\ DOMAIN tr \subseteq Name
  BY DEF TypeOK, IsSensors
<1>3. QED
  BY <1>1, <1>2, IdentifiedIs DEF Reconciled, IsSensors

\* An answer of the OSD server gives every sensor of the group an id of its own,
\* and takes no id away from the sensor it was given out for.
LEMMA AnswerIs ==
  ASSUME TypeOK, NEW g \in Group, NEW given \in Giving(g)
  PROVE  /\ IsSensors(Answer(g, given))
         /\ \A n \in DOMAIN stored[g] : Answer(g, given)[n].id \in Id
         /\ DOMAIN Answer(g, given) = DOMAIN stored[g]
         /\ Owned(given) \in [Id -> Name \union {NoName}]
         /\ \A id \in Id : owner[id] # NoName => Owned(given)[id] = owner[id]
         /\ \A n \in NoId(g) : Owned(given)[given[n]] = n
<1>1. /\ given \in [NoId(g) -> Id] /\ NoId(g) \subseteq DOMAIN stored[g]
      /\ \A n \in NoId(g) : owner[given[n]] \in {n, NoName}
      /\ \A n, k \in NoId(g) : given[n] = given[k] => n = k
  BY DEF Giving, NoId
<1>2. IsSensors(stored[g]) /\ owner \in [Id -> Name \union {NoName}]
  BY DEF TypeOK
<1>3. /\ IsSensors(Answer(g, given))
      /\ \A n \in DOMAIN stored[g] : Answer(g, given)[n].id \in Id
      /\ DOMAIN Answer(g, given) = DOMAIN stored[g]
  BY <1>1, <1>2, HandlerAssumption DEF Answer, IsSensors, NoId
<1>4. ASSUME NEW n \in NoId(g)
      PROVE  Owned(given)[given[n]] = n
  BY <1>1, <1>4 DEF Owned
<1>5. ASSUME NEW id \in Id
      PROVE  /\ Owned(given)[id] \in Name \union {NoName}
             /\ owner[id] # NoName => Owned(given)[id] = owner[id]
  <2>1. CASE \E n \in DOMAIN given : given[n] = id
    <3>1. PICK n \in NoId(g) : given[n] = id
      BY <1>1, <2>1
    <3>2. Owned(given)[id] = n /\ n \in Name
      BY <3>1, <1>4, <1>1, <1>2 DEF IsSensors
    <3>3. QED
      BY <3>1, <3>2, <1>1
  <2>2. CASE ~\E n \in DOMAIN given : given[n] = id
    BY <2>2, <1>2 DEF Owned
  <2>3. QED
    BY <2>1, <2>2
<1>6. QED
  BY <1>3, <1>4, <1>5 DEF Owned

\* The ids of an answer in the sensors of the message.
LEMMA CopyIdsIs ==
  ASSUME TypeOK, NEW json, IsSensors(json)
  PROVE  /\ IsSensors(CopyIds(json))
         /\ DOMAIN CopyIds(json) = DOMAIN tr
         /\ \A n \in DOMAIN tr : CopyIds(json)[n].desc = tr[n].desc
         /\ \A n \in DOMAIN tr :
              CopyIds(json)[n].id = IF n \in DOMAIN json THEN json[n].id ELSE tr[n].id
BY DEF TypeOK, IsSensors, CopyIds

----------------------------------------------------------------------------
\* A daemon that was never started, on groups an earlier handler may have left.
LEMMA InitInv == Init => Inv
<1> SUFFICES ASSUME Init PROVE Inv
  OBVIOUS
<1> USE HandlerAssumption
<1>1. PICK D \in SUBSET Legacy : \E of \in [D -> Id] :
        /\ \A n, k \in D : of[n] = of[k] => n = k
        /\ stored = [g \in Group |-> IF g = "host"
             THEN [n \in D |-> [desc |-> Workunit, id |-> of[n]]] ELSE NoSensors]
        /\ owner = [id \in Id |-> IF \E n \in D : of[n] = id
             THEN CHOOSE n \in D : of[n] = id ELSE NoName]
  BY DEF Init
<1>2. PICK of \in [D -> Id] :
        /\ \A n, k \in D : of[n] = of[k] => n = k
        /\ stored = [g \in Group |-> IF g = "host"
             THEN [n \in D |-> [desc |-> Workunit, id |-> of[n]]] ELSE NoSensors]
        /\ owner = [id \in Id |-> IF \E n \in D : of[n] = id
             THEN CHOOSE n \in D : of[n] = id ELSE NoName]
  BY <1>1
<1>3. /\ IsSensors(NoSensors) /\ OwnIds(NoSensors) /\ IsContent(NoSensors)
      /\ DOMAIN NoSensors = {}
  BY DEF IsSensors, IsContent, OwnIds, NoSensors
<1>4. ASSUME NEW n \in D PROVE owner[of[n]] = n
  BY <1>2
<1>5. \A n \in D : n \in Name /\ DescOf[n] = {Workunit}
  OBVIOUS
<1>6. DOMAIN stored = Group /\ \A g \in Group : IsSensors(stored[g]) /\ OwnIds(stored[g])
  <2>1. /\ DOMAIN stored = Group /\ stored["wus"] = NoSensors
        /\ stored["host"] = [n \in D |-> [desc |-> Workunit, id |-> of[n]]]
    BY <1>2 DEF Group
  <2>2. IsSensors(stored["host"])
    BY <2>1, <1>5 DEF IsSensors
  <2>3. OwnIds(stored["host"])
    BY <2>1, <1>4 DEF OwnIds
  <2>4. QED
    BY <2>1, <2>2, <2>3, <1>3 DEF Group
<1>7. owner \in [Id -> Name \union {NoName}]
  <2>1. ASSUME NEW id \in Id PROVE owner[id] \in Name \union {NoName}
    BY <1>2, <1>5
  <2>2. owner = [id \in Id |-> owner[id]]
    BY <1>2
  <2>3. QED
    BY <2>1, <2>2
<1>8. TypeOK
  BY <1>3, <1>6, <1>7 DEF Init, TypeOK, PC
<1>9. OwnInv
  BY <1>3, <1>6 DEF Init, OwnInv, UploadedUnderOwnName
<1>10. PassInv /\ CountInv /\ NothingLostWithoutFailure
  BY DEF Init, PassInv, CountInv, UploadedOnce, NothingLostWithoutFailure
<1>11. QED
  BY <1>8, <1>9, <1>10 DEF Inv

\* A failure, if it strikes, strikes a message and is counted.
LEMMA FailIs ==
  ASSUME TypeOK, NEW m \in Msg, Fine \/ Fail(m)
  PROVE  hit' \subseteq Msg /\ failures' \in 0 .. MaxFailures
<1>1. hit' \subseteq Msg
  BY DEF TypeOK, Fine, Fail
<1>2. failures' \in 0 .. MaxFailures
  BY HandlerAssumption DEF TypeOK, Fine, Fail
<1>3. QED
  BY <1>1, <1>2

\* Every step, whatever fails, keeps the types: one case per action.
LEMMA TypeStep ==
  ASSUME TypeOK, [Next]_vars
  PROVE  TypeOK'
<1> USE HandlerAssumption
<1>0. IsSensors(NoSensors)
  BY DEF IsSensors, NoSensors
<1>1. ASSUME NEW m \in Msg, Arrive(m) PROVE TypeOK'
  <2>1. PICK f : IsContent(f) /\ content' = [content EXCEPT ![m] = f]
    <3>1. PICK D \in SUBSET Name : \E f \in [D -> Desc] :
            /\ \A n \in D : f[n] \in DescOf[n]
            /\ content' = [content EXCEPT ![m] = f]
      BY <1>1 DEF Arrive
    <3>2. QED
      BY <3>1 DEF IsContent
  <2>2. DOMAIN content' = Msg /\ \A k \in Msg : IsContent(content'[k])
    BY <2>1 DEF TypeOK
  <2>3. status' \in [Msg -> {"none", "new", "handled", "deleted"}]
    BY <1>1 DEF Arrive, TypeOK
  <2>4. QED
    BY <1>1, <2>2, <2>3 DEF Arrive, TypeOK
<1>2. ASSUME NEW m \in Msg, Begin(m) PROVE TypeOK'
  <2>1. IsSensors(tr')
    <3>1. CASE tr' = [n \in DOMAIN content[m] |->
                        [desc |-> content[m][n], id |-> Unknown]]
      BY <3>1 DEF TypeOK, IsContent, IsSensors
    <3>2. QED
      BY <1>2, <1>0, <3>1 DEF Begin
  <2>2. pc' \in PC /\ cur' \in Msg /\ hit' \subseteq Msg
        /\ failures' \in 0 .. MaxFailures
    <3>1. Fine \/ Fail(m)
      BY <1>2 DEF Begin
    <3>2. pc' \in PC /\ cur' \in Msg
      BY <1>2 DEF Begin, PC
    <3>3. QED
      BY <3>1, <3>2, FailIs
  <2>3. status' \in [Msg -> {"none", "new", "handled", "deleted"}]
    BY <1>2 DEF Begin, TypeOK
  <2>4. QED
    BY <1>2, <2>1, <2>2, <2>3 DEF Begin, TypeOK
<1>3. CASE Account
  <2>1. hit' \subseteq Msg /\ failures' \in 0 .. MaxFailures
    BY <1>3, FailIs DEF Account, TypeOK
  <2>2. pc' \in PC
    BY <1>3 DEF Account, PC
  <2>3. QED
    BY <1>3, <2>1, <2>2 DEF Account, dbVars, TypeOK
<1>4. ASSUME NEW g \in Group, ManageSensors(g) PROVE TypeOK'
  <2>1. IsSensors(tr')
    BY <1>4, IdentifiedIs DEF ManageSensors
  <2>2. DOMAIN stored' = Group /\ \A k \in Group : IsSensors(stored'[k])
    BY <1>4, ReconciledIs DEF ManageSensors, TypeOK
  <2>3. pc' \in PC
    BY <1>4 DEF ManageSensors, AfterGroup, RequestOf, PC
  <2>4. QED
    BY <1>4, <2>1, <2>2, <2>3 DEF ManageSensors, TypeOK
<1>5. ASSUME NEW g \in Group, Request(g) PROVE TypeOK'
  <2>1. pc' \in PC /\ hit' \subseteq Msg /\ failures' \in 0 .. MaxFailures
    <3>1. Fine \/ Fail(cur)
      BY <1>5 DEF Request
    <3>2. pc' \in PC
      BY <1>5 DEF Request, AfterGroup, PC
    <3>3. QED
      BY <3>1, <3>2, FailIs DEF TypeOK
  <2>2. /\ IsSensors(tr') /\ owner' \in [Id -> Name \union {NoName}]
        /\ DOMAIN stored' = Group /\ \A k \in Group : IsSensors(stored'[k])
    <3>1. ASSUME NEW given \in Giving(g), owner' = Owned(given),
                 stored' = [stored EXCEPT ![g] = Answer(g, given)],
                 tr' = CopyIds(Answer(g, given))
          PROVE  /\ IsSensors(tr') /\ owner' \in [Id -> Name \union {NoName}]
                 /\ DOMAIN stored' = Group
                 /\ \A k \in Group : IsSensors(stored'[k])
      BY <3>1, AnswerIs, CopyIdsIs DEF TypeOK
    <3>2. CASE UNCHANGED <<owner, stored, tr>>
      BY <3>2 DEF TypeOK
    <3>3. ASSUME NEW given \in Giving(g), owner' = Owned(given),
                 UNCHANGED <<stored, tr>>
          PROVE  /\ IsSensors(tr') /\ owner' \in [Id -> Name \union {NoName}]
                 /\ DOMAIN stored' = Group
                 /\ \A k \in Group : IsSensors(stored'[k])
      BY <3>3, AnswerIs DEF TypeOK
    <3>4. CASE stored' = [stored EXCEPT ![g] = NoSensors]
               /\ UNCHANGED <<owner, tr>>
      BY <3>4, <1>0 DEF TypeOK
    <3>5. QED
      BY <1>5, <3>1, <3>2, <3>3, <3>4 DEF Request
  <2>3. QED
    BY <1>5, <2>1, <2>2 DEF Request, TypeOK
<1>6. CASE Datapoints
  <2>1. uploads' \in [Msg -> Nat]
        /\ uploadedAs' \subseteq Name \X (Id \union {Unknown})
    BY <1>6 DEF Datapoints, Lost, Received, TypeOK, IsSensors
  <2>2. pc' \in PC /\ hit' \subseteq Msg /\ failures' \in 0 .. MaxFailures
    <3>1. Fine \/ Fail(cur)
      BY <1>6 DEF Datapoints
    <3>2. pc' \in PC
      BY <1>6 DEF Datapoints, PC
    <3>3. QED
      BY <3>1, <3>2, FailIs DEF TypeOK
  <2>3. QED
    BY <1>6, <2>1, <2>2 DEF Datapoints, dbVars, TypeOK
<1>7. CASE Return
  BY <1>7, <1>0 DEF Return, TypeOK, PC
<1>8. CASE Crash
  <2>1. crashes' \in 0 .. MaxCrashes
    BY <1>8 DEF Crash, TypeOK
  <2>2. QED
    BY <1>8, <1>0, <2>1 DEF Crash, dbVars, TypeOK, PC
<1>9. CASE UNCHANGED vars
  BY <1>9 DEF vars, dbVars, TypeOK
<1>10. QED
  BY <1>1, <1>2, <1>3, <1>4, <1>5, <1>6, <1>7, <1>8, <1>9 DEF Next

----------------------------------------------------------------------------
(***************************************************************************)
(* Ids.                                                                    *)
(***************************************************************************)

\* An answer never moves an id from one sensor to another.
LEMMA OwnKept ==
  ASSUME TypeOK, OwnInv, NEW g \in Group, NEW given \in Giving(g),
         owner' = Owned(given)
  PROVE  /\ \A k \in Group : \A n \in DOMAIN stored[k] :
              stored[k][n].id # Unknown => owner'[stored[k][n].id] = n
         /\ \A n \in DOMAIN tr : tr[n].id # Unknown => owner'[tr[n].id] = n
         /\ \A p \in uploadedAs : p[2] \in Id /\ owner'[p[2]] = p[1]
         /\ \A n \in DOMAIN stored[g] :
              owner'[Answer(g, given)[n].id] = n
<1> USE HandlerAssumption
<1>1. \A id \in Id : owner[id] # NoName => owner'[id] = owner[id]
  BY AnswerIs
<1>2. ASSUME NEW f, IsSensors(f), OwnIds(f), NEW n \in DOMAIN f, f[n].id # Unknown
      PROVE  owner'[f[n].id] = n
  <2>1. f[n].id \in Id /\ owner[f[n].id] = n /\ n \in Name
    BY <1>2 DEF IsSensors, OwnIds
  <2>2. QED
    BY <2>1, <1>1
<1>3. ASSUME NEW k \in Group, NEW n \in DOMAIN stored[k], stored[k][n].id # Unknown
      PROVE  owner'[stored[k][n].id] = n
  BY <1>2, <1>3 DEF TypeOK, OwnInv
<1>4. \A n \in DOMAIN tr : tr[n].id # Unknown => owner'[tr[n].id] = n
  BY <1>2 DEF TypeOK, OwnInv
<1>5. \A p \in uploadedAs : p[2] \in Id /\ owner'[p[2]] = p[1]
  <2>1. ASSUME NEW p \in uploadedAs PROVE p[2] \in Id /\ owner[p[2]] \in Name
    BY DEF TypeOK, OwnInv, UploadedUnderOwnName
  <2>2. QED
    BY <2>1, <1>1 DEF OwnInv, UploadedUnderOwnName
<1>6. ASSUME NEW n \in DOMAIN stored[g]
      PROVE  owner'[Answer(g, given)[n].id] = n
  <2>1. CASE n \in NoId(g)
    BY <2>1, AnswerIs DEF Answer
  <2>2. CASE n \notin NoId(g)
    BY <2>2, <1>3 DEF Answer, NoId
  <2>3. QED
    BY <2>1, <2>2
<1>7. QED
  BY <1>3, <1>4, <1>5, <1>6

\* Every step keeps the ids with the sensors they were given out for.
LEMMA OwnStep ==
  ASSUME TypeOK, OwnInv, [Next]_vars
  PROVE  OwnInv'
<1> USE HandlerAssumption
<1>0. OwnIds(NoSensors)'
  BY DEF OwnIds, NoSensors
<1>1. CASE UNCHANGED <<stored, owner, tr, uploadedAs>>
  BY <1>1 DEF OwnInv, OwnIds, UploadedUnderOwnName
<1>2. ASSUME NEW m \in Msg, Begin(m) PROVE OwnInv'
  <2>1. OwnIds(tr)'
    BY <1>2 DEF Begin, OwnIds, NoSensors
  <2>2. QED
    BY <1>2, <2>1 DEF Begin, OwnInv, OwnIds, UploadedUnderOwnName
<1>3. ASSUME NEW g \in Group, ManageSensors(g) PROVE OwnInv'
  <2>1. OwnIds(Identified(g))
    BY DEF OwnInv, OwnIds, Identified, Managed
  <2>2. OwnIds(tr)'
    BY <1>3, <2>1 DEF ManageSensors, OwnIds
  <2>3. OwnIds(Reconciled(g))
    BY <2>1, IdentifiedIs DEF OwnInv, OwnIds, Reconciled, Old, New, Redescribed,
                              Managed
  <2>4. \A k \in Group : OwnIds(stored'[k])
    BY <1>3, <2>3 DEF ManageSensors, OwnInv, TypeOK
  <2>5. QED
    BY <1>3, <2>2, <2>4 DEF ManageSensors, OwnInv, OwnIds, UploadedUnderOwnName
<1>4. ASSUME NEW g \in Group, Request(g) PROVE OwnInv'
  <2>1. ASSUME NEW given \in Giving(g), owner' = Owned(given),
               stored' = [stored EXCEPT ![g] = Answer(g, given)],
               tr' = CopyIds(Answer(g, given)), UNCHANGED uploadedAs
        PROVE  OwnInv'
    <3>1. /\ IsSensors(Answer(g, given))
          /\ DOMAIN Answer(g, given) = DOMAIN stored[g]
      BY AnswerIs
    <3>2. \A k \in Group : OwnIds(stored[k])'
      BY <2>1, <3>1, OwnKept DEF OwnIds, TypeOK
    <3>3. OwnIds(tr)'
      BY <2>1, <3>1, OwnKept, CopyIdsIs DEF OwnIds
    <3>4. UploadedUnderOwnName'
      BY <2>1, OwnKept DEF UploadedUnderOwnName
    <3>5. QED
      BY <3>2, <3>3, <3>4 DEF OwnInv
  <2>2. ASSUME NEW given \in Giving(g), owner' = Owned(given),
               UNCHANGED <<stored, tr, uploadedAs>>
        PROVE  OwnInv'
    BY <2>2, OwnKept DEF OwnInv, OwnIds, UploadedUnderOwnName
  <2>3. CASE stored' = [stored EXCEPT ![g] = NoSensors]
             /\ UNCHANGED <<owner, tr, uploadedAs>>
    BY <2>3, <1>0 DEF OwnInv, OwnIds, UploadedUnderOwnName, TypeOK
  <2>4. QED
    BY <1>4, <1>1, <2>1, <2>2, <2>3 DEF Request
<1>5. CASE Datapoints
  <2>1. CASE Received /\ \A n \in DOMAIN tr : tr[n].id # Unknown
    <3>1. ASSUME NEW n \in DOMAIN tr PROVE tr[n].id \in Id /\ owner[tr[n].id] = n
      BY <2>1 DEF TypeOK, IsSensors, OwnInv, OwnIds
    <3>2. UploadedUnderOwnName'
      BY <1>5, <2>1, <3>1
         DEF Received, Datapoints, OwnInv, UploadedUnderOwnName
    <3>3. QED
      BY <1>5, <3>2 DEF Datapoints, dbVars, OwnInv, OwnIds
  <2>2. CASE Lost
    BY <1>1, <1>5, <2>2 DEF Datapoints, Lost, dbVars
  <2>3. QED
    BY <1>5, <2>1, <2>2 DEF Datapoints
<1>6. CASE UNCHANGED <<stored, owner, uploadedAs>> /\ tr' = NoSensors
  BY <1>6, <1>0 DEF OwnInv, OwnIds, UploadedUnderOwnName
<1>7. QED
  BY <1>1, <1>2, <1>3, <1>4, <1>5, <1>6
     DEF Next, Arrive, Account, Return, Crash, vars, dbVars

----------------------------------------------------------------------------
(***************************************************************************)
(* Messages.                                                               *)
(***************************************************************************)

\* Every step counts what was received once per attempt.
LEMMA CountStep ==
  ASSUME TypeOK, CountInv, [Next]_vars
  PROVE  CountInv'
<1> USE DEF TypeOK, CountInv, UploadedOnce
<1>1. ASSUME NEW m \in Msg, Arrive(m) PROVE CountInv'
  BY <1>1 DEF Arrive
<1>2. ASSUME NEW m \in Msg, Begin(m) PROVE CountInv'
  BY <1>2 DEF Begin
<1>3. CASE Account
  BY <1>3 DEF Account, dbVars
<1>4. ASSUME NEW g \in Group, ManageSensors(g) \/ Request(g) PROVE CountInv'
  <2>1. /\ UNCHANGED <<status, cur, uploads, crashes>>
        /\ pc # "idle" /\ pc # "return" /\ pc' # "return"
    BY <1>4 DEF ManageSensors, Request, AfterGroup, RequestOf, Group
  <2>2. QED
    BY <2>1
<1>5. CASE Datapoints
  BY <1>5 DEF Datapoints, Received, Lost, dbVars
<1>6. CASE Return
  BY <1>6 DEF Return
<1>7. CASE Crash
  BY <1>7 DEF Crash, dbVars
<1>8. CASE UNCHANGED vars
  BY <1>8 DEF vars, dbVars
<1>9. QED
  BY <1>1, <1>2, <1>3, <1>4, <1>5, <1>6, <1>7, <1>8 DEF Next

\* Every sensor of the message that was asked for has an id after the answer.
LEMMA AskedIsAnswered ==
  ASSUME TypeOK, NEW g \in Group, NEW given \in Giving(g),
         tr' = CopyIds(Answer(g, given))
  PROVE  /\ DOMAIN tr' = DOMAIN tr
         /\ \A n \in DOMAIN tr : tr'[n].desc = tr[n].desc
         /\ \A n \in DOMAIN tr : Asked(g, n) => Has(n)'
<1> DEFINE json == Answer(g, given)
<1>1. /\ IsSensors(json) /\ DOMAIN json = DOMAIN stored[g]
      /\ \A n \in DOMAIN stored[g] : json[n].id # Unknown
  BY AnswerIs, HandlerAssumption
<1>2. tr' = CopyIds(json)
  OBVIOUS
<1> HIDE DEF json
<1>3. /\ DOMAIN CopyIds(json) = DOMAIN tr
      /\ \A n \in DOMAIN tr : CopyIds(json)[n].desc = tr[n].desc
      /\ \A n \in DOMAIN tr : CopyIds(json)[n].id =
           IF n \in DOMAIN json THEN json[n].id ELSE tr[n].id
  BY <1>1, CopyIdsIs
<1>4. QED
  BY <1>1, <1>2, <1>3 DEF Asked, Has

\* Every step brings the message in work nearer to its upload, or fails.
LEMMA PassStep ==
  ASSUME TypeOK, PassInv, CountInv, [Next]_vars
  PROVE  PassInv'
<1> USE HandlerAssumption DEF PassInv
<1>1. ASSUME NEW m \in Msg, Arrive(m) PROVE PassInv'
  <2>1. pc # "idle" => content'[cur] = content[cur]
    BY <1>1 DEF Arrive, CountInv, TypeOK
  <2>2. QED
    BY <1>1, <2>1 DEF Arrive, Asked, Has
<1>2. ASSUME NEW m \in Msg, Begin(m) PROVE PassInv'
  BY <1>2 DEF Begin, Fine, Fail
<1>3. CASE Account
  BY <1>3 DEF Account, Fine, Fail
<1>4. CASE ManageSensors("host")
  <2>1. IsSensors(tr) /\ "host" \in Group
    BY DEF TypeOK, Group
  <2>2. \A n \in DOMAIN tr' : tr'[n] = Identified("host")[n] /\ n \in DOMAIN tr
                              /\ tr'[n].desc = tr[n].desc
    BY <1>4, <2>1, IdentifiedIs DEF ManageSensors
  <2>3. CASE NeedUpdate("host") /\ pc' = "host request"
    <3>1. \A n \in New("host") : n \in DOMAIN stored'["host"]
      BY <1>4, <2>1, <2>3, ReconciledIs DEF ManageSensors, TypeOK, RequestOf,
                                            AfterGroup
    <3>2. QED
      BY <2>2, <2>3, <3>1 DEF New, manage_sensor, Asked, Has
  <2>4. CASE ~NeedUpdate("host") /\ pc' = "wus"
    BY <2>2, <2>4 DEF NeedUpdate, New, manage_sensor, Has
  <2>5. QED
    BY <1>4, <2>3, <2>4 DEF ManageSensors, RequestOf, AfterGroup
<1>5. CASE ManageSensors("wus")
  <2>1. IsSensors(tr) /\ "wus" \in Group /\ pc = "wus"
    BY <1>5 DEF TypeOK, Group, ManageSensors
  <2>2. \A n \in DOMAIN tr' : tr'[n] = Identified("wus")[n] /\ n \in DOMAIN tr
                              /\ tr'[n].desc = tr[n].desc
    BY <1>5, <2>1, IdentifiedIs DEF ManageSensors
  <2>3. ASSUME NEW n \in DOMAIN tr, tr[n].desc # Workunit
        PROVE  Identified("wus")[n] = tr[n]
    <3>1. n \notin Managed("wus")
      BY <2>1, <2>3 DEF Managed, manage_sensor, TypeOK, IsSensors
    <3>2. QED
      BY <2>1, <3>1, IdentifiedIs
  <2>4. cur \notin hit => \A n \in DOMAIN tr' : tr'[n].desc # Workunit => Has(n)'
    BY <2>1, <2>2, <2>3 DEF Has
  <2>5. CASE NeedUpdate("wus") /\ pc' = "wus request"
    <3>1. \A n \in New("wus") : n \in DOMAIN stored'["wus"]
      BY <1>5, <2>1, <2>5, ReconciledIs DEF ManageSensors, TypeOK, RequestOf,
                                            AfterGroup
    <3>2. \A n \in DOMAIN tr' : tr'[n].desc = Workunit => Asked("wus", n)'
      BY <2>2, <3>1 DEF New, manage_sensor, Asked, Has
    <3>3. QED
      BY <1>5, <2>4, <2>5, <3>2 DEF ManageSensors
  <2>6. CASE ~NeedUpdate("wus") /\ pc' = "datapoints"
    <3>1. \A n \in DOMAIN tr' : tr'[n].desc = Workunit => Has(n)'
      BY <2>2, <2>6 DEF NeedUpdate, New, manage_sensor, Has
    <3>2. QED
      BY <1>5, <2>4, <2>6, <3>1 DEF ManageSensors
  <2>7. QED
    BY <1>5, <2>5, <2>6 DEF ManageSensors, RequestOf, AfterGroup
<1>6. ASSUME NEW g \in Group, Request(g) PROVE PassInv'
  <2>1. CASE Fail(cur)
    BY <1>6, <2>1 DEF Fail, Request
  <2>2. ASSUME NEW given \in Giving(g), tr' = CopyIds(Answer(g, given)), Fine
        PROVE  PassInv'
    <3>1. /\ DOMAIN tr' = DOMAIN tr
          /\ \A n \in DOMAIN tr : tr'[n].desc = tr[n].desc
          /\ \A n \in DOMAIN tr : Asked(g, n) => Has(n)'
      BY <2>2, AskedIsAnswered
    <3>2. CASE g = "host"
      BY <1>6, <2>2, <3>1, <3>2 DEF Request, RequestOf, AfterGroup, Fine
    <3>3. CASE g = "wus"
      <4>1. pc = "wus request" /\ pc' = "datapoints" /\ UNCHANGED <<cur, hit>>
        BY <1>6, <2>2, <3>3 DEF Request, RequestOf, AfterGroup, Fine
      <4>2. cur \notin hit => \A n \in DOMAIN tr' : Has(n)'
        BY <3>1, <3>3, <4>1 DEF Asked
      <4>3. QED
        BY <4>1, <4>2
    <3>4. QED
      BY <3>2, <3>3 DEF Group
  <2>3. QED
    BY <1>6, <2>1, <2>2 DEF Request
<1>7. CASE Datapoints
  <2>1. CASE Fail(cur)
    BY <1>7, <2>1 DEF Datapoints, Fail
  <2>2. CASE Received /\ Fine
    BY <1>7, <2>2 DEF Datapoints, Received, Fine, TypeOK
  <2>3. CASE (\E n \in DOMAIN tr : tr[n].id = Unknown) /\ Fine
    BY <1>7, <2>3 DEF Datapoints, Fine, Has
  <2>4. QED
    BY <1>7, <2>1, <2>2, <2>3 DEF Datapoints
<1>8. CASE Return \/ Crash
  BY <1>8 DEF Return, Crash
<1>9. CASE UNCHANGED vars
  BY <1>9 DEF vars, dbVars, Asked, Has
<1>10. QED
  BY <1>1, <1>2, <1>3, <1>4, <1>5, <1>6, <1>7, <1>8, <1>9 DEF Next, Group

\* A message leaves the handler uploaded, or hit by a failure.
LEMMA LossStep ==
  ASSUME TypeOK, PassInv, CountInv, NothingLostWithoutFailure, [Next]_vars
  PROVE  NothingLostWithoutFailure'
<1> USE DEF TypeOK, NothingLostWithoutFailure
<1>1. ASSUME NEW m \in Msg, Arrive(m) PROVE NothingLostWithoutFailure'
  BY <1>1 DEF Arrive
<1>2. ASSUME NEW m \in Msg, Begin(m) PROVE NothingLostWithoutFailure'
  BY <1>2 DEF Begin, Fine, Fail
<1>3. CASE UNCHANGED <<status, content, uploads>> /\ (Fine \/ Fail(cur))
  BY <1>3 DEF Fine, Fail
<1>4. CASE Datapoints
  <2>1. Fine \/ Fail(cur)
    BY <1>4 DEF Datapoints
  <2>2. UNCHANGED <<status, content>>
        /\ (Lost \/ uploads' = [uploads EXCEPT ![cur] = @ + 1])
    BY <1>4 DEF Datapoints, Received, dbVars
  <2>3. QED
    BY <2>1, <2>2 DEF Lost, Fine, Fail
<1>5. CASE Return
  BY <1>5 DEF Return, PassInv
<1>6. QED
  BY <1>1, <1>2, <1>3, <1>4, <1>5
     DEF Next, Account, ManageSensors, Request, Crash, Fine, vars, dbVars

\* The inductive invariant of the handler holds in every reachable state.
THEOREM Invariance == Spec => []Inv
<1>1. Inv /\ [Next]_vars => Inv'
  BY TypeStep, OwnStep, CountStep, PassStep, LossStep DEF Inv
<1>2. QED
  BY <1>1, InitInv, PTL DEF Spec

\* The handler never mixes up the descriptions of two sensors.
THEOREM TypeCorrect == Spec => []TypeOK
<1>1. Inv => TypeOK
  BY DEF Inv
<1>2. QED
  BY <1>1, Invariance, PTL

\* Datapoints arrive under the id the OSD server gave out for their sensor.
THEOREM UploadsAreOwn == Spec => []UploadedUnderOwnName
<1>1. Inv => UploadedUnderOwnName
  BY DEF Inv, OwnInv
<1>2. QED
  BY <1>1, Invariance, PTL

\* Whatever state earlier failures and restarts left behind, a message that meets
\* none is uploaded.
THEOREM NoLossWithoutFailure == Spec => []NothingLostWithoutFailure
<1>1. Inv => NothingLostWithoutFailure
  BY DEF Inv
<1>2. QED
  BY <1>1, Invariance, PTL

\* Datapoints are received twice only after the daemon was stopped.
THEOREM NoRepeatWithoutCrash == Spec => []UploadedOnce
<1>1. Inv => UploadedOnce
  BY DEF Inv, CountInv
<1>2. QED
  BY <1>1, Invariance, PTL

\* What a group keeps: its sensors, and their ids.
Keeps(g) == \A n \in Managed(g) :
  /\ n \in DOMAIN stored'[g]
  /\ stored[g][n].id # Unknown => stored'[g][n].id = stored[g][n].id

\* Every sensor of the group's kind is among those it is updated to: if the message
\* has it without an id, the message's description is of the same kind.
LEMMA ReconciledKeeps ==
  ASSUME TypeOK, NEW g \in Group, stored' = [stored EXCEPT ![g] = Reconciled(g)]
  PROVE  Keeps(g)
<1>1. stored'[g] = Reconciled(g) /\ IsSensors(stored[g]) /\ IsSensors(tr)
  BY DEF TypeOK
<1>2. ASSUME NEW n \in Managed(g) \ (Old(g) \cup Redescribed(g))
      PROVE  n \in New(g)
  <2>1. n \in DOMAIN stored[g] /\ n \in DOMAIN tr /\ stored[g][n].id = Unknown
    BY <1>2 DEF Managed, Old, Redescribed
  <2>2. stored[g][n].desc \in DescOf[n] /\ tr[n].desc \in DescOf[n] /\ n \in Name
    BY <1>1, <2>1 DEF IsSensors
  <2>3. manage_sensor(g, tr[n].desc) <=> manage_sensor(g, stored[g][n].desc)
    BY <2>2, HandlerAssumption DEF manage_sensor
  <2>4. Identified(g)[n].id = Unknown
    BY <1>2, <2>1 DEF Identified
  <2>5. QED
    BY <1>2, <2>1, <2>3, <2>4 DEF New, Managed
<1>3. ASSUME NEW n \in Managed(g), stored[g][n].id # Unknown
      PROVE  Reconciled(g)[n].id = stored[g][n].id
  <2>1. n \in Old(g) \cup Redescribed(g)
    BY <1>3 DEF Redescribed
  <2>2. CASE n \in Old(g)
    BY <2>2 DEF Reconciled
  <2>3. CASE n \in Redescribed(g) \ Old(g)
    <3>1. n \in DOMAIN tr
      BY <2>3 DEF Redescribed, Old
    <3>2. Identified(g)[n].id = stored[g][n].id
      BY <1>3, <3>1 DEF Identified
    <3>3. QED
      BY <2>3, <3>2 DEF Reconciled
  <2>4. QED
    BY <2>1, <2>2, <2>3
<1>4. \A n \in Managed(g) : n \in DOMAIN Reconciled(g)
  BY <1>2 DEF Reconciled
<1>5. QED
  BY <1>1, <1>3, <1>4 DEF Keeps

\* Neither the update of a group by a message nor a request that fails costs it a
\* sensor or an id; only an answer that is none but reads as one wipes it.
THEOREM GroupsKeepSensors == Spec => KnownSensorsKept
<1>1. ASSUME TypeOK, [Next]_vars, NEW g \in Group, DOMAIN stored'[g] # {}
      PROVE  Keeps(g)
  <2>1. CASE UNCHANGED stored
    BY <2>1 DEF Keeps, Managed
  <2>2. ASSUME NEW h \in Group, ManageSensors(h)
        PROVE  Keeps(g)
    <3>1. CASE stored' = [stored EXCEPT ![h] = Reconciled(h)] /\ g = h
      BY <1>1, <3>1, ReconciledKeeps
    <3>2. CASE stored' = [stored EXCEPT ![h] = Reconciled(h)] /\ g # h
      BY <1>1, <3>2 DEF TypeOK, Keeps, Managed
    <3>3. QED
      BY <2>1, <2>2, <3>1, <3>2 DEF ManageSensors
  <2>3. ASSUME NEW h \in Group, Request(h)
        PROVE  Keeps(g)
    <3>1. ASSUME NEW given \in Giving(h), stored' = [stored EXCEPT ![h] = Answer(h, given)]
          PROVE  Keeps(g)
      BY <1>1, <3>1 DEF TypeOK, Keeps, Managed, Answer, NoId
    <3>2. CASE stored' = [stored EXCEPT ![h] = NoSensors]
      BY <1>1, <3>2 DEF TypeOK, Keeps, Managed, NoSensors
    <3>3. QED
      BY <2>1, <2>3, <3>1, <3>2 DEF Request
  <2>4. QED
    BY <1>1, <2>1, <2>2, <2>3
       DEF Next, Arrive, Begin, Account, Datapoints, Return, Crash, dbVars, vars
<1>2. TypeOK /\ [Next]_vars
        => [\A g \in Group : DOMAIN stored'[g] # {} =>
              \A n \in Managed(g) :
                /\ n \in DOMAIN stored'[g]
                /\ stored[g][n].id # Unknown => stored'[g][n].id = stored[g][n].id]_vars
  BY <1>1 DEF Keeps
<1>3. QED
  BY <1>2, TypeCorrect, PTL DEF Spec, KnownSensorsKept
============================================================================
