--------------------------- MODULE TrickleHandler ---------------------------
(***************************************************************************)
(* The server's trickle handler (server/trickle_handler.cpp).  For each    *)
(* message of a host it brings the host's two groups of sensors, as kept   *)
(* in the BOINC database, in line with the sensors of the message, asks    *)
(* the OSD server for the ids of new sensors, and uploads the datapoints   *)
(* under those ids.                                                        *)
(*                                                                         *)
(* The model follows one host.  The BOINC daemon that calls                *)
(* handle_trickle and the OSD server are external.  A request may be       *)
(* answered, refused, lost on the way there, or have its answer lost.  The *)
(* daemon may be stopped between any two steps.                            *)
(***************************************************************************)
EXTENDS Integers

CONSTANTS
  Msg,          \* messages
  Name,         \* sensor names
  Desc,         \* sensor descriptions
  DescOf,       \* DescOf[n]: the descriptions sensor n may come with
  Workunit,     \* the description of a BOINC workunit sensor
  Legacy,       \* sensors the host group may hold from before the wus group
  Id,           \* ids of datastreams the OSD server can give out (a bound)
  Unknown,      \* Sensor::unknown_osd_id
  NoName,       \* the owner of an id that was not given out yet
  MaxFailures,  \* bound: requests and lookups that go wrong
  MaxCrashes    \* bound: times the daemon is stopped

ASSUME HandlerAssumption ==
  /\ DescOf \in [Name -> SUBSET Desc]
  \* only ResultSensor says "workunit", and no other sensor takes its names
  /\ \A n \in Name : Workunit \in DescOf[n] => DescOf[n] = {Workunit}
  /\ Legacy \subseteq {n \in Name : Workunit \in DescOf[n]}
  /\ Unknown \notin Id
  /\ NoName \notin Name
  /\ MaxFailures \in Nat /\ MaxCrashes \in Nat

Group == {"host", "wus"}         \* DB_OSD_GROUP, DB_OSD_GROUP_WUS
NoSensors == [n \in {} |-> {}]   \* no sensor at all

VARIABLES
  \* the BOINC database
  status,    \* status[m]: "none" (not sent), "new", "handled", "deleted"
  content,   \* content[m]: its sensors, a function from names to descriptions
  stored,    \* stored[g]: the sensors in the json of group g
  \* the OSD server
  owner,     \* owner[id]: the name of the sensor that datastream id is for
  \* handle_trickle
  pc, cur, tr, \* the message in work and its sensors (trickle_sensors)
  \* history
  uploads,   \* uploads[m]: how often the datapoints of m reached the server
  uploadedAs,\* the pairs of a name and the id its datapoints arrived under
  hit,       \* messages some failure hit while they were in work
  failures, crashes

dbVars == <<status, content, stored>>
vars == <<dbVars, owner, pc, cur, tr, uploads, uploadedAs, hit, failures,
          crashes>>

PC == {"idle", "account", "host", "host request", "wus", "wus request",
       "datapoints", "return"}

\* A list of sensors, each with one of its own descriptions and an id.
IsSensors(f) ==
  /\ DOMAIN f \subseteq Name
  /\ f = [n \in DOMAIN f |-> f[n]]
  /\ \A n \in DOMAIN f :
       f[n] \in [desc : DescOf[n], id : Id \union {Unknown}]

IsContent(f) == /\ DOMAIN f \subseteq Name
                /\ \A n \in DOMAIN f : f[n] \in DescOf[n]

\* Type invariant; a sensor never takes the description of another.
TypeOK ==
  /\ status \in [Msg -> {"none", "new", "handled", "deleted"}]
  /\ DOMAIN content = Msg /\ \A m \in Msg : IsContent(content[m])
  /\ DOMAIN stored = Group /\ \A g \in Group : IsSensors(stored[g])
  /\ owner \in [Id -> Name \union {NoName}]
  /\ pc \in PC /\ cur \in Msg /\ IsSensors(tr)
  /\ uploads \in [Msg -> Nat]
  /\ uploadedAs \subseteq Name \X (Id \union {Unknown})
  /\ hit \subseteq Msg
  /\ failures \in 0 .. MaxFailures /\ crashes \in 0 .. MaxCrashes

Init ==
  /\ status = [m \in Msg |-> "none"]
  /\ content = [m \in Msg |-> NoSensors]
  /\ \E D \in SUBSET Legacy : \E of \in [D -> Id] :
       /\ \A n, k \in D : of[n] = of[k] => n = k
       /\ stored = [g \in Group |-> IF g = "host"
            THEN [n \in D |-> [desc |-> Workunit, id |-> of[n]]] ELSE NoSensors]
       /\ owner = [id \in Id |-> IF \E n \in D : of[n] = id
            THEN CHOOSE n \in D : of[n] = id ELSE NoName]
  /\ pc = "idle" /\ cur \in Msg /\ tr = NoSensors
  /\ uploads = [m \in Msg |-> 0] /\ uploadedAs = {} /\ hit = {}
  /\ failures = 0 /\ crashes = 0

----------------------------------------------------------------------------
\* A trickle of the host arrives.  print_datapoints lists only sensors with
\* datapoints; a trickle without sensors carries errors only.
Arrive(m) ==
  /\ status[m] = "none"
  /\ status' = [status EXCEPT ![m] = "new"]
  /\ \E D \in SUBSET Name : \E f \in [D -> Desc] :
       /\ \A n \in D : f[n] \in DescOf[n]
       /\ content' = [content EXCEPT ![m] = f]
  /\ UNCHANGED <<stored, owner, pc, cur, tr, uploads, uploadedAs, hit,
                 failures, crashes>>

Fine == UNCHANGED <<hit, failures>>
Fail(m) == /\ failures < MaxFailures
           /\ failures' = failures + 1
           /\ hit' = hit \union {m}

\* handle_trickle begins: handled messages are deleted, the host is looked up,
\* the <sensors> list is read.
Begin(m) ==
  /\ pc = "idle" /\ status[m] = "new"
  /\ cur' = m
  /\ status' = [k \in Msg |-> IF status[k] = "handled" THEN "deleted"
                              ELSE status[k]]
  /\ \/ /\ pc' = IF DOMAIN content[m] = {} THEN "return" ELSE "account"
        /\ tr' = [n \in DOMAIN content[m] |->
                    [desc |-> content[m][n], id |-> Unknown]]
        /\ Fine
     \/ Fail(m) /\ pc' = "return" /\ tr' = NoSensors
  /\ UNCHANGED <<content, stored, owner, uploads, uploadedAs, crashes>>

\* The OSD account of the user: looked up, or requested and its key stored.
Account ==
  /\ pc = "account"
  /\ \/ pc' = "host" /\ Fine
     \/ pc' = "return" /\ Fail(cur)
  /\ UNCHANGED <<dbVars, owner, cur, tr, uploads, uploadedAs, crashes>>

----------------------------------------------------------------------------
(***************************************************************************)
(* manage_trickle_sensors of group g.                                      *)
(***************************************************************************)
manage_sensor(g, desc) == (desc = Workunit) <=> (g = "wus")

Managed(g) == {n \in DOMAIN stored[g] : manage_sensor(g, stored[g][n].desc)}

\* The sensors of the message take over the ids the group knows.
Identified(g) == [n \in DOMAIN tr |->
  IF n \in Managed(g) THEN [desc |-> tr[n].desc, id |-> stored[g][n].id]
  ELSE tr[n]]

\* Sensors of the group that stay as they are, that get a newer description, and
\* sensors of the message without an id.
Old(g) == {n \in Managed(g) :
             n \in DOMAIN tr => /\ stored[g][n].id # Unknown
                                /\ stored[g][n].desc = tr[n].desc}
Redescribed(g) == {n \in Managed(g) \ Old(g) : stored[g][n].id # Unknown}
New(g) == {n \in DOMAIN tr : /\ manage_sensor(g, tr[n].desc)
                             /\ Identified(g)[n].id = Unknown}

\* Mutant: sensors that still lack an id are forgotten unless the message
\* names them.
ReconciledForgetful(g) ==
  [n \in {k \in Old(g) : stored[g][k].id # Unknown}
         \union Redescribed(g) \union New(g) |->
     IF n \in Old(g) THEN stored[g][n] ELSE Identified(g)[n]]

\* The sensors the group is updated to.
Reconciled(g) == [n \in Old(g) \union Redescribed(g) \union New(g) |->
  IF n \in Old(g) THEN stored[g][n] ELSE Identified(g)[n]]

\* Mutant: a sensor of the message that the group already knows, but without
\* an id, does not trigger a request.
NeedUpdateNotPending(g) ==
  \/ DOMAIN stored[g] # Managed(g)
  \/ \E n \in Old(g) : stored[g][n].id = Unknown
  \/ Redescribed(g) \union (New(g) \ Managed(g)) # {}

NeedUpdate(g) ==
  \/ DOMAIN stored[g] # Managed(g)
  \/ \E n \in Old(g) : stored[g][n].id = Unknown
  \/ Redescribed(g) \union New(g) # {}

AfterGroup(g) == IF g = "host" THEN "wus" ELSE "datapoints"
RequestOf(g) == IF g = "host" THEN "host request" ELSE "wus request"

\* Until the request: the json is saved before the OSD server has seen it.
ManageSensors(g) ==
  /\ pc = g
  /\ tr' = Identified(g)
  /\ \/ /\ NeedUpdate(g)
        /\ stored' = [stored EXCEPT ![g] = Reconciled(g)]
        /\ pc' = RequestOf(g)
     \/ ~NeedUpdate(g) /\ pc' = AfterGroup(g) /\ UNCHANGED stored
  /\ UNCHANGED <<status, content, owner, cur, uploads, uploadedAs, hit,
                 failures, crashes>>

\* The OSD server answers a request of group g: every datastream without an id
\* gets the id of a datastream of that name, or a fresh one.
NoId(g) == {n \in DOMAIN stored[g] : stored[g][n].id = Unknown}
Giving(g) == {given \in [NoId(g) -> Id] :
  /\ \A n \in NoId(g) : owner[given[n]] \in {n, NoName}
  /\ \A n, k \in NoId(g) : given[n] = given[k] => n = k}
Owned(given) == [id \in Id |->
  IF \E n \in DOMAIN given : given[n] = id
  THEN CHOOSE n \in DOMAIN given : given[n] = id ELSE owner[id]]
Answer(g, given) == [n \in DOMAIN stored[g] |->
  IF n \in NoId(g) THEN [desc |-> stored[g][n].desc, id |-> given[n]]
  ELSE stored[g][n]]

\* Mutant: the ids are copied to the sensors of the message by position.
CopyIdsShifted(json) ==
  [n \in DOMAIN tr |->
     IF DOMAIN json # {}
     THEN [desc |-> tr[n].desc, id |-> json[CHOOSE k \in DOMAIN json : TRUE].id]
     ELSE tr[n]]

\* The ids of the answer go to the sensors of the message, by name.
CopyIds(json) ==
  [n \in DOMAIN tr |->
     IF n \in DOMAIN json THEN [desc |-> tr[n].desc, id |-> json[n].id]
     ELSE tr[n]]

\* The request.  response_code is not initialised: if curl_easy_perform fails
\* it may read as 200, and then the empty answer becomes the json of the group.
Request(g) ==
  /\ pc = RequestOf(g)
  /\ pc' = AfterGroup(g)
  /\ \/ \E given \in Giving(g) :           \* answered
          /\ owner' = Owned(given)
          /\ stored' = [stored EXCEPT ![g] = Answer(g, given)]
          /\ tr' = CopyIds(Answer(g, given))
          /\ Fine
     \/ /\ Fail(cur)                       \* refused, or lost on the way there
        /\ UNCHANGED <<owner, stored, tr>>
     \/ /\ Fail(cur)                       \* the answer is lost
        /\ \E given \in Giving(g) : owner' = Owned(given)
        /\ UNCHANGED <<stored, tr>>
     \/ /\ Fail(cur)                       \* lost, and read as a success
        /\ stored' = [stored EXCEPT ![g] = NoSensors]
        /\ UNCHANGED <<owner, tr>>
  /\ UNCHANGED <<status, content, cur, uploads, uploadedAs, crashes>>

----------------------------------------------------------------------------
Lost == UNCHANGED <<uploads, uploadedAs>>
Received ==
  /\ uploads' = [uploads EXCEPT ![cur] = @ + 1]
  /\ uploadedAs' = uploadedAs \union {<<n, tr[n].id>> : n \in DOMAIN tr}

\* Mutant: a message whose upload went wrong is left for another attempt.
DatapointsRetry ==
  /\ pc = "datapoints"
  /\ \/ (\E n \in DOMAIN tr : tr[n].id = Unknown) /\ Lost /\ Fine
        /\ pc' = "return"
     \/ /\ \A n \in DOMAIN tr : tr[n].id # Unknown
        /\ \/ Received /\ Fine /\ pc' = "return"
           \/ (Received \/ Lost) /\ Fail(cur) /\ pc' = "idle"
  /\ UNCHANGED <<dbVars, owner, cur, tr, crashes>>

\* The <datapoints> list: one sensor without an id and the whole list is
\* given up; otherwise one upload.  handle_trickle returns 0 in any case.
Datapoints ==
  /\ pc = "datapoints"
  /\ pc' = "return"
  /\ \/ (\E n \in DOMAIN tr : tr[n].id = Unknown) /\ Lost /\ Fine
     \/ /\ \A n \in DOMAIN tr : tr[n].id # Unknown
        /\ \/ Received /\ Fine
           \/ (Received \/ Lost) /\ Fail(cur)
  /\ UNCHANGED <<dbVars, owner, cur, tr, crashes>>

\* handle_trickle has returned 0: the daemon marks the message as handled.
Return ==
  /\ pc = "return"
  /\ pc' = "idle"
  /\ status' = [status EXCEPT ![cur] = "handled"]
  /\ tr' = NoSensors
  /\ UNCHANGED <<content, stored, owner, cur, uploads, uploadedAs, hit,
                 failures, crashes>>

Crash ==
  /\ pc # "idle" /\ crashes < MaxCrashes
  /\ crashes' = crashes + 1
  /\ pc' = "idle" /\ tr' = NoSensors
  /\ UNCHANGED <<dbVars, owner, cur, uploads, uploadedAs, hit, failures>>

Next == \/ \E m \in Msg : Arrive(m) \/ Begin(m)
        \/ Account
        \/ \E g \in Group : ManageSensors(g) \/ Request(g)
        \/ Datapoints
        \/ Return
        \/ Crash

Spec == Init /\ [][Next]_vars

----------------------------------------------------------------------------
(***************************************************************************)
(* What the handler promises.                                              *)
(***************************************************************************)

\* Datapoints arrive under an id the OSD server gave out for a sensor of that
\* name, although ids pass through two groups, a database, lost answers and
\* restarts: the copies of ids by name in manage_trickle_sensors.
UploadedUnderOwnName == \A p \in uploadedAs : p[2] \in Id /\ owner[p[2]] = p[1]

\* A message with sensors that is done with was uploaded, unless something
\* failed while this very message was in work: whatever earlier failures and
\* restarts left in the groups, manage_trickle_sensors finds an id for every
\* sensor of the message in one pass.
NothingLostWithoutFailure ==
  \A m \in Msg \ hit :
    status[m] \in {"handled", "deleted"} /\ DOMAIN content[m] # {}
      => uploads[m] >= 1

\* The datapoints of a message are uploaded again only if the daemon was stopped
\* between the upload and the mark: handle_trickle returns 0 even when the
\* upload may have failed.
UploadedOnce == \A m \in Msg : uploads[m] <= 1 + crashes

\* A group never forgets a sensor of its kind nor the id of one, even while
\* requests fail; only a lost request whose response code reads as 200 wipes it.
KnownSensorsKept ==
  [][\A g \in Group : DOMAIN stored'[g] # {} =>
       \A n \in Managed(g) :
         /\ n \in DOMAIN stored'[g]
         /\ stored[g][n].id # Unknown => stored'[g][n].id = stored[g][n].id]_vars

\* The comment at trickle_handler.cpp:565 says of the messages deleted that they
\* "were successfully handled".
DeletedWasUploaded ==
  \A m \in Msg : status[m] = "deleted" /\ DOMAIN content[m] # {}
                   => uploads[m] >= 1
============================================================================
