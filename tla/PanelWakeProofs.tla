-------------------------- MODULE PanelWakeProofs --------------------------
(***************************************************************************)
(* Proofs about the wake endpoint, for any number of requests, any window  *)
(* of the lock and any time that a power request is under way.             *)
(***************************************************************************)
EXTENDS PanelWake, TLAPS

-----------------------------------------------------------------------------
(* Types. *)

\* What a request is made of.
Request == [pc: Stages, excluded: BOOLEAN, unmanaged: BOOLEAN,
            unavailable: BOOLEAN, wait: 0..MaxPost, changed: SUBSET (Facts \cup {"power"})]

LEMMA IdleType == Idle \in Request
  BY WindowAssumption DEF Idle, Request, Stages

LEMMA InitialTypes == Init => TypeOK
<1> SUFFICES ASSUME Init PROVE TypeOK
  OBVIOUS
<1>1. holds \in SUBSET Facts
  BY DEF Init
<1>2. req \in [Requests -> Request]
  BY IdleType DEF Init
<1>3. lockAge \in Ages /\ sinceStart \in Ages /\ troubles \in 0..MaxTroubles
  BY TroublesAssumption DEF Init, Ages
<1> QED
  BY <1>1, <1>2, <1>3 DEF Init, TypeOK, Request

LEMMA RequestUpdates ==
    ASSUME NEW q \in Request
    PROVE  /\ \A st \in Stages : [q EXCEPT !.pc = st] \in Request
           /\ \A b \in BOOLEAN : [q EXCEPT !.excluded = b] \in Request
           /\ \A b \in BOOLEAN : [q EXCEPT !.unavailable = b] \in Request
           /\ \A w \in 0..MaxPost : [q EXCEPT !.wait = w] \in Request
  BY DEF Request

LEMMA LeavesPost ==
    ASSUME NEW reqs \in [Requests -> Request], NEW r \in Requests,
           NEW st \in Stages
    PROVE  [reqs EXCEPT ![r].pc = st, ![r].wait = 0] \in [Requests -> Request]
<1> DEFINE moved == [reqs EXCEPT ![r].pc = st]
<1>1. moved \in [Requests -> Request]
  BY RequestUpdates
<1>2. 0 \in 0..MaxPost
  BY WindowAssumption
<1> HIDE DEF moved
<1>3. [moved EXCEPT ![r].wait = 0] \in [Requests -> Request]
  BY <1>1, <1>2, RequestUpdates
<1> QED
  BY <1>3 DEF moved

LEMMA OvertakenType ==
    ASSUME TypeOK, NEW what \in Facts \cup {"power"}
    PROVE  Overtaken(what) \in [Requests -> Request]
  BY DEF TypeOK, Overtaken, Request

LEMMA AtType ==
    ASSUME TypeOK, NEW r \in Requests, NEW pc \in Stages
    PROVE  At(r, pc) \in Request
  BY DEF TypeOK, At, Request

\* A step of one request that leaves everything else of a type alone.
LEMMA OneMoves ==
    ASSUME TypeOK, NEW r \in Requests, NEW next \in Request,
           req' = [req EXCEPT ![r] = next],
           UNCHANGED <<holds, power, sinceStart>>,
           lockAge' \in Ages, troubles' \in 0..MaxTroubles,
           rolledBack' \in BOOLEAN
    PROVE  TypeOK'
  BY DEF TypeOK, Request

LEMMA ReadTypes ==
    ASSUME TypeOK, NEW r \in Requests, NEW pc, NEW passes, NEW next \in Request,
           Reads(r, pc, passes, next)
    PROVE  TypeOK'
<1>1. (IF passes THEN next ELSE Idle) \in Request
  BY IdleType
<1> QED
  BY <1>1, OneMoves DEF Reads, TypeOK

LEMMA HandlerTypes ==
    ASSUME TypeOK, NEW r \in Requests, Handler(r)
    PROVE  TypeOK'
<1>1. CASE Authenticate(r)
  BY <1>1, AtType, ReadTypes DEF Authenticate, Stages
<1>2. CASE CloneSettings(r)
  <2>1. [At(r, "row") EXCEPT !.excluded = "included" \notin holds,
                             !.unmanaged = "allocation" \notin holds]
            \in Request
    <3>1. /\ At(r, "row") \in Request
          /\ ("included" \notin holds) \in BOOLEAN
          /\ ("allocation" \notin holds) \in BOOLEAN
      BY AtType DEF Stages
    <3> QED
      BY <3>1 DEF Request
  <2> QED
    BY <1>2, <2>1, ReadTypes DEF CloneSettings
<1>3. CASE ReadRow(r)
  <2>1. PICK managed \in {~req[r].unmanaged, "allocation" \in holds} :
            Reads(r, "row", "placed" \in holds /\ managed /\ ~req[r].excluded,
                  At(r, "server"))
    BY <1>3 DEF ReadRow
  <2>2. At(r, "server") \in Request
    BY AtType DEF Stages
  <2> QED
    BY <2>1, <2>2, ReadTypes
<1>4. CASE ReadServer(r)
  <2>1. [At(r, "node") EXCEPT !.unavailable = "available" \notin holds]
            \in Request
    <3>1. At(r, "node") \in Request /\ ("available" \notin holds) \in BOOLEAN
      BY AtType DEF Stages
    <3> QED
      BY <3>1, RequestUpdates
  <2> QED
    BY <1>4, <2>1, ReadTypes DEF ReadServer
<1>5. CASE ReadNode(r)
  BY <1>5, AtType, ReadTypes DEF ReadNode, Stages
<1>6. CASE AskWings(r)
  BY <1>6, AtType, ReadTypes DEF AskWings, Stages
<1>7. CASE TakeLock(r)
  <2>1. At(r, "post") \in Request /\ Idle \in Request
    BY AtType, IdleType DEF Stages
  <2>2. 0 \in Ages /\ lockAge \in Ages
    BY WindowAssumption DEF Ages, TypeOK
  <2>3. /\ UNCHANGED <<holds, power, sinceStart, troubles, rolledBack>>
        /\ lockAge' \in Ages
        /\ \E next \in Request : req' = [req EXCEPT ![r] = next]
    BY <1>7, <2>1, <2>2 DEF TakeLock
  <2> QED
    BY <2>3, OneMoves DEF TypeOK
<1>8. CASE Deliver(r)
  <2>1. req \in [Requests -> Request]
        /\ Overtaken("power") \in [Requests -> Request]
    BY OvertakenType DEF TypeOK, Request
  <2>2. "posted" \in Stages
    BY DEF Stages
  <2>3. req' \in [Requests -> Request]
    BY <1>8, <2>1, <2>2, LeavesPost DEF Deliver
  <2>4. 0 \in Ages
    BY WindowAssumption DEF Ages
  <2> QED
    BY <1>8, <2>3, <2>4 DEF Deliver, TypeOK, Request
<1>9. CASE Started(r)
  BY <1>9, IdleType, OneMoves DEF Started, TypeOK
<1>10. CASE Rollback(r)
  BY <1>10, IdleType, OneMoves DEF Rollback, TypeOK, Ages
<1> QED
  BY <1>1, <1>2, <1>3, <1>4, <1>5, <1>6, <1>7, <1>8, <1>9, <1>10 DEF Handler

LEMMA TypeStep == TypeOK /\ [Next]_vars => TypeOK'
<1> SUFFICES ASSUME TypeOK, [Next]_vars PROVE TypeOK'
  OBVIOUS
<1>1. ASSUME NEW f \in Facts, ChangeFact(f)
      PROVE  TypeOK'
  BY <1>1, OvertakenType, TroublesAssumption
     DEF ChangeFact, Trouble, TypeOK, Request
<1>2. CASE PowerChanges
  BY <1>2, OvertakenType, TroublesAssumption DEF PowerChanges, TypeOK, Request
<1>3. CASE Tick
  <2>1. \A a \in Ages : Older(a) \in Ages
    BY WindowAssumption DEF Older, Ages
  <2>2. req' \in [Requests -> Request]
    <3>1. \A r \in Requests :
            req[r].pc = "post" => req[r].wait + 1 \in 0..MaxPost
      BY <1>3, WindowAssumption DEF Tick, TypeOK
    <3> QED
      BY <1>3, <3>1 DEF Tick, TypeOK, Request
  <2> QED
    BY <1>3, <2>1, <2>2 DEF Tick, TypeOK, Request
<1>4. ASSUME NEW r \in Requests, Arrive(r)
      PROVE  TypeOK'
  <2>1. [Idle EXCEPT !.pc = "auth"] \in Request
    BY IdleType DEF Request, Stages
  <2> QED
    BY <1>4, <2>1, OneMoves DEF Arrive, TypeOK
<1>5. ASSUME NEW r \in Requests, PostErrs(r)
      PROVE  TypeOK'
  <2>1. req' \in [Requests -> Request]
    BY <1>5, LeavesPost DEF PostErrs, TypeOK, Request, Stages
  <2> QED
    BY <1>5, <2>1, TroublesAssumption DEF PostErrs, Trouble, TypeOK, Request
<1>6. ASSUME NEW r \in Requests, Abandon(r)
      PROVE  TypeOK'
  <2>1. /\ req' = [req EXCEPT ![r] = Idle]
        /\ UNCHANGED <<holds, power, lockAge, sinceStart, rolledBack>>
        /\ troubles' \in 0..MaxTroubles
    BY <1>6, TroublesAssumption DEF Abandon, Trouble, TypeOK
  <2>2. lockAge' \in Ages /\ rolledBack' \in BOOLEAN
    BY <2>1 DEF TypeOK
  <2> QED
    BY <2>1, <2>2, IdleType, OneMoves
<1>7. CASE UNCHANGED vars
  BY <1>7 DEF vars, TypeOK
<1> QED
  BY <1>1, <1>2, <1>3, <1>4, <1>5, <1>6, <1>7, HandlerTypes DEF Next

\* Every variable of the wake endpoint keeps its type, last_wake_at among them,
\* which is never set to anything but now and NULL.
THEOREM TypeCorrect == Spec => []TypeOK
  BY InitialTypes, TypeStep, PTL DEF Spec

-----------------------------------------------------------------------------
(* What a request has found. *)

\* The stages behind each check.
Authentic == Stages \ {"idle", "auth"}
Configured == Authentic \ {"settings"}
Managed == Configured \ {"row"}
Placed == Managed \ {"server"}
Maintained == Placed \ {"node"}
Idling == Maintained \ {"wings"}
Locked == Idling \ {"lock"}

\* What held when the request came in, or has changed since.
Seen(r) == holds \cup req[r].changed

\* Each check that lies behind a request has found its condition, in the world
\* or in what the request took along from it.
Checked(r) ==
    /\ req[r].pc \in Authentic => "agent" \in Seen(r)
    /\ req[r].pc \in Configured =>
          /\ "enabled" \in Seen(r)
          /\ "included" \in Seen(r) \/ req[r].excluded
          /\ "allocation" \in Seen(r) \/ req[r].unmanaged
    /\ req[r].pc \in Managed =>
          {"placed", "allocation", "included"} \subseteq Seen(r)
    /\ req[r].pc \in Placed => "available" \in Seen(r) \/ req[r].unavailable
    /\ req[r].pc \in Maintained => {"in_service", "available"} \subseteq Seen(r)
    /\ req[r].pc \in Idling => power = "offline" \/ "power" \in req[r].changed
    /\ req[r].pc \in Locked => "autostart" \in Seen(r)

AllChecked == \A r \in Requests : Checked(r)

\* What lies behind a request stays, whatever is changed around it.
LEMMA CheckedStays ==
    ASSUME NEW r \in Requests, Checked(r),
           req'[r].pc = req[r].pc,
           req'[r].excluded = req[r].excluded,
           req'[r].unmanaged = req[r].unmanaged,
           req'[r].unavailable = req[r].unavailable,
           Seen(r) \subseteq Seen(r)', req[r].changed \subseteq req'[r].changed,
           power' = power \/ "power" \in req'[r].changed
    PROVE  Checked(r)'
  BY DEF Checked

LEMMA IdleIsChecked ==
    ASSUME NEW r \in Requests, req'[r].pc \in {"idle", "auth"}
    PROVE  Checked(r)'
  BY DEF Checked, Authentic, Configured, Managed, Placed, Maintained, Idling,
         Locked

\* A step of one request does not touch the others.
LEMMA OthersChecked ==
    ASSUME TypeOK, AllChecked, NEW r \in Requests, NEW next,
           req' = [req EXCEPT ![r] = next], UNCHANGED <<holds, power>>,
           Checked(r)'
    PROVE  AllChecked'
<1> SUFFICES ASSUME NEW q \in Requests, q # r PROVE Checked(q)'
  BY DEF AllChecked
<1>1. req'[q] = req[q]
  BY DEF TypeOK
<1> QED
  BY <1>1, CheckedStays DEF AllChecked, Seen

LEMMA ReadChecked ==
    ASSUME TypeOK, AllChecked, NEW r \in Requests, NEW pc, NEW passes, NEW next,
           Reads(r, pc, passes, next),
           passes /\ req'[r] = next => Checked(r)'
    PROVE  AllChecked'
<1>1. CASE passes
  <2>1. req' = [req EXCEPT ![r] = next] /\ req'[r] = next
    BY <1>1 DEF Reads, TypeOK
  <2> QED
    BY <1>1, <2>1, OthersChecked DEF Reads
<1>2. CASE ~passes
  <2>1. req' = [req EXCEPT ![r] = Idle] /\ req'[r].pc = "idle"
    BY <1>2 DEF Reads, TypeOK, Idle
  <2> QED
    BY <2>1, IdleIsChecked, OthersChecked DEF Reads
<1> QED
  BY <1>1, <1>2

LEMMA HandlerChecked ==
    ASSUME TypeOK, AllChecked, NEW r \in Requests, Handler(r)
    PROVE  AllChecked'
<1> USE DEF Authentic, Configured, Managed, Placed, Maintained, Idling, Locked,
            Stages
<1>1. Checked(r) /\ req[r] \in Request /\ req \in [Requests -> Request]
  BY DEF AllChecked, TypeOK, Request
<1>2. CASE Authenticate(r)
  BY <1>1, <1>2, ReadChecked, ZenonT(60)
  DEF Authenticate, Reads, Checked, Seen, At, Request
<1>3. CASE CloneSettings(r)
  BY <1>1, <1>3, ReadChecked, ZenonT(60)
  DEF CloneSettings, Reads, Checked, Seen, At, Request
<1>4. CASE ReadRow(r)
  <2>1. PICK managed \in {~req[r].unmanaged, "allocation" \in holds} :
            Reads(r, "row", "placed" \in holds /\ managed /\ ~req[r].excluded,
                  At(r, "server"))
    BY <1>4 DEF ReadRow
  <2>2. ASSUME req[r].pc = "row", "placed" \in holds, managed,
               ~req[r].excluded, UNCHANGED <<holds, power>>,
               req'[r] = At(r, "server")
        PROVE  Checked(r)'
    <3>1. "allocation" \in Seen(r)
      BY <1>1, <2>2 DEF Checked, Seen
    <3> QED
      BY <1>1, <2>2, <3>1 DEF Checked, Seen, At, Request
  <2> QED
    BY <2>1, <2>2, ReadChecked DEF Reads
<1>5. CASE ReadServer(r)
  BY <1>1, <1>5, ReadChecked, ZenonT(60)
  DEF ReadServer, Reads, Checked, Seen, At, Request
<1>6. CASE ReadNode(r)
  BY <1>1, <1>6, ReadChecked, ZenonT(60)
  DEF ReadNode, Reads, Checked, Seen, At, Request
<1>7. CASE AskWings(r)
  BY <1>1, <1>7, ReadChecked, ZenonT(60)
  DEF AskWings, Reads, Checked, Seen, At, Request
<1>8. CASE TakeLock(r)
  <2>1. CASE req' = [req EXCEPT ![r] = Idle]
    BY <1>1, <1>8, <2>1, IdleIsChecked, OthersChecked DEF TakeLock, Idle
  <2>2. CASE "autostart" \in holds /\ req' = [req EXCEPT ![r] = At(r, "post")]
    <3>1. Checked(r)'
      BY <1>1, <1>8, <2>2 DEF TakeLock, Checked, Seen, At, Request
    <3> QED
      BY <1>8, <2>2, <3>1, OthersChecked DEF TakeLock
  <2> QED
    BY <1>8, <2>1, <2>2 DEF TakeLock
<1>9. CASE Deliver(r)
  <2> SUFFICES ASSUME NEW q \in Requests PROVE Checked(q)'
    BY DEF AllChecked
  <2> DEFINE overtaken == Overtaken("power")
  <2>1. overtaken \in [Requests -> Request]
    BY OvertakenType
  <2>2. /\ overtaken[q].pc = req[q].pc
        /\ overtaken[q].excluded = req[q].excluded
        /\ overtaken[q].unmanaged = req[q].unmanaged
        /\ overtaken[q].unavailable = req[q].unavailable
        /\ req[q].changed \subseteq overtaken[q].changed
        /\ req[q].pc # "idle" => "power" \in overtaken[q].changed
    BY <1>1 DEF Overtaken, Request
  <2> HIDE DEF overtaken
  <2>3. /\ req'[q].excluded = req[q].excluded
        /\ req'[q].unmanaged = req[q].unmanaged
        /\ req'[q].unavailable = req[q].unavailable
        /\ req[q].changed \subseteq req'[q].changed
        /\ holds' = holds
        /\ \/ power' = power
           \/ req[q].pc # "idle" => "power" \in req'[q].changed
    BY <1>1, <1>9, <2>1, <2>2 DEF Deliver, Request, overtaken
  <2>4. \/ req'[q].pc = req[q].pc
        \/ req[q].pc = "post" /\ req'[q].pc = "posted"
    BY <1>1, <1>9, <2>1, <2>2 DEF Deliver, Request, overtaken
  <2>5. Checked(q)
    BY DEF AllChecked
  <2> QED
    BY <2>3, <2>4, <2>5 DEF Checked, Seen
<1>10. CASE Started(r)
  BY <1>1, <1>10, IdleIsChecked, OthersChecked DEF Started, Idle
<1>11. CASE Rollback(r)
  BY <1>1, <1>11, IdleIsChecked, OthersChecked DEF Rollback, Idle
<1> QED
  BY <1>2, <1>3, <1>4, <1>5, <1>6, <1>7, <1>8, <1>9, <1>10, <1>11 DEF Handler

LEMMA CheckedStep == TypeOK /\ AllChecked /\ [Next]_vars => AllChecked'
<1> SUFFICES ASSUME TypeOK, AllChecked, [Next]_vars PROVE AllChecked'
  OBVIOUS
<1>0. req \in [Requests -> Request]
  BY DEF TypeOK, Request
<1>1. ASSUME NEW what \in Facts \cup {"power"}, req' = Overtaken(what),
             holds' \cup {what} = holds \cup {what},
             power' = power \/ what = "power"
      PROVE  AllChecked'
  <2> SUFFICES ASSUME NEW q \in Requests PROVE Checked(q)'
    BY DEF AllChecked
  <2>1. CASE req[q].pc = "idle"
    BY <1>0, <1>1, <2>1, IdleIsChecked DEF Overtaken
  <2>2. CASE req[q].pc # "idle"
    <3>1. req'[q] = [req[q] EXCEPT !.changed = @ \cup {what}]
      BY <1>1, <2>2 DEF Overtaken
    <3>2. /\ req'[q].pc = req[q].pc
          /\ req'[q].excluded = req[q].excluded
          /\ req'[q].unmanaged = req[q].unmanaged
          /\ req'[q].unavailable = req[q].unavailable
          /\ req'[q].changed = req[q].changed \cup {what}
      BY <1>0, <3>1 DEF Request
    <3>3. Checked(q) /\ Seen(q) \subseteq Seen(q)'
      BY <1>1, <3>2 DEF AllChecked, Seen
    <3> QED
      BY <1>1, <3>2, <3>3, CheckedStays
  <2> QED
    BY <2>1, <2>2
<1>2. ASSUME NEW f \in Facts, ChangeFact(f)
      PROVE  AllChecked'
  BY <1>1, <1>2 DEF ChangeFact
<1>3. CASE PowerChanges
  BY <1>1, <1>3 DEF PowerChanges
<1>4. CASE Tick
  <2> SUFFICES ASSUME NEW q \in Requests PROVE Checked(q)'
    BY DEF AllChecked
  <2>1. /\ req'[q].pc = req[q].pc
        /\ req'[q].excluded = req[q].excluded
        /\ req'[q].unmanaged = req[q].unmanaged
        /\ req'[q].unavailable = req[q].unavailable
        /\ req'[q].changed = req[q].changed
    BY <1>0, <1>4 DEF Tick, Request
  <2> QED
    BY <1>4, <2>1, CheckedStays DEF Tick, AllChecked, Seen
<1>5. ASSUME NEW r \in Requests, Arrive(r)
      PROVE  AllChecked'
  BY <1>0, <1>5, IdleIsChecked, OthersChecked DEF Arrive, Idle
<1>6. ASSUME NEW r \in Requests, PostErrs(r)
      PROVE  AllChecked'
  <2> SUFFICES ASSUME NEW q \in Requests PROVE Checked(q)'
    BY DEF AllChecked
  <2>1. /\ req'[q].excluded = req[q].excluded
        /\ req'[q].unmanaged = req[q].unmanaged
        /\ req'[q].unavailable = req[q].unavailable
        /\ req'[q].changed = req[q].changed
        /\ \/ req'[q].pc = req[q].pc
           \/ req[q].pc \in {"post", "posted"} /\ req'[q].pc = "rollback"
    BY <1>0, <1>6 DEF PostErrs, Request
  <2>2. Checked(q)
    BY DEF AllChecked
  <2> QED
    BY <1>6, <2>1, <2>2
       DEF PostErrs, Checked, Seen, Authentic, Configured, Managed, Placed,
           Maintained, Idling, Locked, Stages
<1>7. ASSUME NEW r \in Requests, Abandon(r)
      PROVE  AllChecked'
  BY <1>0, <1>7, IdleIsChecked, OthersChecked DEF Abandon, Idle
<1>8. CASE UNCHANGED vars
  BY <1>8 DEF vars, AllChecked, Checked, Seen
<1> QED
  BY <1>2, <1>3, <1>4, <1>5, <1>6, <1>7, <1>8, HandlerChecked DEF Next

LEMMA InitiallyChecked == Init => AllChecked
  BY DEF Init, AllChecked, Checked, Idle, Authentic, Configured, Managed,
         Placed, Maintained, Idling, Locked

LEMMA CheckedIsRevalidated == AllChecked => StartRevalidated
<1> SUFFICES ASSUME AllChecked, NEW r \in Requests, req[r].pc = "post"
             PROVE  /\ Facts \subseteq Seen(r)
                    /\ power = "offline" \/ "power" \in req[r].changed
  BY DEF StartRevalidated, Seen
<1>1. Checked(r)
  BY DEF AllChecked
<1> QED
  BY <1>1 DEF Checked, Facts, Stages, Authentic, Configured, Managed, Placed,
              Maintained, Idling, Locked

\* A start command is only under way for a request that found every condition
\* satisfied: each holds now or has changed since it came in, for any number of
\* requests and whatever is changed, fails or is cancelled between its reads.
THEOREM Revalidated == Spec => []StartRevalidated
  BY InitialTypes, TypeStep, InitiallyChecked, CheckedStep,
     CheckedIsRevalidated, PTL DEF Spec

-----------------------------------------------------------------------------
(* The lock. *)

Posting(r) == req[r].pc = "post"

\* As long as nobody took a lock back: the lock is no older than any power
\* request under way; the last start is not much younger than the lock; and
\* when a power request is under way, the last start was long ago.
LockInv ==
    ~rolledBack =>
        /\ \A r \in Requests : Posting(r) =>
              lockAge # Null /\ lockAge <= req[r].wait
        /\ sinceStart # Null =>
              lockAge # Null /\ lockAge <= sinceStart + MaxPost
        /\ \A r \in Requests : Posting(r) /\ sinceStart # Null =>
              sinceStart + MaxPost >= Window
        /\ \A r, q \in Requests : Posting(r) /\ Posting(q) /\ r # q =>
              MaxPost >= Window

LEMMA AgeTypes ==
    ASSUME TypeOK
    PROVE  /\ lockAge # Null => lockAge \in 0..Window
           /\ sinceStart # Null => sinceStart \in 0..Window
           /\ \A r \in Requests : req[r].wait \in 0..MaxPost
           /\ Window \in Nat \ {0} /\ MaxPost \in Nat /\ Null \notin Nat
  BY WindowAssumption, NullAssumption DEF TypeOK, Ages

\* A step that starts no power request and moves neither clock.
LEMMA LockStays ==
    ASSUME LockInv,
           \A r \in Requests : Posting(r)' =>
               Posting(r) /\ req'[r].wait = req[r].wait,
           UNCHANGED <<lockAge, sinceStart, rolledBack>>
    PROVE  LockInv'
  BY DEF LockInv

LEMMA LockStep == TypeOK /\ LockInv /\ [Next]_vars => LockInv'
<1> SUFFICES ASSUME TypeOK, LockInv, [Next]_vars PROVE LockInv'
  OBVIOUS
<1>0. req \in [Requests -> Request]
  BY DEF TypeOK, Request
<1>1. ASSUME NEW what, req' = Overtaken(what),
             UNCHANGED <<lockAge, sinceStart, rolledBack>>
      PROVE  LockInv'
  <2>1. \A r \in Requests :
            req'[r].pc = req[r].pc /\ req'[r].wait = req[r].wait
    BY <1>0, <1>1 DEF Overtaken, Request
  <2> QED
    BY <1>1, <2>1, LockStays DEF Posting
<1>2. CASE (\E f \in Facts : ChangeFact(f)) \/ PowerChanges
  BY <1>1, <1>2 DEF ChangeFact, PowerChanges
<1>3. CASE Tick
  <2> SUFFICES ASSUME ~rolledBack PROVE LockInv'
    BY <1>3 DEF Tick, LockInv
  <2>1. \A r \in Requests :
            /\ Posting(r)' <=> Posting(r)
            /\ Posting(r) => req'[r].wait = req[r].wait + 1
    BY <1>0, <1>3 DEF Tick, Posting, Request
  <2>2. /\ lockAge' = Null <=> lockAge = Null
        /\ sinceStart' = Null <=> sinceStart = Null
        /\ lockAge # Null =>
              lockAge' = IF lockAge = Window THEN Window ELSE lockAge + 1
        /\ sinceStart # Null => sinceStart' =
              IF sinceStart = Window THEN Window ELSE sinceStart + 1
    BY <1>3, AgeTypes DEF Tick, Older
  <2>3. ASSUME NEW r \in Requests, Posting(r)
        PROVE  /\ lockAge' # Null /\ lockAge' <= req'[r].wait
               /\ sinceStart # Null => sinceStart' + MaxPost >= Window
    BY <2>1, <2>2, <2>3, AgeTypes DEF LockInv
  <2>4. sinceStart # Null => lockAge' # Null /\ lockAge' <= sinceStart' + MaxPost
    BY <2>2, AgeTypes DEF LockInv
  <2> QED
    BY <2>1, <2>2, <2>3, <2>4 DEF LockInv
<1>4. ASSUME NEW r \in Requests, NEW next,
             req' = [req EXCEPT ![r] = next], next.pc # "post",
             UNCHANGED <<lockAge, sinceStart, rolledBack>>
      PROVE  LockInv'
  <2>1. \A q \in Requests : Posting(q)' =>
            Posting(q) /\ req'[q].wait = req[q].wait
    BY <1>0, <1>4 DEF Posting
  <2> QED
    BY <1>4, <2>1, LockStays
<1>5. ASSUME NEW r \in Requests, Arrive(r) \/ Abandon(r) \/ Started(r)
      PROVE  LockInv'
  BY <1>4, <1>5 DEF Arrive, Abandon, Started, Idle
<1>6. ASSUME NEW r \in Requests, NEW pc, NEW passes, NEW next,
             Reads(r, pc, passes, next), next.pc # "post"
      PROVE  LockInv'
  <2>1. CASE passes
    BY <1>4, <1>6, <2>1 DEF Reads
  <2>2. CASE ~passes
    <3>1. /\ req' = [req EXCEPT ![r] = Idle]
          /\ UNCHANGED <<lockAge, sinceStart, rolledBack>>
      BY <1>6, <2>2 DEF Reads
    <3>2. Idle.pc # "post"
      BY DEF Idle
    <3> QED
      BY <1>4, <3>1, <3>2
  <2> QED
    BY <2>1, <2>2
<1>7. ASSUME NEW r \in Requests,
             \/ Authenticate(r) \/ CloneSettings(r) \/ ReadRow(r)
             \/ ReadServer(r) \/ ReadNode(r) \/ AskWings(r)
      PROVE  LockInv'
  <2>1. \A pc : At(r, pc).pc = pc
    BY <1>0 DEF At, Request
  <2>2. /\ [At(r, "row") EXCEPT !.excluded = "included" \notin holds,
                                 !.unmanaged = "allocation" \notin holds].pc
              = "row"
        /\ [At(r, "node") EXCEPT
               !.unavailable = "available" \notin holds].pc = "node"
    BY <1>0 DEF At, Request
  <2>3. CASE Authenticate(r)
    BY <1>6, <2>1, <2>3 DEF Authenticate
  <2>4. CASE CloneSettings(r)
    BY <1>6, <2>2, <2>4 DEF CloneSettings
  <2>5. CASE ReadRow(r)
    <3>1. PICK managed \in {~req[r].unmanaged, "allocation" \in holds} :
              Reads(r, "row",
                    "placed" \in holds /\ managed /\ ~req[r].excluded,
                    At(r, "server"))
      BY <2>5 DEF ReadRow
    <3>2. At(r, "server").pc # "post"
      BY <2>1
    <3> QED
      BY <1>6, <3>1, <3>2
  <2>6. CASE ReadServer(r)
    BY <1>6, <2>2, <2>6 DEF ReadServer
  <2>7. CASE ReadNode(r)
    BY <1>6, <2>1, <2>7 DEF ReadNode
  <2>8. CASE AskWings(r)
    BY <1>6, <2>1, <2>8 DEF AskWings
  <2> QED
    BY <1>7, <2>3, <2>4, <2>5, <2>6, <2>7, <2>8
<1>8. ASSUME NEW r \in Requests, TakeLock(r)
      PROVE  LockInv'
  <2>1. CASE req' = [req EXCEPT ![r] = Idle] /\ UNCHANGED lockAge
    BY <1>4, <1>8, <2>1 DEF TakeLock, Idle
  <2>2. CASE /\ lockAge \in {Null, Window} /\ lockAge' = 0
             /\ req' = [req EXCEPT ![r] = At(r, "post")]
    <3> SUFFICES ASSUME ~rolledBack PROVE LockInv'
      BY <1>8 DEF TakeLock, LockInv
    <3>1. /\ UNCHANGED <<sinceStart, rolledBack>>
          /\ lockAge' # Null
      BY <1>8, <2>2, AgeTypes DEF TakeLock
    <3>2. /\ \A q \in Requests : Posting(q)' /\ q # r =>
                Posting(q) /\ req'[q].wait = req[q].wait
          /\ req'[r].wait = req[r].wait
      BY <1>0, <2>2 DEF Posting, At, Request
    <3>3. \A q \in Requests : lockAge' <= req'[q].wait \/ ~Posting(q)'
      BY <2>2, <3>2, AgeTypes
    <3>4. sinceStart # Null => sinceStart + MaxPost >= Window
      BY <2>2, AgeTypes DEF LockInv
    <3>5. sinceStart # Null => lockAge' <= sinceStart + MaxPost
      BY <2>2, AgeTypes
    <3>6. \A q \in Requests : Posting(q)' /\ q # r => MaxPost >= Window
      BY <2>2, <3>2, AgeTypes DEF LockInv
    <3> QED
      BY <3>1, <3>2, <3>3, <3>4, <3>5, <3>6 DEF LockInv
  <2> QED
    BY <1>8, <2>1, <2>2 DEF TakeLock
<1>9. ASSUME NEW r \in Requests, Deliver(r)
      PROVE  LockInv'
  <2> SUFFICES ASSUME ~rolledBack PROVE LockInv'
    BY <1>9 DEF Deliver, LockInv
  <2>1. \A q \in Requests : Posting(q)' =>
            Posting(q) /\ q # r /\ req'[q].wait = req[q].wait
    <3>1. \A q \in Requests : /\ Overtaken("power")[q].pc = req[q].pc
                              /\ Overtaken("power")[q].wait = req[q].wait
      BY <1>0 DEF Overtaken, Request
    <3>2. Overtaken("power") \in [Requests -> Request]
      BY OvertakenType
    <3> QED
      BY <1>0, <1>9, <3>1, <3>2 DEF Deliver, Posting, Request
  <2>2. Posting(r) /\ UNCHANGED <<lockAge, rolledBack>> /\ sinceStart' = 0
    BY <1>9 DEF Deliver, Posting
  <2>3. lockAge # Null /\ lockAge <= MaxPost
    BY <2>2, AgeTypes DEF LockInv
  <2>4. \A q \in Requests : Posting(q)' => MaxPost >= Window
    BY <2>1, <2>2 DEF LockInv
  <2> QED
    BY <2>1, <2>2, <2>3, <2>4, AgeTypes DEF LockInv
<1>10. ASSUME NEW r \in Requests, PostErrs(r)
       PROVE  LockInv'
  <2>1. \A q \in Requests : Posting(q)' =>
            Posting(q) /\ req'[q].wait = req[q].wait
    BY <1>0, <1>10 DEF PostErrs, Posting, Request
  <2> QED
    BY <1>10, <2>1, LockStays DEF PostErrs
<1>11. ASSUME NEW r \in Requests, Rollback(r)
       PROVE  LockInv'
  BY <1>11 DEF Rollback, LockInv
<1>12. CASE UNCHANGED vars
  BY <1>12, LockStays DEF vars, Posting
<1> QED
  BY <1>2, <1>3, <1>5, <1>7, <1>8, <1>9, <1>10, <1>11, <1>12 DEF Next, Handler

LEMMA LockInitially == Init => LockInv
  BY DEF Init, LockInv, Posting, Idle

LEMMA DeliveredApart ==
    LockInv /\ [Next]_vars =>
        [\A r \in Requests :
            req[r].pc = "post" /\ req'[r].pc = "posted" /\ ~rolledBack =>
                sinceStart = Null \/ sinceStart + MaxPost >= Window]_vars
  BY DEF LockInv, Posting

\* Start commands reach Wings at least a window apart, less the time one may be
\* on its way, until a request takes its lock back: for any number of requests,
\* whichever are cancelled while they hold the lock.
THEOREM Apart == Spec => StartsApart
  BY InitialTypes, TypeStep, LockInitially, LockStep, DeliveredApart, PTL
     DEF Spec, StartsApart

-----------------------------------------------------------------------------
(* What the documentation promises, as long as no power request fails. *)

\* Every power request gets its answer.
NoneFails == [][\A r \in Requests : ~PostErrs(r)]_vars

\* Nobody has a reason to take the lock back.
LockKept == ~rolledBack /\ \A r \in Requests : req[r].pc # "rollback"

LEMMA KeptStep ==
    ASSUME TypeOK, LockKept, [Next]_vars, \A r \in Requests : ~PostErrs(r)
    PROVE  LockKept'
<1>0. req \in [Requests -> Request]
  BY DEF TypeOK, Request
<1>1. ASSUME NEW what, req' = Overtaken(what), UNCHANGED rolledBack
      PROVE  LockKept'
  BY <1>0, <1>1 DEF Overtaken, Request, LockKept
<1>2. CASE (\E f \in Facts : ChangeFact(f)) \/ PowerChanges
  BY <1>1, <1>2 DEF ChangeFact, PowerChanges
<1>3. CASE Tick
  BY <1>0, <1>3 DEF Tick, Request, LockKept
<1>4. CASE UNCHANGED vars
  BY <1>4 DEF vars, LockKept
<1>5. ASSUME NEW r \in Requests, NEW next, next.pc # "rollback",
             req' = [req EXCEPT ![r] = next], UNCHANGED rolledBack
      PROVE  LockKept'
  BY <1>0, <1>5 DEF LockKept
<1>6. ASSUME NEW r \in Requests, NEW pc, NEW passes, NEW next,
             next.pc # "rollback", Reads(r, pc, passes, next)
      PROVE  LockKept'
  <2>1. CASE passes
    BY <1>5, <1>6, <2>1 DEF Reads
  <2>2. CASE ~passes
    BY <1>5, <1>6, <2>2 DEF Reads, Idle
  <2> QED
    BY <2>1, <2>2
<1>7. \A r \in Requests, st \in Stages : At(r, st) = [req[r] EXCEPT !.pc = st]
                                           /\ At(r, st).pc = st
                                           /\ At(r, st) \in Request
  BY <1>0 DEF At, Request
<1>8. ASSUME NEW r \in Requests,
             Arrive(r) \/ Authenticate(r) \/ CloneSettings(r) \/ ReadRow(r)
                 \/ ReadServer(r) \/ ReadNode(r) \/ AskWings(r)
      PROVE  LockKept'
  <2>1. CASE Arrive(r)
    BY <1>5, <2>1 DEF Arrive, Idle
  <2>2. CASE Authenticate(r) \/ ReadNode(r) \/ AskWings(r)
    BY <1>6, <1>7, <2>2 DEF Authenticate, ReadNode, AskWings, Stages
  <2>3. CASE CloneSettings(r)
    <3>1. [At(r, "row") EXCEPT !.excluded = "included" \notin holds,
                               !.unmanaged = "allocation" \notin holds].pc
              = "row"
      BY <1>7 DEF Stages, Request
    <3> QED
      BY <1>6, <2>3, <3>1 DEF CloneSettings
  <2>4. CASE ReadServer(r)
    <3>1. [At(r, "node") EXCEPT !.unavailable = "available" \notin holds].pc
              = "node"
      BY <1>7 DEF Stages, Request
    <3> QED
      BY <1>6, <2>4, <3>1 DEF ReadServer
  <2>5. CASE ReadRow(r)
    <3>1. PICK managed \in {~req[r].unmanaged, "allocation" \in holds} :
              Reads(r, "row",
                    "placed" \in holds /\ managed /\ ~req[r].excluded,
                    At(r, "server"))
      BY <2>5 DEF ReadRow
    <3>2. At(r, "server").pc # "rollback"
      BY <1>7 DEF Stages
    <3> QED
      BY <1>6, <3>1, <3>2
  <2> QED
    BY <1>8, <2>1, <2>2, <2>3, <2>4, <2>5
<1>9. ASSUME NEW r \in Requests,
             TakeLock(r) \/ Started(r) \/ Rollback(r) \/ Abandon(r)
      PROVE  LockKept'
  BY <1>0, <1>9 DEF TakeLock, Started, Rollback, Abandon, At, Idle, Request,
                    LockKept
<1>10. ASSUME NEW r \in Requests, Deliver(r) PROVE LockKept'
  BY <1>0, <1>10, ZenonT(60) DEF Deliver, Overtaken, Request, LockKept
<1> QED
  BY <1>2, <1>3, <1>4, <1>8, <1>9, <1>10 DEF Next, Handler

\* README.md:16 holds as long as no power request ends in an error: starts are
\* then deduplicated by the lock, whoever cancels, changes or starts what.
THEOREM Deduplicated == Spec /\ NoneFails => WakesDeduplicated
<1>1. Init => LockKept
  BY DEF Init, Idle, LockKept
<1>2. TypeOK /\ LockKept /\ [Next]_vars
          /\ [\A r \in Requests : ~PostErrs(r)]_vars => LockKept'
  <2> SUFFICES ASSUME TypeOK, LockKept, [Next]_vars,
                      [\A r \in Requests : ~PostErrs(r)]_vars
               PROVE  LockKept'
    OBVIOUS
  <2>1. CASE UNCHANGED vars
    BY <2>1 DEF vars, LockKept
  <2>2. CASE \A r \in Requests : ~PostErrs(r)
    BY <2>2, KeptStep
  <2> QED
    BY <2>1, <2>2
<1> DEFINE Early == \A r \in Requests :
                req[r].pc = "post" /\ req'[r].pc = "posted" /\ ~rolledBack =>
                    sinceStart = Null \/ sinceStart + MaxPost >= Window
           Spaced == \A r \in Requests :
                req[r].pc = "post" /\ req'[r].pc = "posted" =>
                    sinceStart = Null \/ sinceStart + MaxPost >= Window
<1>3. LockKept /\ [Early]_vars => [Spaced]_vars
  BY DEF LockKept
<1>4. Spec /\ NoneFails => []LockKept
  BY <1>1, <1>2, TypeCorrect, PTL DEF Spec, NoneFails
<1>5. Spec => [][Early]_vars
  BY Apart DEF StartsApart
<1>6. Spec /\ NoneFails => [][Spaced]_vars
  BY <1>3, <1>4, <1>5, PTL
<1> QED
  BY <1>6 DEF WakesDeduplicated
=============================================================================
