-------------------------- MODULE PollTimingProofs --------------------------
(***************************************************************************)
(* The bounds of PollTiming, for every configuration that validate accepts *)
(* and every length of the steps.  The inductive invariant says of each    *)
(* stage how long ago the last poll ended, and of the interval that its    *)
(* next tick is at most one period after the last poll began.              *)
(***************************************************************************)
EXTENDS PollTiming, TLAPS

TypeOK ==
    /\ now \in Nat /\ began \in Nat /\ due \in Nat /\ beatDue \in Nat
    /\ made \in Nat /\ received \in Nat /\ shown \in Nat /\ lastBad \in Nat
    /\ stage \in Stages
    /\ cached \in BOOLEAN

\* When the last poll ended, well or not; and the longest wait for the next.
Ended == IF Well THEN received ELSE lastBad
Pause == IF Well THEN Longer(Poll, BeatMax) ELSE Longer(Poll, SerialMax + NftMax)

\* No clock runs ahead of the time, and a step ends in its time.
Clocks ==
    /\ began <= now /\ received <= now /\ lastBad <= now
    /\ ~cached => received = 0
    /\ stage # "tick" => now <= began + Limit(stage)

\* The next tick.
TickDue ==
    IF stage \in {"fetch", "probe", "nft"} THEN due <= began + Poll
                                           ELSE due <= Ended + Poll

\* How long the stage began after the last poll ended.
StageStarted ==
    /\ stage = "tick" => now <= Ended + Pause
    /\ stage = "fetch" => began <= Ended + Pause
    /\ stage = "probe" => began <= Ended + Pause + FetchMax
    /\ stage = "nft" => began <= Ended + Pause + FetchMax + ProbeMax
    /\ stage = "beat" => Well /\ began = received
    /\ stage = "stale_probe" => ~Well /\ began = lastBad
    /\ stage = "stale_nft" => ~Well /\ began <= lastBad + SerialMax

\* How old the information is when it is cached.
Information ==
    /\ stage = "probe" => began <= made + FetchMax
    /\ stage = "nft" => began <= made + FetchMax + ProbeMax
    /\ cached => received <= shown + Round

Inv == TypeOK /\ Clocks /\ TickDue /\ StageStarted /\ Information

USE ConfigAssumption, TimesAssumption, HorizonAssumption

LEMMA InitInv == Init => Inv
<1> SUFFICES ASSUME Init PROVE Inv
  OBVIOUS
<1>1. TypeOK
  BY DEF Init, TypeOK, Stages
<1>2. Clocks
  BY DEF Init, Clocks
<1>3. ~Well /\ Ended = 0 /\ Pause \in Nat
  BY DEF Init, Well, Ended, Pause, Longer
<1>4. TickDue /\ StageStarted /\ Information
  BY <1>3 DEF Init, TickDue, StageStarted, Information
<1> QED
  BY <1>1, <1>2, <1>4 DEF Inv

\* Time may pass only within the wait of the stage.
LEMMA TimeKeepsInv == Inv /\ TimePasses => Inv'
  BY DEF TimePasses, Inv, TypeOK, Clocks, TickDue, StageStarted, Information,
         Stages, Ended, Pause, Well, Longer, Limit, Round

LEMMA PollKeepsInv == Inv /\ BeginPoll => Inv'
  BY DEF BeginPoll, Enter, Inv, TypeOK, Clocks, TickDue, StageStarted,
         Information, Stages, Ended, Pause, Well, Longer, Limit, Round

LEMMA AnswerKeepsInv == Inv /\ FetchAnswered => Inv'
  BY DEF FetchAnswered, Enter, Inv, TypeOK, Clocks, TickDue, StageStarted,
         Information, Stages, Ended, Pause, Well, Longer, Limit, Round

LEMMA ProbesKeepInv == Inv /\ ProbesEnd => Inv'
  BY DEF ProbesEnd, Enter, Inv, TypeOK, Clocks, TickDue, StageStarted,
         Information, Stages, Ended, Pause, Well, Longer, Limit, Round

LEMMA ReconcileFailsKeepsInv == Inv /\ ReconcileFails => Inv'
  BY DEF ReconcileFails, Enter, Inv, TypeOK, Clocks, TickDue, StageStarted,
         Information, Stages, Ended, Pause, Well, Longer, Limit, Round

LEMMA PublishKeepsInv == Inv /\ Publish => Inv'
  BY DEF Publish, Enter, Inv, TypeOK, Clocks, TickDue, StageStarted,
         Information, Stages, Ended, Pause, Well, Longer, Limit, Round

LEMMA BeatKeepsInv == Inv /\ (BeatAnswered \/ BeatFails) => Inv'
  BY DEF BeatAnswered, BeatFails, Enter, Inv, TypeOK, Clocks, TickDue,
         StageStarted, Information, Stages, Ended, Pause, Well, Longer, Limit,
         Round

\* A stale snapshot is older than the failure that found it stale.
LEMMA FailureKeepsInv == Inv /\ FetchFails => Inv'
  BY DEF FetchFails, Stale, Enter, Inv, TypeOK, Clocks, TickDue,
         StageStarted, Information, Stages, Ended, Pause, Well, Longer, Limit,
         Round

LEMMA StaleKeepsInv == Inv /\ (StaleProbesEnd \/ StaleWritten) => Inv'
  BY DEF StaleProbesEnd, StaleWritten, Enter, Inv, TypeOK, Clocks, TickDue,
         StageStarted, Information, Stages, Ended, Pause, Well, Longer, Limit,
         Round

LEMMA Invariance == Spec => []Inv
<1>1. Inv /\ [Next]_vars => Inv'
  <2> SUFFICES ASSUME Inv, [Next]_vars PROVE Inv'
    OBVIOUS
  <2>1. CASE Next
    BY <2>1, TimeKeepsInv, PollKeepsInv, AnswerKeepsInv, ProbesKeepInv,
       ReconcileFailsKeepsInv, PublishKeepsInv, BeatKeepsInv, FailureKeepsInv,
       StaleKeepsInv DEF Next
  <2>2. CASE UNCHANGED vars
    BY <2>2, ZenonT(60)
    DEF vars, Inv, TypeOK, Clocks, TickDue, StageStarted, Information,
                Ended, Pause, Well, Limit, Longer, Round
  <2> QED
    BY <2>1, <2>2
<1> QED
  BY InitInv, <1>1, PTL DEF Spec

\* What is shown as fresh is at most stale_after_seconds and one round old.
THEOREM BoundedInformation == Spec => []InformationBounded
<1>1. Inv => InformationBounded
  BY DEF Inv, TypeOK, Clocks, Information, InformationBounded, Stale, Round
<1> QED
  BY <1>1, Invariance, PTL

\* The end of a poll is never further away than the stage still takes.
LEMMA NowBounded == Inv => now <= Ended + Pause + Round
  BY DEF Inv, TypeOK, Clocks, StageStarted, Stages, Ended, Pause, Well, Longer,
         Limit, Round

\* While polls succeed, the cache is replaced within the bound.
THEOREM FreshnessKept == Spec => []FreshWhileWell
<1>1. Inv => FreshWhileWell
  BY NowBounded DEF FreshWhileWell, Ended, Pause
<1> QED
  BY <1>1, Invariance, PTL

\* After a failure the next poll ends within the bound.
THEOREM OutageEnd == Spec => []OutageEndsInTime
<1>1. Inv => OutageEndsInTime
  BY NowBounded DEF OutageEndsInTime, Ended, Pause
<1> QED
  BY <1>1, Invariance, PTL

\* A configuration whose stale_after_seconds exceeds the bound never shows a
\* panel that answers as lost: what validate would have to demand.
THEOREM LongEnoughNeverStale ==
    ASSUME StaleAfter > Longer(Poll, BeatMax) + Round
    PROVE  Spec => [](Well => ~Stale)
<1>1. Inv => (Well => ~Stale)
  <2> SUFFICES ASSUME Inv, Well PROVE ~Stale
    OBVIOUS
  <2>1. now <= received + Longer(Poll, BeatMax) + Round
    BY NowBounded DEF Ended, Pause
  <2> QED
    BY <2>1 DEF Inv, TypeOK, Stale, Longer, Round
<1> QED
  BY <1>1, Invariance, PTL
=============================================================================
