--------------------------- MODULE IptablesProofs ---------------------------
(***************************************************************************)
(* Theorems about IptablesFirewall, for any allocations, any faults, any   *)
(* number of jumps and restarts.                                           *)
(***************************************************************************)
EXTENDS IptablesFirewall, TLAPS

ChainStates == [chain: BOOLEAN, jumps: Nat, rules: SUBSET Allocations]

\* What the proofs need of the types.
Shape ==
    /\ pc \in Operations \cup {"idle"}
    /\ fam \in Families
    /\ target \in SUBSET Allocations
    /\ current \in SUBSET Allocations
    /\ kernel \in [Families -> ChainStates]
    /\ orphans \in SUBSET Commands

\* A chain that is not there has no rules, so one just created is empty.
NoChainNoRules == \A f \in Families : ~kernel[f].chain => kernel[f].rules = {}

Fills == {"check", "insert", "restore"}
ReconcileOperations == {"create", "flush"} \cup Fills

\* What each stage of a reconcile has repaired already: the chain is empty,
\* then it is hooked, then the first family is as asked.
StageInv ==
    proc = "up" =>
        /\ orphans = {}
        /\ pc \in ReconcileOperations \cup {"idle"}
        /\ pc \in Fills => kernel[fam].rules = {}
        /\ pc = "restore" => kernel[fam].jumps > 0
        /\ pc # "idle" /\ fam = "v6" => Intercepted("v4") = target \cap Of("v4")
        /\ pc = "idle" /\ settled =>
               \A f \in Reached : Intercepted(f) = current \cap Of(f)

\* Has cleanup finished deleting the family's jumps?
Unhooked(f) ==
    \/ proc = "exited" /\ f \in Reached
    \/ proc = "cleanup" /\ fam = f /\ pc # "delete"
    \/ proc = "cleanup" /\ fam = "v6" /\ f = "v4"

\* The one command left of the aborted reconcile cannot bring both a jump and
\* rules back: where it inserts, the chain is empty and nothing fills it.
OrphanInv ==
    /\ \A c, d \in orphans : c = d
    /\ \A c \in orphans : c.op \in ReconcileOperations
    /\ \A c \in orphans : c.op = "insert" => kernel[c.fam].rules = {}

Released(f) ==
    \/ kernel[f].jumps = 0
    \/ kernel[f].rules = {} /\ \A c \in orphans : c.op # "restore" \/ c.fam # f

CleanInv ==
    proc \in {"cleanup", "exited"} =>
        /\ OrphanInv
        /\ proc = "cleanup" => pc \in {"delete", "flush", "remove"}
        /\ "delete" \notin Faults => \A f \in Families : Unhooked(f) => Released(f)

\* A process that is not there runs no command.
StoppedInv == proc \in {"exited", "crashed"} => pc = "idle"

IInv == Shape /\ NoChainNoRules /\ StageInv /\ CleanInv /\ StoppedInv

-----------------------------------------------------------------------------
(* What commands do. *)

\* What each command changes of the family's state, where it can work.
LEMMA EffectFacts ==
    ASSUME NEW k \in ChainStates, NEW c \in Commands, Works(c.op, k)
    PROVE  /\ Effect(c, k) \in ChainStates
           /\ c.op \notin {"insert", "delete"} => Effect(c, k).jumps = k.jumps
           /\ c.op \notin {"flush", "restore"} => Effect(c, k).rules = k.rules
           /\ c.op = "flush" => Effect(c, k).rules = {}
           /\ c.op = "restore" => Effect(c, k).rules = c.rules
           /\ c.op = "insert" => Effect(c, k).jumps > 0
           /\ c.op = "check" => k.jumps > 0
           /\ c.op = "create" => ~k.chain
           /\ c.op = "remove" => k.rules = {}
           /\ c.op \notin {"remove", "restore", "create"} =>
                  Effect(c, k).chain = k.chain
           /\ c.op \in {"create", "restore"} => Effect(c, k).chain
<1>0. k.chain \in BOOLEAN /\ k.jumps \in Nat /\ k.rules \in SUBSET Allocations
  BY DEF ChainStates
<1>0a. c.op \in Operations /\ c.rules \in SUBSET Allocations
  BY DEF Commands
<1>1. CASE c.op = "create"
  BY <1>0, <1>1 DEF Works, Effect, ChainStates
<1>2. CASE c.op = "flush"
  BY <1>0, <1>2 DEF Works, Effect, ChainStates
<1>3. CASE c.op = "check"
  BY <1>0, <1>3 DEF Works, Effect, ChainStates
<1>4. CASE c.op = "insert"
  BY <1>0, <1>4 DEF Works, Effect, ChainStates
<1>5. CASE c.op = "restore"
  BY <1>0, <1>0a, <1>5 DEF Works, Effect, ChainStates
<1>6. CASE c.op = "delete"
  BY <1>0, <1>6 DEF Works, Effect, ChainStates
<1>7. CASE c.op = "remove"
  BY <1>0, <1>7 DEF Works, Effect, ChainStates
<1> QED
  BY <1>0a, <1>1, <1>2, <1>3, <1>4, <1>5, <1>6, <1>7 DEF Operations

\* The command under way is a command.
LEMMA PendingType ==
    ASSUME Shape, pc # "idle"
    PROVE  /\ Pending \in Commands
           /\ Pending.op = pc /\ Pending.fam = fam
           /\ Pending.rules = target \cap Of(fam)
BY DEF Shape, Pending, Commands

\* A command that succeeds changes its own family only.
LEMMA SuccessFacts ==
    ASSUME Shape, NEW c \in Commands, Succeeds(c)
    PROVE  /\ kernel' \in [Families -> ChainStates]
           /\ kernel[c.fam] \in ChainStates
           /\ Works(c.op, kernel[c.fam])
           /\ kernel'[c.fam] = Effect(c, kernel[c.fam])
           /\ \A f \in Families : f # c.fam => kernel'[f] = kernel[f]
<1>1. c.fam \in Families /\ kernel[c.fam] \in ChainStates
  BY DEF Commands, Shape
<1>2. Effect(c, kernel[c.fam]) \in ChainStates
  BY <1>1, EffectFacts DEF Succeeds
<1> QED
  BY <1>1, <1>2 DEF Succeeds, Shape

\* No command leaves rules without a chain.
LEMMA RulesStep ==
    ASSUME Shape, NoChainNoRules, NEW c \in Commands, Succeeds(c) \/ Fails(c)
    PROVE  /\ NoChainNoRules'
           /\ kernel' \in [Families -> ChainStates]
<1>1. CASE Fails(c)
  BY <1>1 DEF Fails, NoChainNoRules, Shape
<1>2. CASE Succeeds(c)
  <2> DEFINE k == kernel[c.fam]
             e == Effect(c, k)
  <2>1. /\ k \in ChainStates /\ kernel'[c.fam] = e
        /\ Works(c.op, k)
        /\ \A f \in Families : f # c.fam => kernel'[f] = kernel[f]
        /\ kernel' \in [Families -> ChainStates]
    BY <1>2, SuccessFacts
  <2>2. ~k.chain => k.rules = {}
    BY DEF NoChainNoRules, Commands
  <2>3. ~e.chain => e.rules = {}
    <3>1. CASE c.op \in {"create", "restore"}
      BY <2>1, <3>1, EffectFacts
    <3>2. CASE c.op = "remove"
      BY <2>1, <3>2, EffectFacts
    <3>3. CASE c.op = "flush"
      BY <2>1, <3>3, EffectFacts
    <3>4. CASE c.op \in {"check", "insert", "delete"}
      BY <2>1, <2>2, <3>4, EffectFacts
    <3> QED
      BY <3>1, <3>2, <3>3, <3>4 DEF Commands, Operations
  <2> QED
    BY <2>1, <2>3 DEF NoChainNoRules
<1> QED
  BY <1>1, <1>2

-----------------------------------------------------------------------------
(* The initial state. *)

\* The invariant holds initially: nothing is in the kernel.
THEOREM InitInv == Init => IInv
<1> SUFFICES ASSUME Init PROVE IInv
  OBVIOUS
<1>1. [chain |-> FALSE, jumps |-> 0, rules |-> {}] \in ChainStates
  BY DEF ChainStates
<1>2. Shape
  BY <1>1 DEF Init, Shape, Operations, Families
<1>3. NoChainNoRules /\ CleanInv /\ StoppedInv
  BY DEF Init, NoChainNoRules, CleanInv, StoppedInv
<1>4. StageInv
  BY DEF Init, StageInv, Fills, ReconcileOperations, Intercepted, Families, Reached
<1> QED
  BY <1>2, <1>3, <1>4 DEF IInv

-----------------------------------------------------------------------------
(* Types, and rules only in chains. *)

\* A step of reconcile or of cleanup that runs the command under way.
LEMMA AwaitedStep ==
    ASSUME Shape, NoChainNoRules, pc \in Operations,
           Succeeds(Pending) \/ Fails(Pending)
    PROVE  NoChainNoRules' /\ kernel' \in [Families -> ChainStates]
<1>1. pc # "idle"
  BY DEF Operations
<1> QED
  BY <1>1, PendingType, RulesStep

\* What is left of a dropped task is a command.
LEMMA DroppedType ==
    ASSUME Shape, Dropped
    PROVE  orphans' \in SUBSET Commands
BY PendingType DEF Dropped, Shape

\* Every step keeps the types and leaves no rules without a chain.
LEMMA ShapeStep ==
    ASSUME Shape, NoChainNoRules, Next
    PROVE  Shape' /\ NoChainNoRules'
<1>1. CASE Unchanged \/ \E allocations \in SUBSET Allocations : Reconcile(allocations)
  BY <1>1 DEF Unchanged, Reconcile, Shape, NoChainNoRules, Operations, Families
<1>2. CASE CreateChain \/ FlushChain \/ InsertJump
  <2>1. /\ pc \in Operations
        /\ Succeeds(Pending) \/ Fails(Pending)
    BY <1>2 DEF CreateChain, FlushChain, InsertJump, Reconciling, Onwards,
                Instead, GivesUp, Operations
  <2> QED
    BY <1>2, <2>1, AwaitedStep
       DEF CreateChain, FlushChain, InsertJump, Reconciling, Onwards, Instead,
           GivesUp, Shape, Operations
<1>3. CASE CheckJump
  <2>1. /\ pc \in Operations
        /\ Succeeds(Pending) \/ Fails(Pending)
    BY <1>3 DEF CheckJump, Reconciling, Onwards, Instead, Operations
  <2> QED
    BY <1>3, <2>1, AwaitedStep
       DEF CheckJump, Reconciling, Onwards, Instead, Shape, Operations
<1>4. CASE Restore
  <2>1. /\ pc \in Operations
        /\ Succeeds(Pending) \/ Fails(Pending)
    BY <1>4 DEF Restore, Reconciling, GivesUp, Operations
  <2> QED
    BY <1>4, <2>1, AwaitedStep
       DEF Restore, Reconciling, GivesUp, Shape, Operations, Families
<1>5. CASE Shutdown \/ Crash
  <2>1. orphans' \in SUBSET Commands
    BY <1>5, DroppedType DEF Shutdown, Crash
  <2> QED
    BY <1>5, <2>1 DEF Shutdown, Crash, Shape, NoChainNoRules, Operations, Families
<1>6. CASE DeleteJumps \/ EmptyChain \/ RemoveChain
  <2>1. /\ pc \in Operations
        /\ Succeeds(Pending) \/ Fails(Pending)
    BY <1>6 DEF DeleteJumps, EmptyChain, RemoveChain, Cleaning, Operations
  <2> QED
    BY <1>6, <2>1, AwaitedStep
       DEF DeleteJumps, EmptyChain, RemoveChain, Cleaning, Shape, Operations, Families
<1>7. CASE RunOrphan
  <2>1. PICK c \in orphans : /\ Succeeds(c) \/ Fails(c)
                             /\ orphans' = orphans \ {c}
                             /\ UNCHANGED <<current, target, pc, fam>>
    BY <1>7 DEF RunOrphan
  <2> QED
    BY <2>1, RulesStep DEF Shape
<1>8. CASE Restart
  BY <1>8 DEF Restart, Shape, NoChainNoRules
<1> QED
  BY <1>1, <1>2, <1>3, <1>4, <1>5, <1>6, <1>7, <1>8 DEF Next

\* No command is under way in a process that is gone: both ways out say so.
LEMMA StoppedStep ==
    ASSUME StoppedInv, Next
    PROVE  StoppedInv'
<1>1. CASE Unchanged \/ \E allocations \in SUBSET Allocations : Reconcile(allocations)
  BY <1>1 DEF Unchanged, Reconcile, StoppedInv
<1>2. CASE CreateChain \/ FlushChain \/ CheckJump \/ InsertJump \/ Restore
  BY <1>2 DEF CreateChain, FlushChain, CheckJump, InsertJump, Restore, Reconciling,
              StoppedInv
<1>3. CASE Shutdown \/ Crash
  BY <1>3 DEF Shutdown, Crash, StoppedInv
<1>4. CASE DeleteJumps \/ EmptyChain \/ RemoveChain
  BY <1>4 DEF DeleteJumps, EmptyChain, RemoveChain, Cleaning, StoppedInv
<1>5. CASE RunOrphan \/ Restart
  BY <1>5 DEF RunOrphan, Restart, StoppedInv
<1> QED
  BY <1>1, <1>2, <1>3, <1>4, <1>5 DEF Next

-----------------------------------------------------------------------------
(* The stages of reconcile. *)

\* What a command of reconcile that succeeds makes of the family it is for;
\* the other one stays as it is.
LEMMA StageEffect ==
    ASSUME Shape, pc \in Operations, Succeeds(Pending)
    PROVE  /\ pc = "create" => ~kernel[fam].chain
           /\ pc = "create" => kernel'[fam].rules = kernel[fam].rules
           /\ pc = "flush" => kernel'[fam].rules = {}
           /\ pc = "check" => kernel[fam].jumps > 0
           /\ pc = "insert" => kernel'[fam].jumps > 0
           /\ pc \in {"check", "insert"} => kernel'[fam].rules = kernel[fam].rules
           /\ pc \in {"check", "restore"} => kernel'[fam].jumps = kernel[fam].jumps
           /\ pc = "restore" => kernel'[fam].rules = target \cap Of(fam)
           /\ \A f \in Families : f # fam => kernel'[f] = kernel[f]
<1>1. /\ Pending \in Commands
      /\ Pending.op = pc /\ Pending.fam = fam
      /\ Pending.rules = target \cap Of(fam)
  BY PendingType DEF Operations
<1>2. /\ kernel[fam] \in ChainStates
      /\ Works(Pending.op, kernel[fam])
      /\ kernel'[fam] = Effect(Pending, kernel[fam])
      /\ \A f \in Families : f # fam => kernel'[f] = kernel[f]
  BY <1>1, SuccessFacts
<1> QED
  BY <1>1, <1>2, EffectFacts

\* While the second family is dealt with the first stays as asked.
LEMMA FirstFamilyStays ==
    ASSUME Shape, StageInv, proc = "up", pc \in Operations, fam = "v6",
           Succeeds(Pending) \/ Fails(Pending)
    PROVE  Intercepted("v4")' = target \cap Of("v4")
<1>1. kernel'["v4"] = kernel["v4"]
  BY StageEffect DEF Fails, Families
<1>2. Intercepted("v4") = target \cap Of("v4")
  BY DEF StageInv, Operations
<1> QED
  BY <1>1, <1>2 DEF Intercepted

\* Every step of reconcile carries the repair one stage on, or gives up.
LEMMA StageStep ==
    ASSUME Shape, NoChainNoRules, StageInv, StoppedInv, Next
    PROVE  StageInv'
<1> USE DEF Fills, ReconcileOperations
<1>1. CASE Unchanged
  BY <1>1 DEF Unchanged, StageInv, Intercepted, Operations
<1>2. ASSUME NEW allocations \in SUBSET Allocations, Reconcile(allocations)
      PROVE  StageInv'
  BY <1>2 DEF Reconcile, StageInv
<1>3. CASE CreateChain
  <2>1. /\ pc = "create" /\ pc \in Operations /\ proc = "up" /\ proc' = "up"
        /\ orphans = {} /\ UNCHANGED <<target, orphans, current, fam, settled>>
        /\ Succeeds(Pending) \/ Fails(Pending)
    BY <1>3 DEF CreateChain, Reconciling, Onwards, Instead, Operations, StageInv
  <2>2. fam = "v6" => Intercepted("v4")' = target \cap Of("v4")
    BY <2>1, FirstFamilyStays
  <2>3. CASE Onwards("check")
    <3>1. kernel'[fam].rules = {}
      BY <2>1, <2>3, StageEffect DEF Onwards, NoChainNoRules, Shape
    <3> QED
      BY <2>1, <2>2, <2>3, <3>1 DEF Onwards, StageInv
  <2>4. CASE Instead("flush")
    BY <2>1, <2>2, <2>4 DEF Instead, StageInv
  <2> QED
    BY <1>3, <2>3, <2>4 DEF CreateChain
<1>4. CASE FlushChain
  <2>1. /\ pc = "flush" /\ pc \in Operations /\ proc = "up" /\ proc' = "up"
        /\ orphans = {} /\ UNCHANGED <<target, orphans, current, fam>>
        /\ Succeeds(Pending) \/ Fails(Pending)
    BY <1>4 DEF FlushChain, Reconciling, Onwards, GivesUp, Operations, StageInv
  <2>2. fam = "v6" => Intercepted("v4")' = target \cap Of("v4")
    BY <2>1, FirstFamilyStays
  <2>3. CASE Onwards("check")
    <3>1. kernel'[fam].rules = {}
      BY <2>1, <2>3, StageEffect DEF Onwards
    <3> QED
      BY <2>1, <2>2, <2>3, <3>1 DEF Onwards, StageInv
  <2>4. CASE GivesUp
    BY <2>1, <2>4 DEF GivesUp, StageInv
  <2> QED
    BY <1>4, <2>3, <2>4 DEF FlushChain
<1>5. CASE CheckJump
  <2>1. /\ pc = "check" /\ pc \in Operations /\ proc = "up" /\ proc' = "up"
        /\ orphans = {} /\ UNCHANGED <<target, orphans, current, fam, settled>>
        /\ Succeeds(Pending) \/ Fails(Pending)
        /\ kernel[fam].rules = {}
    BY <1>5 DEF CheckJump, Reconciling, Onwards, Instead, Operations, StageInv
  <2>2. fam = "v6" => Intercepted("v4")' = target \cap Of("v4")
    BY <2>1, FirstFamilyStays
  <2>3. CASE Onwards("restore")
    <3>1. kernel'[fam].rules = {} /\ kernel'[fam].jumps > 0
      BY <2>1, <2>3, StageEffect DEF Onwards
    <3> QED
      BY <2>1, <2>2, <2>3, <3>1 DEF Onwards, StageInv
  <2>4. CASE Instead("insert")
    <3>1. kernel'[fam].rules = {}
      BY <2>1, <2>4 DEF Instead, Fails
    <3> QED
      BY <2>1, <2>2, <2>4, <3>1 DEF Instead, StageInv
  <2> QED
    BY <1>5, <2>3, <2>4 DEF CheckJump
<1>6. CASE InsertJump
  <2>1. /\ pc = "insert" /\ pc \in Operations /\ proc = "up" /\ proc' = "up"
        /\ orphans = {} /\ UNCHANGED <<target, orphans, current, fam>>
        /\ Succeeds(Pending) \/ Fails(Pending)
        /\ kernel[fam].rules = {}
    BY <1>6 DEF InsertJump, Reconciling, Onwards, GivesUp, Operations, StageInv
  <2>2. fam = "v6" => Intercepted("v4")' = target \cap Of("v4")
    BY <2>1, FirstFamilyStays
  <2>3. CASE Onwards("restore")
    <3>1. kernel'[fam].rules = {} /\ kernel'[fam].jumps > 0
      BY <2>1, <2>3, StageEffect DEF Onwards
    <3> QED
      BY <2>1, <2>2, <2>3, <3>1 DEF Onwards, StageInv
  <2>4. CASE GivesUp
    BY <2>1, <2>4 DEF GivesUp, StageInv
  <2> QED
    BY <1>6, <2>3, <2>4 DEF InsertJump
<1>7. CASE Restore
  <2>1. /\ pc = "restore" /\ pc \in Operations /\ proc = "up" /\ proc' = "up"
        /\ orphans = {} /\ UNCHANGED <<target, orphans>>
        /\ kernel[fam].jumps > 0 /\ fam \in Families
    BY <1>7 DEF Restore, Reconciling, Operations, StageInv, Shape
  <2>2. CASE GivesUp
    BY <2>1, <2>2 DEF GivesUp, StageInv
  <2>3. CASE Succeeds(Pending)
    <3>1. /\ kernel'[fam].jumps > 0
          /\ kernel'[fam].rules = target \cap Of(fam)
      BY <2>1, <2>3, StageEffect
    <3>2. fam = "v6" => Intercepted("v4")' = target \cap Of("v4")
      BY <2>1, <2>3, FirstFamilyStays
    <3>3. CASE /\ fam = "v4" /\ fam' = "v6" /\ pc' = "create"
      BY <2>1, <3>1, <3>3 DEF StageInv, Intercepted
    <3>4. CASE /\ fam = "v6" \/ FALSE \in Ip6Found
               /\ pc' = "idle" /\ current' = target /\ fam' = fam
      <4>1. \A f \in Reached : f # fam => f = "v4" /\ fam = "v6"
        BY <2>1, <3>4 DEF Reached, Families
      <4>2. \A f \in Reached : Intercepted(f)' = target \cap Of(f)
        BY <3>1, <3>2, <3>4, <4>1 DEF Intercepted
      <4> QED
        BY <2>1, <3>4, <4>2 DEF StageInv, Intercepted
    <3> QED
      BY <1>7, <2>1, <2>2, <2>3, <3>3, <3>4 DEF Restore
  <2> QED
    BY <1>7, <2>2, <2>3 DEF Restore
<1>8. CASE Shutdown \/ DeleteJumps \/ EmptyChain \/ RemoveChain \/ Crash
  BY <1>8 DEF Shutdown, DeleteJumps, EmptyChain, RemoveChain, Cleaning, Crash, StageInv
<1>9. CASE RunOrphan
  BY <1>9 DEF RunOrphan, StageInv
<1>10. CASE Restart
  BY <1>10 DEF Restart, StageInv, StoppedInv
<1> QED
  BY <1>1, <1>2, <1>3, <1>4, <1>5, <1>6, <1>7, <1>8, <1>9, <1>10 DEF Next

-----------------------------------------------------------------------------
(* Cleanup. *)

\* What an awaited command of cleanup leaves: no command of it hooks or fills,
\* so what is empty stays empty and what is unhooked stays unhooked.
LEMMA CleanEffect ==
    ASSUME Shape, pc \in {"delete", "flush", "remove"},
           Succeeds(Pending) \/ Fails(Pending)
    PROVE  /\ \A f \in Families : kernel[f].rules = {} => kernel'[f].rules = {}
           /\ pc # "delete" => \A f \in Families :
                  kernel[f].jumps = 0 => kernel'[f].jumps = 0
           /\ \A f \in Families : f # fam => kernel'[f] = kernel[f]
<1>1. CASE Fails(Pending)
  BY <1>1 DEF Fails
<1>2. CASE Succeeds(Pending)
  <2>1. /\ Pending \in Commands
        /\ Pending.op = pc /\ Pending.fam = fam
    BY PendingType
  <2>2. /\ kernel[fam] \in ChainStates
        /\ Works(Pending.op, kernel[fam])
        /\ kernel'[fam] = Effect(Pending, kernel[fam])
        /\ \A f \in Families : f # fam => kernel'[f] = kernel[f]
    BY <1>2, <2>1, SuccessFacts
  <2>3. kernel[fam].rules = {} => kernel'[fam].rules = {}
    BY <2>1, <2>2, EffectFacts
  <2>4. pc # "delete" => kernel'[fam].jumps = kernel[fam].jumps
    BY <2>1, <2>2, EffectFacts
  <2> QED
    BY <2>2, <2>3, <2>4
<1> QED
  BY <1>1, <1>2

\* An awaited command of cleanup keeps what is said of the orphan and of the
\* families released, as no orphan runs meanwhile.
LEMMA AwaitedClean ==
    ASSUME Shape, OrphanInv, pc \in {"delete", "flush", "remove"},
           Succeeds(Pending) \/ Fails(Pending), UNCHANGED orphans
    PROVE  /\ OrphanInv'
           /\ \A f \in Families : Released(f) /\ (pc # "delete" \/ f # fam)
                                     => Released(f)'
<1>1. OrphanInv'
  BY CleanEffect DEF OrphanInv, Shape, Commands
<1>2. ASSUME NEW f \in Families, Released(f), pc # "delete" \/ f # fam
      PROVE  Released(f)'
  BY <1>2, CleanEffect DEF Released
<1> QED
  BY <1>1, <1>2

\* The one orphan that runs leaves none behind, and a family released before
\* stays so.
LEMMA OrphanClean ==
    ASSUME Shape, OrphanInv, RunOrphan
    PROVE  /\ OrphanInv'
           /\ \A f \in Families : Released(f) => Released(f)'
<1>1. PICK c \in orphans : /\ Succeeds(c) \/ Fails(c)
                           /\ orphans' = orphans \ {c}
  BY DEF RunOrphan
<1>2. orphans' = {}
  BY <1>1 DEF OrphanInv
<1>3. /\ c \in Commands /\ c.op \in ReconcileOperations
      /\ c.op = "insert" => kernel[c.fam].rules = {}
  BY <1>1 DEF OrphanInv, Shape
<1>4. ASSUME NEW f \in Families, Released(f)
      PROVE  Released(f)'
  <2>1. CASE Fails(c)
    BY <1>2, <1>4, <2>1 DEF Fails, Released
  <2>2. CASE Succeeds(c) /\ f # c.fam
    BY <1>2, <1>4, <2>2, <1>3, SuccessFacts DEF Released
  <2>3. CASE Succeeds(c) /\ f = c.fam
    <3>1. /\ kernel[f] \in ChainStates
          /\ Works(c.op, kernel[f])
          /\ kernel'[f] = Effect(c, kernel[f])
      BY <1>3, <2>3, SuccessFacts
    <3>2. CASE c.op = "insert"
      <4>1. kernel'[f].rules = {}
        BY <1>3, <2>3, <3>1, <3>2, EffectFacts
      <4> QED
        BY <1>2, <4>1 DEF Released
    <3>3. CASE c.op = "restore"
      <4>1. kernel[f].jumps = 0
        BY <1>1, <1>4, <2>3, <3>3 DEF Released
      <4>2. kernel'[f].jumps = 0
        BY <1>3, <3>1, <3>3, <4>1, EffectFacts
      <4> QED
        BY <4>2 DEF Released
    <3>4. CASE c.op \in {"create", "flush", "check"}
      <4>1. /\ kernel'[f].jumps = kernel[f].jumps
            /\ kernel[f].rules = {} => kernel'[f].rules = {}
        BY <1>3, <3>1, <3>4, EffectFacts
      <4> QED
        BY <1>2, <1>4, <4>1 DEF Released
    <3> QED
      BY <1>3, <3>2, <3>3, <3>4 DEF ReconcileOperations, Fills
  <2> QED
    BY <1>1, <2>1, <2>2, <2>3
<1> QED
  BY <1>2, <1>4 DEF OrphanInv

\* Every step keeps what cleanup has released released.
LEMMA CleanStep ==
    ASSUME Shape, StageInv, CleanInv, Next
    PROVE  CleanInv'
<1>1. CASE Unchanged \/ \E allocations \in SUBSET Allocations : Reconcile(allocations)
  BY <1>1 DEF Unchanged, Reconcile, CleanInv
<1>2. CASE CreateChain \/ FlushChain \/ CheckJump \/ InsertJump \/ Restore
  BY <1>2 DEF CreateChain, FlushChain, CheckJump, InsertJump, Restore, Reconciling,
              CleanInv
<1>3. CASE Shutdown
  <2>1. /\ proc = "up" /\ proc' = "cleanup" /\ pc' = "delete" /\ fam' = "v4"
        /\ kernel' = kernel
        /\ orphans = {} /\ pc \in ReconcileOperations \cup {"idle"}
    BY <1>3 DEF Shutdown, StageInv
  <2>2. orphans' # {} => pc # "idle" /\ orphans' = {Pending}
    BY <1>3, <2>1 DEF Shutdown, Dropped
  <2>3. pc # "idle" => /\ Pending.op = pc /\ Pending.fam = fam
                       /\ pc = "insert" => kernel[fam].rules = {}
    BY <2>1, PendingType DEF StageInv, Fills
  <2>4. OrphanInv'
    BY <2>1, <2>2, <2>3 DEF OrphanInv
  <2>5. \A f \in Families : ~Unhooked(f)'
    BY <2>1 DEF Unhooked
  <2> QED
    BY <2>1, <2>4, <2>5 DEF CleanInv
<1>4. CASE DeleteJumps
  <2>1. /\ proc = "cleanup" /\ proc' = "cleanup" /\ pc = "delete"
        /\ Succeeds(Pending) \/ Fails(Pending)
        /\ UNCHANGED <<orphans, fam>>
        /\ OrphanInv
    BY <1>4 DEF DeleteJumps, Cleaning, CleanInv
  <2>2. /\ OrphanInv'
        /\ \A f \in Families : Released(f) /\ f # fam => Released(f)'
    BY <2>1, AwaitedClean
  <2>3. CASE Succeeds(Pending) /\ pc' = "delete"
    <3>1. \A f \in Families : Unhooked(f)' => Unhooked(f) /\ f # fam
      BY <2>1, <2>3 DEF Unhooked
    <3> QED
      BY <2>1, <2>2, <2>3, <3>1 DEF CleanInv
  <2>4. CASE Fails(Pending) /\ pc' = "flush"
    <3>1. \A f \in Families : Unhooked(f)' /\ f # fam => Unhooked(f)
      BY <2>1, <2>4 DEF Unhooked
    <3>2. "delete" \notin Faults => Released(fam)'
      <4>1. Pending.op = "delete" /\ Pending.fam = fam
        BY <2>1, PendingType
      <4>2. "delete" \notin Faults => ~(kernel[fam].jumps > 0)
        BY <2>4, <4>1 DEF Fails, Works
      <4>3. kernel[fam].jumps \in Nat /\ kernel' = kernel
        BY <2>4 DEF Shape, ChainStates, Fails
      <4> QED
        BY <4>2, <4>3, <2>1 DEF Released
    <3> QED
      BY <2>1, <2>2, <2>4, <3>1, <3>2 DEF CleanInv
  <2> QED
    BY <1>4, <2>1, <2>3, <2>4 DEF DeleteJumps
<1>5. CASE EmptyChain
  <2>1. /\ proc = "cleanup" /\ proc' = "cleanup" /\ pc = "flush" /\ pc' = "remove"
        /\ Succeeds(Pending) \/ Fails(Pending)
        /\ UNCHANGED <<orphans, fam>>
        /\ OrphanInv
    BY <1>5 DEF EmptyChain, Cleaning, CleanInv
  <2>2. /\ OrphanInv'
        /\ \A f \in Families : Released(f) => Released(f)'
    BY <2>1, AwaitedClean
  <2>3. \A f \in Families : Unhooked(f)' => Unhooked(f)
    BY <2>1 DEF Unhooked
  <2> QED
    BY <2>1, <2>2, <2>3 DEF CleanInv
<1>6. CASE RemoveChain
  <2>1. /\ proc = "cleanup" /\ pc = "remove"
        /\ Succeeds(Pending) \/ Fails(Pending)
        /\ UNCHANGED orphans
        /\ OrphanInv
    BY <1>6 DEF RemoveChain, Cleaning, CleanInv
  <2>2. /\ OrphanInv'
        /\ \A f \in Families : Released(f) => Released(f)'
    BY <2>1, AwaitedClean
  <2>3. /\ proc' \in {"cleanup", "exited"}
        /\ proc' = "cleanup" => pc' = "delete"
    BY <1>6, <2>1 DEF RemoveChain
  <2>4. \A f \in Families : Unhooked(f)' => Unhooked(f)
    BY <1>6, <2>1 DEF RemoveChain, Unhooked, Reached, Families, Shape
  <2> QED
    BY <2>1, <2>2, <2>3, <2>4 DEF CleanInv
<1>7. CASE Crash
  BY <1>7 DEF Crash, CleanInv
<1>8. CASE RunOrphan
  <2>1. CASE proc \in {"cleanup", "exited"}
    <3>1. OrphanInv /\ UNCHANGED <<proc, pc, fam>>
      BY <1>8, <2>1 DEF CleanInv, RunOrphan
    <3>2. /\ OrphanInv'
          /\ \A f \in Families : Released(f) => Released(f)'
      BY <1>8, <3>1, OrphanClean
    <3> QED
      BY <2>1, <3>1, <3>2 DEF CleanInv, Unhooked
  <2>2. CASE proc \notin {"cleanup", "exited"}
    BY <1>8, <2>2 DEF RunOrphan, CleanInv
  <2> QED
    BY <2>1, <2>2
<1>9. CASE Restart
  BY <1>9 DEF Restart, CleanInv
<1> QED
  BY <1>1, <1>2, <1>3, <1>4, <1>5, <1>6, <1>7, <1>8, <1>9 DEF Next

-----------------------------------------------------------------------------
(* The invariant, and what it says. *)

\* A step that changes nothing keeps the invariant.
LEMMA Stutter ==
    ASSUME IInv, UNCHANGED vars
    PROVE  IInv'
BY DEF IInv, vars, Shape, NoChainNoRules, StageInv, CleanInv, StoppedInv,
       OrphanInv, Unhooked, Released, Intercepted

\* The last stage is the property.
LEMMA SuccessFromInv == IInv => SuccessInstalls
BY DEF IInv, StageInv, SuccessInstalls

\* After the exit every family reached is unhooked, thus released.
LEMMA ExitFromInv == IInv => CleanExitReleases
<1> SUFFICES ASSUME IInv, proc = "exited", "delete" \notin Faults,
                    NEW f \in Reached
             PROVE  Intercepted(f) = {}
  BY DEF CleanExitReleases
<1>1. f \in Families
  BY DEF Reached, Families
<1>2. Released(f)
  BY <1>1 DEF IInv, CleanInv, Unhooked
<1> QED
  BY <1>1, <1>2 DEF Released, Intercepted, IInv, Shape, ChainStates

\* The invariant holds in every reachable state.
THEOREM Invariance == Spec => []IInv
<1>1. IInv /\ [Next]_vars => IInv'
  BY ShapeStep, StageStep, CleanStep, StoppedStep, Stutter DEF IInv
<1> QED
  BY InitInv, <1>1, PTL DEF Spec

\* A reconcile that succeeds leaves the kernel redirecting what the manager
\* believes, from chains and jumps in whatever state failed reconciles, dropped
\* ones and killed processes left them.
THEOREM SuccessRepairs == Spec => []SuccessInstalls
BY Invariance, SuccessFromInv, PTL

\* After a cleanup nothing is redirected and nothing is later on, whatever the
\* command left of the aborted reconcile does, for any number of jumps.
THEOREM CleanExit == Spec => []CleanExitReleases
BY Invariance, ExitFromInv, PTL

-----------------------------------------------------------------------------
(* The types, and with them how many jumps there can be. *)

\* Where a jump is inserted, by the task or by what is left of one, there is
\* room for it: it was checked for first, and only one command can insert.
RoomInv ==
    /\ \A f \in Families : kernel[f].jumps <= MaxJumps
    /\ pc = "insert" => kernel[fam].jumps < MaxJumps
    /\ \A c \in orphans : c.op = "insert" => kernel[c.fam].jumps < MaxJumps
    /\ \A c, d \in orphans : c.op = "insert" /\ d.op = "insert" => c = d

\* What is not a number or a command.
Simple ==
    /\ proc \in {"up", "cleanup", "exited", "crashed"}
    /\ restarts \in 0..MaxRestarts
    /\ settled \in BOOLEAN

\* Only an insertion adds a jump, and it adds one.
LEMMA JumpsStep ==
    ASSUME Shape, NEW c \in Commands, Succeeds(c) \/ Fails(c)
    PROVE  /\ \A f \in Families : f # c.fam => kernel'[f].jumps = kernel[f].jumps
           /\ c.op # "insert" => kernel'[c.fam].jumps <= kernel[c.fam].jumps
           /\ kernel'[c.fam].jumps <= kernel[c.fam].jumps + 1
           /\ kernel[c.fam].jumps \in Nat /\ kernel'[c.fam].jumps \in Nat
<1> DEFINE k == kernel[c.fam]
<1>1. c.fam \in Families /\ k \in ChainStates /\ c.op \in Operations
  BY DEF Commands, Shape
<1>2. k.jumps \in Nat
  BY <1>1 DEF ChainStates
<1>3. CASE Fails(c)
  BY <1>2, <1>3 DEF Fails
<1>4. CASE Succeeds(c)
  <2>1. /\ kernel'[c.fam] = Effect(c, k) /\ Works(c.op, k)
        /\ \A f \in Families : f # c.fam => kernel'[f] = kernel[f]
    BY <1>4, SuccessFacts
  <2>2. Effect(c, k) \in ChainStates
    BY <1>1, <2>1, EffectFacts
  <2>3. CASE c.op \notin {"insert", "delete"}
    <3>1. Effect(c, k).jumps = k.jumps
      BY <1>1, <2>1, <2>3, EffectFacts
    <3> QED
      BY <1>2, <2>1, <2>3, <3>1
  <2>4. CASE c.op = "insert"
    <3>1. Effect(c, k).jumps = k.jumps + 1
      BY <1>1, <2>4 DEF Effect, ChainStates
    <3> QED
      BY <1>2, <2>1, <2>4, <3>1
  <2>5. CASE c.op = "delete"
    <3>1. Effect(c, k).jumps = k.jumps - 1
      BY <1>1, <2>5 DEF Effect, ChainStates
    <3>2. k.jumps > 0
      BY <2>1, <2>5 DEF Works
    <3> QED
      BY <1>2, <2>1, <2>5, <3>1, <3>2
  <2> QED
    BY <2>3, <2>4, <2>5
<1> QED
  BY <1>3, <1>4

\* A command that inserts nothing, and is not followed by one that does, leaves
\* whatever room there was.
LEMMA RoomKept ==
    ASSUME Shape, RoomInv, NEW c \in Commands, Succeeds(c) \/ Fails(c),
           c.op # "insert", pc' # "insert", orphans' \subseteq orphans
    PROVE  RoomInv'
<1>1. \A f \in Families : /\ kernel'[f].jumps <= kernel[f].jumps
                          /\ kernel[f].jumps \in Nat /\ kernel'[f].jumps \in Nat
  <2>1. \A f \in Families : kernel[f].jumps \in Nat
    BY DEF Shape, ChainStates
  <2> QED
    BY <2>1, JumpsStep
<1>2. MaxJumps \in Nat
  BY BoundAssumption
<1>3. \A d \in orphans' : d \in orphans /\ d.fam \in Families
  BY DEF Shape, Commands
<1>4. \A f \in Families : kernel'[f].jumps <= MaxJumps
  BY <1>1, <1>2 DEF RoomInv
<1>5. \A d \in orphans' : d.op = "insert" => kernel'[d.fam].jumps < MaxJumps
  BY <1>1, <1>2, <1>3 DEF RoomInv
<1> QED
  BY <1>3, <1>4, <1>5 DEF RoomInv

\* The command that inserts fills the room, and no other is left that would.
LEMMA RoomFilled ==
    ASSUME Shape, RoomInv, NEW c \in Commands, Succeeds(c) \/ Fails(c),
           c.op = "insert", kernel[c.fam].jumps < MaxJumps,
           pc' # "insert", \A d \in orphans' : d.op # "insert"
    PROVE  RoomInv'
<1>1. MaxJumps \in Nat
  BY BoundAssumption
<1>2. kernel'[c.fam].jumps <= MaxJumps
  BY <1>1, JumpsStep
<1>3. \A f \in Families : kernel'[f].jumps <= MaxJumps
  BY <1>2, JumpsStep DEF RoomInv
<1> QED
  BY <1>3 DEF RoomInv

\* Every step leaves room where a jump is to be inserted.
LEMMA RoomStep ==
    ASSUME IInv, Simple, RoomInv, Next
    PROVE  RoomInv'
<1>0. Shape /\ StageInv /\ CleanInv /\ StoppedInv
  BY DEF IInv
<1>1. CASE Unchanged \/ \E allocations \in SUBSET Allocations : Reconcile(allocations)
  BY <1>1 DEF Unchanged, Reconcile, RoomInv
<1>2. CASE \/ CreateChain \/ FlushChain \/ Restore
           \/ DeleteJumps \/ EmptyChain \/ RemoveChain
  <2>1. /\ pc # "idle" /\ pc # "insert" /\ pc' # "insert" /\ orphans' = orphans
        /\ Succeeds(Pending) \/ Fails(Pending)
    BY <1>2 DEF CreateChain, FlushChain, Restore, DeleteJumps, EmptyChain,
                RemoveChain, Reconciling, Cleaning, Onwards, Instead, GivesUp
  <2> QED
    BY <1>0, <2>1, PendingType, RoomKept
<1>3. CASE CheckJump
  <2>1. /\ pc = "check" /\ orphans' = orphans /\ orphans = {}
    BY <1>0, <1>3 DEF CheckJump, Reconciling, StageInv
  <2>2. CASE Onwards("restore")
    BY <1>0, <2>1, <2>2, PendingType, RoomKept DEF Onwards
  <2>3. CASE Instead("insert")
    <3>1. Pending.op = "check" /\ Pending.fam = fam
      BY <1>0, <2>1, PendingType
    <3>2. /\ kernel' = kernel /\ fam' = fam
          /\ ~Works("check", kernel[fam]) \/ kernel[fam].jumps < MaxJumps
      BY <2>3, <3>1 DEF Instead, Fails
    <3>3. kernel[fam].jumps \in Nat /\ MaxJumps \in Nat \ {0}
      BY <1>0, BoundAssumption DEF Shape, ChainStates
    <3>4. kernel[fam].jumps < MaxJumps
      BY <3>2, <3>3 DEF Works
    <3> QED
      BY <2>1, <3>2, <3>4 DEF RoomInv
  <2> QED
    BY <1>3, <2>2, <2>3 DEF CheckJump
<1>4. CASE InsertJump
  <2>1. /\ pc = "insert" /\ pc' # "insert" /\ orphans' = {}
        /\ Succeeds(Pending) \/ Fails(Pending)
    BY <1>0, <1>4 DEF InsertJump, Reconciling, StageInv, Onwards, GivesUp
  <2>2. /\ Pending \in Commands /\ Pending.op = "insert"
        /\ kernel[Pending.fam].jumps < MaxJumps
    BY <1>0, <2>1, PendingType DEF RoomInv
  <2> QED
    BY <1>0, <2>1, <2>2, RoomFilled
<1>5. CASE Shutdown \/ Crash
  <2>1. kernel' = kernel /\ pc' # "insert" /\ Dropped /\ proc \in {"up", "cleanup"}
    BY <1>5 DEF Shutdown, Crash
  <2>2. orphans' \in {orphans, orphans \cup (IF pc = "idle" THEN {} ELSE {Pending})}
    BY <2>1 DEF Dropped
  <2>3. pc = "insert" => orphans = {}
    BY <1>0, <2>1 DEF StageInv, CleanInv
  <2>4. pc # "idle" => Pending.op = pc /\ Pending.fam = fam
    BY <1>0, PendingType
  <2>5. \A c \in orphans' : c \in orphans \/ (pc # "idle" /\ c = Pending)
    BY <2>2
  <2>6. \A c \in orphans' : c.op = "insert" => kernel'[c.fam].jumps < MaxJumps
    BY <2>1, <2>4, <2>5 DEF RoomInv
  <2>7. \A c, d \in orphans' : c.op = "insert" /\ d.op = "insert" => c = d
    BY <2>3, <2>4, <2>5 DEF RoomInv
  <2> QED
    BY <2>1, <2>6, <2>7 DEF RoomInv
<1>6. CASE RunOrphan
  <2>1. PICK c \in orphans : /\ Succeeds(c) \/ Fails(c)
                             /\ orphans' = orphans \ {c}
                             /\ pc' = pc
    BY <1>6 DEF RunOrphan
  <2>2. c \in Commands /\ proc # "up"
    BY <1>0 DEF Shape, StageInv
  <2>3. pc # "insert"
    BY <1>0, <2>2 DEF StoppedInv, CleanInv, Simple
  <2>4. CASE c.op # "insert"
    BY <1>0, <2>1, <2>2, <2>3, <2>4, RoomKept
  <2>5. CASE c.op = "insert"
    <3>1. kernel[c.fam].jumps < MaxJumps /\ \A d \in orphans' : d.op # "insert"
      BY <2>1, <2>5 DEF RoomInv
    <3> QED
      BY <1>0, <2>1, <2>2, <2>3, <2>5, <3>1, RoomFilled
  <2> QED
    BY <2>4, <2>5
<1>7. CASE Restart
  BY <1>0, <1>7 DEF Restart, RoomInv, StoppedInv
<1> QED
  BY <1>1, <1>2, <1>3, <1>4, <1>5, <1>6, <1>7 DEF Next

\* The rest is assigned, or counted up to the bound.
LEMMA SimpleStep ==
    ASSUME Simple, Next
    PROVE  Simple'
<1>1. CASE Restart
  <2>1. restarts' \in 0..MaxRestarts
    BY <1>1, BoundAssumption DEF Restart, Simple
  <2> QED
    BY <1>1, <2>1 DEF Restart, Simple
<1>2. CASE Unchanged \/ \E allocations \in SUBSET Allocations : Reconcile(allocations)
  BY <1>2 DEF Unchanged, Reconcile, Simple
<1>3. CASE CreateChain \/ FlushChain \/ CheckJump \/ InsertJump \/ Restore
  BY <1>3 DEF CreateChain, FlushChain, CheckJump, InsertJump, Restore, Reconciling,
              Onwards, Instead, GivesUp, Simple
<1>4. CASE DeleteJumps \/ EmptyChain \/ RemoveChain
  BY <1>4 DEF DeleteJumps, EmptyChain, RemoveChain, Cleaning, Simple
<1>5. CASE Shutdown \/ Crash \/ RunOrphan
  BY <1>5 DEF Shutdown, Crash, RunOrphan, Simple
<1> QED
  BY <1>1, <1>2, <1>3, <1>4, <1>5 DEF Next

\* The types hold, the bound on the jumps with them: limiting the checks that
\* fail for no reason is enough, as a command of a dropped task, run however
\* late, inserts no jump for which there is no room any more.
THEOREM TypeCorrect == Spec => []TypeOK
<1>1. Init => Simple /\ RoomInv
  <2> SUFFICES ASSUME Init PROVE Simple /\ RoomInv
    OBVIOUS
  <2>1. \A f \in Families : kernel[f].jumps = 0
    BY DEF Init
  <2> QED
    BY <2>1, BoundAssumption DEF Init, Simple, RoomInv
<1>2. IInv /\ Simple /\ RoomInv /\ [Next]_vars => Simple' /\ RoomInv'
  <2> SUFFICES ASSUME IInv, Simple, RoomInv, [Next]_vars PROVE Simple' /\ RoomInv'
    OBVIOUS
  <2>1. CASE Next
    BY <2>1, SimpleStep, RoomStep
  <2>2. CASE UNCHANGED vars
    BY <2>2 DEF vars, Simple, RoomInv
  <2> QED
    BY <2>1, <2>2
<1>3. IInv /\ Simple /\ RoomInv => TypeOK
  <2> SUFFICES ASSUME IInv, Simple, RoomInv PROVE TypeOK
    OBVIOUS
  <2>1. Shape
    BY DEF IInv
  <2>2. \A f \in Families :
            kernel[f] \in [chain: BOOLEAN, jumps: 0..MaxJumps, rules: SUBSET Allocations]
    BY <2>1, BoundAssumption DEF Shape, ChainStates, RoomInv
  <2> QED
    BY <2>1, <2>2 DEF Shape, Simple, TypeOK
<1> QED
  BY Invariance, <1>1, <1>2, <1>3, PTL DEF Spec

-----------------------------------------------------------------------------
(* The firewall's promise. *)

\* A process that is not there believes nothing.
Forgotten == proc \in {"exited", "crashed"} => current = {}

LEMMA ForgottenStep == Forgotten /\ [Next]_vars => Forgotten'
BY DEF Forgotten, Next, vars, Unchanged, Reconcile, Reconciling, CreateChain,
       FlushChain, CheckJump, InsertJump, Restore, Shutdown, Cleaning,
       DeleteJumps, EmptyChain, RemoveChain, Crash, RunOrphan, Restart

\* Whatever the kernel holds is a set of allocations.
LEMMA RedirectedType ==
    ASSUME Shape'
    PROVE  (UNION {Intercepted(f) : f \in Reached})' \in SUBSET Allocations
<1>1. Reached \subseteq Families
  BY DEF Reached, Families
<1>2. \A f \in Reached : Intercepted(f)' \in SUBSET Allocations
  BY <1>1 DEF Shape, ChainStates, Intercepted
<1> QED
  BY <1>2

\* A step of reconcile that neither ends it nor changes the belief.
LEMMA DisturbStep ==
    ASSUME Shape', proc = "up", proc' = "up", pc # "idle", pc' # "idle",
           UNCHANGED current
    PROVE  Firewall!Next
<1>1. (UNION {Intercepted(f) : f \in Reached})' \in SUBSET Allocations
  BY RedirectedType
<1>2. Firewall!Disturb
  BY <1>1 DEF Firewall!Disturb
<1> QED
  BY <1>2 DEF Firewall!Next

LEMMA RefuseStep ==
    ASSUME proc = "up", proc' = "up", pc # "idle", pc' = "idle",
           UNCHANGED <<current, kernel>>
    PROVE  Firewall!Next
<1>1. Firewall!Refuse
  BY DEF Firewall!Refuse, Intercepted
<1> QED
  BY <1>1 DEF Firewall!Next

\* A step of a process that was stopped, or of what is left of it.
LEMMA AftermathStep ==
    ASSUME Shape', proc # "up", proc' # "up", current' \in {current, {}}
    PROVE  Firewall!Next
<1>1. (UNION {Intercepted(f) : f \in Reached})' \in SUBSET Allocations
  BY RedirectedType
<1>2. Firewall!Aftermath
  BY <1>1 DEF Firewall!Aftermath
<1> QED
  BY <1>2 DEF Firewall!Next

\* The end of a live process, which runs no command itself.
LEMMA EndStep ==
    ASSUME proc = "up", proc' # "up", UNCHANGED kernel, current' \in {current, {}}
    PROVE  Firewall!Next
<1>1. Firewall!End
  BY DEF Firewall!End, Intercepted
<1> QED
  BY <1>1 DEF Firewall!Next

\* The last restore: the invariant says what the kernel redirects after it.
LEMMA SuccessStep ==
    ASSUME Shape', StageInv', proc = "up", proc' = "up", pc # "idle",
           pc' = "idle", settled'
    PROVE  Firewall!Next
<1>1. (UNION {Intercepted(f) : f \in Reached})' \in SUBSET Allocations
  BY RedirectedType
<1>2. \A f \in Reached : Intercepted(f)' = current' \cap Of(f)
  BY DEF StageInv
<1>3. UNION {Intercepted(f)' : f \in Reached}
        = current' \cap UNION {Of(f) : f \in Reached}
  BY <1>2
<1>4. Firewall!Succeed
  BY <1>1, <1>3 DEF Firewall!Succeed
<1> QED
  BY <1>4 DEF Firewall!Next

LEMMA StepRefines ==
    ASSUME IInv, IInv', Forgotten, [Next]_vars
    PROVE  [Firewall!Next]_(Firewall!vars)
<1>0. Shape' /\ StageInv'
  BY DEF IInv
<1>1. CASE Unchanged \/ UNCHANGED vars
  BY <1>1 DEF Unchanged, vars, Firewall!vars, Intercepted
<1>2. ASSUME NEW allocations \in SUBSET Allocations, Reconcile(allocations)
      PROVE  Firewall!Next
  <2>1. Firewall!Ask
    BY <1>2 DEF Reconcile, Firewall!Ask, Intercepted
  <2> QED
    BY <2>1 DEF Firewall!Next
<1>3. CASE CreateChain \/ CheckJump
  <2>1. proc = "up" /\ proc' = "up" /\ pc # "idle" /\ pc' # "idle"
          /\ UNCHANGED current
    BY <1>3 DEF CreateChain, CheckJump, Reconciling, Onwards, Instead
  <2> QED
    BY <1>0, <2>1, DisturbStep
<1>4. CASE FlushChain \/ InsertJump
  <2>1. proc = "up" /\ proc' = "up" /\ pc # "idle" /\ UNCHANGED current
          /\ (pc' # "idle" \/ (pc' = "idle" /\ UNCHANGED kernel))
    BY <1>4 DEF FlushChain, InsertJump, Reconciling, Onwards, GivesUp, Fails
  <2> QED
    BY <1>0, <2>1, DisturbStep, RefuseStep
<1>5. CASE Restore
  <2>1. proc = "up" /\ proc' = "up" /\ pc # "idle"
    BY <1>5 DEF Restore, Reconciling
  <2>2. \/ pc' = "idle" /\ UNCHANGED <<current, kernel>>
        \/ pc' # "idle" /\ UNCHANGED current
        \/ pc' = "idle" /\ settled'
    BY <1>5 DEF Restore, GivesUp, Fails
  <2> QED
    BY <1>0, <2>1, <2>2, DisturbStep, RefuseStep, SuccessStep
<1>6. CASE Shutdown
  <2>1. proc = "up" /\ proc' # "up" /\ UNCHANGED <<kernel, current>>
    BY <1>6 DEF Shutdown
  <2> QED
    BY <2>1, EndStep
<1>7. CASE DeleteJumps \/ EmptyChain \/ RemoveChain
  <2>1. proc # "up" /\ proc' # "up" /\ current' \in {current, {}}
    BY <1>7 DEF DeleteJumps, EmptyChain, RemoveChain, Cleaning
  <2> QED
    BY <1>0, <2>1, AftermathStep
<1>8. CASE Crash
  <2>1. proc' # "up" /\ current' = {} /\ UNCHANGED kernel
    BY <1>8 DEF Crash
  <2> QED
    BY <1>0, <2>1, EndStep, AftermathStep
<1>9. CASE RunOrphan
  <2>1. orphans # {} /\ UNCHANGED <<proc, current>>
    BY <1>9 DEF RunOrphan
  <2>2. proc # "up"
    BY <2>1 DEF IInv, StageInv
  <2> QED
    BY <1>0, <2>1, <2>2, AftermathStep
<1>10. CASE Restart
  <2>1. /\ proc # "up" /\ proc' = "up" /\ current' = {}
        /\ pc = "idle" /\ pc' = "idle" /\ UNCHANGED kernel
    BY <1>10 DEF Restart, IInv, StoppedInv, Forgotten
  <2>2. Firewall!Start
    BY <2>1 DEF Firewall!Start, Intercepted
  <2> QED
    BY <2>2 DEF Firewall!Next
<1> QED
  BY <1>1, <1>2, <1>3, <1>4, <1>5, <1>6, <1>7, <1>8, <1>9, <1>10 DEF Next

\* The iptables backend keeps the promise of a firewall that is not atomic: it
\* changes what is redirected only between a request and its answer, or when
\* the process is gone, and a success is believed exactly as it is.
THEOREM Implements == Spec => ImplementsInterception
<1>1. Init => Forgotten /\ Firewall!Init
  <2> SUFFICES ASSUME Init PROVE Forgotten /\ Firewall!Init
    OBVIOUS
  <2>1. \A f \in Reached : Intercepted(f) = {}
    BY DEF Init, Intercepted, Reached, Families
  <2>2. UNION {Intercepted(f) : f \in Reached} = {}
    BY <2>1
  <2> QED
    BY <2>2 DEF Init, Forgotten, Firewall!Init
<1>2. IInv /\ IInv' /\ Forgotten /\ [Next]_vars => [Firewall!Next]_(Firewall!vars)
  BY StepRefines
<1> QED
  BY <1>1, <1>2, Invariance, ForgottenStep, PTL
     DEF Spec, ImplementsInterception, Firewall!Spec

-----------------------------------------------------------------------------
(* What the documentation promises, as long as no reconcile fails. *)

\* No reconcile gives up on a command.
NoneGivesUp == [][pc # "idle" /\ proc' = "up" => ~GivesUp]_vars

\* What was not applied is not believed.
NothingUnsettled == proc = "up" /\ ~settled => current = {}

LEMMA UnsettledStep ==
    ASSUME NothingUnsettled, Forgotten, [Next]_vars,
           pc # "idle" /\ proc' = "up" => ~GivesUp
    PROVE  NothingUnsettled'
<1>1. CASE Unchanged \/ \E allocations \in SUBSET Allocations : Reconcile(allocations)
  BY <1>1 DEF Unchanged, Reconcile, NothingUnsettled
<1>2. CASE CreateChain \/ FlushChain \/ CheckJump \/ InsertJump
  BY <1>2 DEF CreateChain, FlushChain, CheckJump, InsertJump, Reconciling,
              Onwards, Instead, NothingUnsettled
<1>3. CASE Restore
  BY <1>3 DEF Restore, Reconciling, NothingUnsettled
<1>4. CASE Shutdown \/ DeleteJumps \/ EmptyChain \/ RemoveChain \/ Crash
  BY <1>4 DEF Shutdown, Cleaning, DeleteJumps, EmptyChain, RemoveChain, Crash,
              NothingUnsettled
<1>5. CASE Restart
  BY <1>5 DEF Restart, Forgotten, NothingUnsettled
<1>6. CASE RunOrphan \/ UNCHANGED vars
  BY <1>6 DEF RunOrphan, vars, NothingUnsettled
<1> QED
  BY <1>1, <1>2, <1>3, <1>4, <1>5, <1>6 DEF Next

\* README.md:5 holds until a reconcile fails half-way: whatever the last process
\* left, and however often checks or the creation of the chain fail, what was
\* asked for and is believed is redirected.
THEOREM RequestsKept == Spec /\ NoneGivesUp => []RequestedAreIntercepted
<1>1. Init => NothingUnsettled /\ Forgotten
  BY DEF Init, NothingUnsettled, Forgotten
<1>2. NothingUnsettled /\ Forgotten /\ [Next]_vars
          /\ [pc # "idle" /\ proc' = "up" => ~GivesUp]_vars => NothingUnsettled'
  <2> SUFFICES ASSUME NothingUnsettled, Forgotten, [Next]_vars,
                      [pc # "idle" /\ proc' = "up" => ~GivesUp]_vars
               PROVE  NothingUnsettled'
    OBVIOUS
  <2>1. CASE UNCHANGED vars
    BY <2>1 DEF vars, NothingUnsettled
  <2>2. CASE pc # "idle" /\ proc' = "up" => ~GivesUp
    BY <2>2, UnsettledStep
  <2> QED
    BY <2>1, <2>2
<1>3. IInv /\ NothingUnsettled => RequestedAreIntercepted
  <2> SUFFICES ASSUME IInv, NothingUnsettled, proc = "up", pc = "idle",
                      target = current, NEW f \in Reached
               PROVE  target \cap Of(f) \subseteq Intercepted(f)
    BY DEF RequestedAreIntercepted
  <2>1. CASE settled
    BY <2>1 DEF IInv, StageInv
  <2>2. CASE ~settled
    BY <2>2 DEF NothingUnsettled
  <2> QED
    BY <2>1, <2>2
<1> QED
  BY <1>1, <1>2, <1>3, Invariance, ForgottenStep, PTL DEF Spec, NoneGivesUp
=============================================================================
