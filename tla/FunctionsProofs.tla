--------------------------- MODULE FunctionsProofs ---------------------------
(***************************************************************************)
(* Theorems about the pure functions.  Each is proved of every input, of   *)
(* any length and any size; that the behaviours of MCFunctions, which      *)
(* enumerate some, satisfy the properties then follows from the types of   *)
(* the inputs they build.                                                  *)
(***************************************************************************)
EXTENDS MCFunctions, FiniteSetTheorems, SequenceTheorems, TLAPS

-----------------------------------------------------------------------------
(* Natural numbers. *)

\* A set of natural numbers has a least element.
LEMMA Least ==
    ASSUME NEW S \in SUBSET Nat, S # {}
    PROVE  \E m \in S : \A n \in S : m <= n
<1>1. \E x \in S : \A y \in S : ~ (<<y, x>> \in OpToRel(<, Nat))
  BY WFMin, NatLessThanWellFounded
<1>2. PICK m \in S : \A y \in S : ~ (<<y, m>> \in OpToRel(<, Nat))
  BY <1>1
<1>3. \A y \in S : ~ (y < m)
  BY <1>2 DEF OpToRel
<1> QED
  BY <1>3

\* A set that has 0, and the successor of each number it has, has them all:
\* what is computed step by step is proved with it.
LEMMA Induction ==
    ASSUME NEW S, 0 \in S, \A n \in Nat : n \in S => n + 1 \in S
    PROVE  Nat \subseteq S
<1> SUFFICES ASSUME Nat \ S # {} PROVE FALSE
  OBVIOUS
<1>1. PICK m \in Nat \ S : \A n \in Nat \ S : m <= n
  BY Least
<1>2. m # 0 /\ m - 1 \in Nat /\ m - 1 \notin Nat \ S
  BY <1>1
<1> QED
  BY <1>1, <1>2

\* Min is that element.
LEMMA MinProperties ==
    ASSUME NEW S \in SUBSET Nat, S # {}
    PROVE  /\ Min(S) \in S
           /\ \A n \in S : Min(S) <= n
           /\ \A m \in S : (\A n \in S : m <= n) => m = Min(S)
<1> DEFINE Smallest(x) == x \in S /\ \A y \in S : x =< y
<1>1. \E x : Smallest(x)
  BY Least
<1>2. Smallest(CHOOSE x : Smallest(x))
  BY <1>1, Zenon
<1>3. Min(S) \in S /\ \A n \in S : Min(S) <= n
  BY <1>2 DEF Min
<1>4. ASSUME NEW m \in S, \A n \in S : m <= n PROVE m = Min(S)
  <2>1. m <= Min(S) /\ Min(S) <= m /\ m \in Nat /\ Min(S) \in Nat
    BY <1>3, <1>4
  <2> QED
    BY <2>1
<1> QED
  BY <1>3, <1>4

\* Max is the greatest element of a set that has a bound.
LEMMA MaxProperties ==
    ASSUME NEW S \in SUBSET Nat, S # {}, NEW b \in Nat, \A n \in S : n <= b
    PROVE  /\ Max(S) \in S
           /\ \A n \in S : n <= Max(S)
           /\ \A m \in S : (\A n \in S : n <= m) => m = Max(S)
<1> DEFINE R == {b - n : n \in S}
<1>1. R \in SUBSET Nat /\ R # {}
  <2>1. \A n \in S : b - n \in Nat
    OBVIOUS
  <2>2. PICK n \in S : TRUE
    OBVIOUS
  <2> QED
    BY <2>1, <2>2
<1>2. PICK m \in R : \A n \in R : m <= n
  BY <1>1, Least
<1>3. PICK x \in S : m = b - x
  OBVIOUS
<1>4. \A n \in S : n <= x
  BY <1>2, <1>3
<1> DEFINE Largest(z) == z \in S /\ \A y \in S : z >= y
<1>5. \E z : Largest(z)
  BY <1>4
<1>6. Largest(CHOOSE z : Largest(z))
  BY <1>5, Zenon
<1>7. Max(S) \in S /\ \A n \in S : n <= Max(S)
  BY <1>6 DEF Max
<1>8. ASSUME NEW y \in S, \A n \in S : n <= y PROVE y = Max(S)
  <2>1. y <= Max(S) /\ Max(S) <= y /\ y \in Nat /\ Max(S) \in Nat
    BY <1>7, <1>8
  <2> QED
    BY <2>1
<1> QED
  BY <1>7, <1>8

-----------------------------------------------------------------------------
(* The panel's verdicts. *)

\* For all that the panel can observe, an agent that lost the panel shows what
\* the panel would show if it had lost the node.
LEMMA StaleFacts ==
    ASSUME NEW o \in Observations
    PROVE  StaleState(ResolveState(o), TRUE)
               = ResolveState([o EXCEPT !.reachable = FALSE])
<1> DEFINE away == [o EXCEPT !.reachable = FALSE]
<1>1. /\ away.suspended = o.suspended /\ away.maintenance = o.maintenance
      /\ away.transferring = o.transferring /\ away.status = o.status
      /\ away.wings = o.wings /\ away.reachable = FALSE
  BY DEF Observations
<1>2. /\ o.status \in Statuses /\ o.wings \in WingsStates
      /\ o.suspended \in BOOLEAN /\ o.maintenance \in BOOLEAN
      /\ o.transferring \in BOOLEAN /\ o.reachable \in BOOLEAN
  BY DEF Observations
<1> HIDE DEF away
<1> QED
  BY <1>1, <1>2
  DEF StaleState, ResolveState, AdminStates, Statuses, WingsStates, PowerStates, away

\* For all that it can observe, the panel starts a server when asked to exactly
\* if it told the agents to ask.
LEMMA WakeFacts ==
    ASSUME NEW o \in Observations
    PROVE  WakeVerdict(o) = "started"
               <=> InSnapshot(o) /\ ResolveState(o) = "offline" /\ o.autostart
<1>1. /\ o.status \in Statuses /\ o.wings \in WingsStates
      /\ o.suspended \in BOOLEAN /\ o.maintenance \in BOOLEAN
      /\ o.transferring \in BOOLEAN /\ o.reachable \in BOOLEAN
      /\ o.enabled \in BOOLEAN /\ o.all \in BOOLEAN /\ o.serverOut \in BOOLEAN
      /\ o.eggOut \in BOOLEAN /\ o.primary \in BOOLEAN /\ o.autostart \in BOOLEAN
  BY DEF Observations
<1> QED
  BY <1>1
  DEF WakeVerdict, InSnapshot, IsExcluded, UnavailableReason, ResolveState,
      Statuses, WingsStates, PowerStates

-----------------------------------------------------------------------------
(* Where connections go. *)


\* The entry that is found is the first one that matches.
LEMMA LookupFacts ==
    ASSUME NEW sn, Len(sn) \in Nat, NEW d
    PROVE  /\ Lookup(sn, d) = 0 =>
                  \A j \in 1..Len(sn) : ~AllocationMatches(d, sn[j])
           /\ Lookup(sn, d) # 0 =>
                  /\ Lookup(sn, d) \in 1..Len(sn)
                  /\ AllocationMatches(d, sn[Lookup(sn, d)])
                  /\ \A j \in 1..Len(sn) :
                        AllocationMatches(d, sn[j]) => Lookup(sn, d) <= j
<1> DEFINE found == {i \in 1..Len(sn) : AllocationMatches(d, sn[i])}
<1>1. found \in SUBSET Nat /\ 0 \notin found
  OBVIOUS
<1>2. found # {} => Min(found) \in found /\ \A n \in found : Min(found) <= n
  BY <1>1, MinProperties
<1>3. Lookup(sn, d) = IF found = {} THEN 0 ELSE Min(found)
  BY DEF Lookup
<1> QED
  BY <1>1, <1>2, <1>3

\* In every snapshot without duplicates a connection that is redirected is
\* answered for the entry whose rule redirected it, unless a wildcard is about.
LEMMA AnswerFacts ==
    ASSUME NEW sn, Len(sn) \in Nat, Distinct(sn), NEW d, Redirected(sn, d)
    PROVE  /\ Lookup(sn, d) # 0
           /\ \/ /\ Lookup(sn, d) \in DesiredEntries(sn)
                 /\ RuleRedirects(sn[Lookup(sn, d)], d)
              \/ \E j \in 1..Len(sn) \ {Lookup(sn, d)} :
                    /\ sn[j].port = d.port
                    /\ Unspecified(sn[Lookup(sn, d)].ip) \/ Unspecified(sn[j].ip)
<1> DEFINE i == Lookup(sn, d)
<1>1. PICK j \in DesiredEntries(sn) : RuleRedirects(sn[j], d)
  BY DEF Redirected
<1>2. j \in 1..Len(sn) /\ AllocationMatches(d, sn[j]) /\ sn[j].port = d.port
  BY <1>1 DEF DesiredEntries, RuleRedirects, AllocationMatches
<1>3. i # 0 /\ i \in 1..Len(sn) /\ AllocationMatches(d, sn[i])
  BY <1>2, LookupFacts
<1>4. CASE i = j
  BY <1>1, <1>3, <1>4
<1>5. CASE i # j /\ (Unspecified(sn[i].ip) \/ Unspecified(sn[j].ip))
  BY <1>2, <1>3, <1>5
<1>6. CASE i # j /\ ~Unspecified(sn[i].ip) /\ ~Unspecified(sn[j].ip)
  <2>1. sn[i].ip = sn[j].ip /\ sn[i].port = sn[j].port
    BY <1>1, <1>3, <1>6 DEF RuleRedirects, AllocationMatches
  <2> QED
    BY <1>2, <1>3, <1>6, <2>1 DEF Distinct
<1> QED
  BY <1>4, <1>5, <1>6

\* In every snapshot without duplicates only the wildcard of its family on its
\* port, being down, takes connections from a server that runs.
LEMMA RunningFacts ==
    ASSUME NEW sn, Len(sn) \in Nat, Distinct(sn), NEW i \in 1..Len(sn),
           \A j \in 1..Len(sn) : sn[j].ip = [family |-> sn[j].ip.family,
                                             host |-> sn[j].ip.host],
           sn[i].running, ~Unspecified(sn[i].ip),
           Redirected(sn, [ip |-> sn[i].ip, port |-> sn[i].port])
    PROVE  \E j \in DesiredEntries(sn) :
              /\ sn[j].ip = [family |-> sn[i].ip.family, host |-> "any"]
              /\ sn[j].port = sn[i].port
<1>1. PICK j \in DesiredEntries(sn) :
             RuleRedirects(sn[j], [ip |-> sn[i].ip, port |-> sn[i].port])
  BY DEF Redirected
<1>2. /\ j \in 1..Len(sn) /\ ~sn[j].running
      /\ sn[j].port = sn[i].port /\ sn[j].ip.family = sn[i].ip.family
      /\ Unspecified(sn[j].ip) \/ sn[j].ip = sn[i].ip
  BY <1>1 DEF DesiredEntries, RuleRedirects
<1>3. sn[j].ip # sn[i].ip
  BY <1>2 DEF Distinct
<1>4. sn[j].ip.host = "any"
  BY <1>2, <1>3 DEF Unspecified
<1>5. sn[j].ip = [family |-> sn[j].ip.family, host |-> sn[j].ip.host]
  BY <1>2
<1>6. sn[j].ip = [family |-> sn[i].ip.family, host |-> "any"]
  BY <1>2, <1>4, <1>5
<1> QED
  BY <1>2, <1>6

-----------------------------------------------------------------------------
(* Which description is shown. *)

\* Division leaves a remainder.
LEMMA DivisionFacts ==
    ASSUME NEW a \in Nat, NEW b \in Nat \ {0}
    PROVE  /\ a \div b \in Nat /\ a % b \in 0..(b - 1)
           /\ a = b * (a \div b) + (a % b)
OBVIOUS

\* And there is only one way to divide.
LEMMA DivisionUnique ==
    ASSUME NEW a \in Nat, NEW b \in Nat \ {0}, NEW q \in Nat, NEW r \in Nat,
           a = b * q + r, r < b
    PROVE  a \div b = q /\ a % b = r
OBVIOUS

\* A number of whole intervals later the quotient is that much larger.
LEMMA DivisionSteps ==
    ASSUME NEW a \in Nat, NEW b \in Nat \ {0}, NEW k \in Nat
    PROVE  (a + b * k) \div b = a \div b + k /\ (a + b * k) % b = a % b
<1>1. /\ a \div b \in Nat /\ a % b \in 0..(b - 1)
      /\ a = b * (a \div b) + (a % b)
  BY DivisionFacts
<1> DEFINE q == a \div b
           r == a % b
<1> HIDE DEF q, r
<1>2. a + b * k = b * (q + k) + r /\ r < b /\ q \in Nat /\ r \in Nat
  BY <1>1 DEF q, r
<1>3. a + b * k \in Nat /\ q + k \in Nat
  BY <1>2
<1> QED
  BY <1>2, <1>3, DivisionUnique DEF q, r

\* The quotient grows by one at the end of an interval and only there.
LEMMA DivisionNext ==
    ASSUME NEW a \in Nat, NEW b \in Nat \ {0}
    PROVE  (a + 1) \div b = IF (a + 1) % b = 0 THEN a \div b + 1 ELSE a \div b
<1> DEFINE q == a \div b
           r == a % b
<1>1. q \in Nat /\ r \in 0..(b - 1) /\ a = b * q + r
  BY DivisionFacts
<1> HIDE DEF q, r
<1>2. CASE r = b - 1
  <2>1. a + 1 = b * (q + 1) + 0
    BY <1>1, <1>2
  <2>2. (a + 1) \div b = q + 1 /\ (a + 1) % b = 0
    BY <1>1, <2>1, DivisionUnique
  <2> QED
    BY <2>2 DEF q
<1>3. CASE r # b - 1
  <2>1. a + 1 = b * q + (r + 1) /\ r + 1 \in Nat \ {0} /\ r + 1 < b
    BY <1>1, <1>3
  <2>2. (a + 1) \div b = q /\ (a + 1) % b # 0
    BY <1>1, <2>1, DivisionUnique
  <2> QED
    BY <2>2 DEF q
<1> QED
  BY <1>2, <1>3

\* Successive quotients leave different remainders, unless there is only one.
LEMMA RemainderNext ==
    ASSUME NEW a \in Nat, NEW c \in Nat \ {0}
    PROVE  (a + 1) % c # a % c <=> c # 1
<1> DEFINE q == a \div c
           r == a % c
<1>1. q \in Nat /\ r \in 0..(c - 1) /\ a = c * q + r
  BY DivisionFacts
<1> HIDE DEF q, r
<1>2. CASE r = c - 1
  <2>1. a + 1 = c * (q + 1) + 0
    BY <1>1, <1>2
  <2>2. (a + 1) % c = 0
    BY <1>1, <2>1, DivisionUnique
  <2> QED
    BY <1>1, <1>2, <2>2 DEF r
<1>3. CASE r # c - 1
  <2>1. a + 1 = c * q + (r + 1) /\ r + 1 \in Nat /\ r + 1 < c
    BY <1>1, <1>3
  <2>2. (a + 1) % c = r + 1
    BY <1>1, <2>1, DivisionUnique
  <2> QED
    BY <1>1, <1>3, <2>2 DEF r
<1> QED
  BY <1>2, <1>3

\* In every round of as many intervals as there are descriptions, wherever it
\* begins, each description is shown ...
LEMMA RoundShowsAll ==
    ASSUME NEW I \in Nat \ {0}, NEW c \in Nat \ {0}, NEW start \in Nat
    PROVE  {(t \div I) % c : t \in start..(start + c * I - 1)} = 0..(c - 1)
<1> DEFINE round == start..(start + c * I - 1)
           q == start \div I
           m == q % c
<1>1. q \in Nat
  BY DivisionFacts
<1>2. m \in 0..(c - 1) /\ q = c * (q \div c) + m /\ q \div c \in Nat
  BY <1>1, DivisionFacts
<1>3. ASSUME NEW t \in round PROVE (t \div I) % c \in 0..(c - 1)
  <2>1. t \in Nat /\ t \div I \in Nat
    BY <1>3, DivisionFacts
  <2> QED
    BY <2>1, DivisionFacts
<1>4. ASSUME NEW v \in 0..(c - 1)
      PROVE  \E t \in round : v = (t \div I) % c
  <2> DEFINE d == q \div c
  <2> HIDE DEF q, m, d
  <2>1. PICK k \in 0..(c - 1) : v = (q + k) % c
    <3>1. CASE v >= m
      <4>1. v - m \in 0..(c - 1) /\ q + (v - m) = c * d + v /\ d \in Nat
        BY <1>2, <3>1 DEF d
      <4>2. (q + (v - m)) % c = v
        BY <1>1, <1>2, <4>1, DivisionUnique
      <4> QED
        BY <4>1, <4>2
    <3>2. CASE v < m
      <4>1. v - m + c \in 0..(c - 1) /\ q + (v - m + c) = c * (d + 1) + v /\ d \in Nat
        BY <1>2, <3>2 DEF d
      <4>2. d + 1 \in Nat /\ q + (v - m + c) \in Nat /\ v \in Nat /\ v < c
        BY <1>1, <4>1
      <4>3. (q + (v - m + c)) % c = v
        BY <4>1, <4>2, DivisionUnique
      <4> QED
        BY <4>1, <4>3
    <3> QED
      BY <1>2, <3>1, <3>2
  <2>2. (start + I * k) \div I = q + k
    <3>1. k \in Nat
      OBVIOUS
    <3> QED
      BY <3>1, DivisionSteps DEF q
  <2>3. start + I * k \in round
    <3>1. I * k \in Nat /\ I * k <= I * (c - 1) /\ I * (c - 1) = c * I - I
      OBVIOUS
    <3> QED
      BY <3>1
  <2> QED
    BY <2>1, <2>2, <2>3
<1> QED
  BY <1>3, <1>4

\* ... and changes as often as there are intervals in it, so none comes back.
LEMMA RoundChanges ==
    ASSUME NEW I \in Nat \ {0}, NEW c \in Nat \ {0}, NEW start \in Nat
    PROVE  Cardinality({t \in start..(start + c * I - 1) :
                            ((t + 1) \div I) % c # (t \div I) % c})
               = IF c = 1 THEN 0 ELSE c
<1> DEFINE round == start..(start + c * I - 1)
           changes == {t \in round : ((t + 1) \div I) % c # (t \div I) % c}
           q == start \div I
           r == start % I
<1>1. \A t \in round : t \in Nat /\ t \div I \in Nat
  BY DivisionFacts
<1>2. ASSUME NEW t \in round
      PROVE  ((t + 1) \div I) % c # (t \div I) % c <=> (t + 1) % I = 0 /\ c # 1
  <2>1. CASE (t + 1) % I = 0
    <3>1. (t + 1) \div I = t \div I + 1
      BY <1>1, <2>1, DivisionNext
    <3> QED
      BY <1>1, <2>1, <3>1, RemainderNext
  <2>2. CASE (t + 1) % I # 0
    BY <1>1, <2>2, DivisionNext
  <2> QED
    BY <2>1, <2>2
<1>3. CASE c = 1
  <2>1. changes = {}
    BY <1>2, <1>3
  <2> QED
    BY <1>3, <2>1, FS_EmptySet
<1>4. CASE c # 1
  <2>1. changes = {t \in round : (t + 1) % I = 0}
    BY <1>2, <1>4
  <2> DEFINE end == [k \in 1..c |-> I * (q + k) - 1]
  <2>2. q \in Nat /\ r \in 0..(I - 1) /\ start = I * q + r
    BY DivisionFacts
  <2> HIDE DEF q, r, changes
  <2>3. ASSUME NEW k \in 1..c PROVE end[k] \in changes
    <3>1. /\ I * (q + k) = I * q + I * k /\ I <= I * k /\ I * k <= c * I
          /\ I * q \in Nat
      BY <2>2
    <3>2. end[k] \in round
      BY <2>2, <3>1
    <3>3. I * (q + k) \in Nat /\ I * (q + k) = I * (q + k) + 0
      BY <2>2, <3>1
    <3>4. (I * (q + k)) % I = 0
      BY <2>2, <3>3, DivisionUnique
    <3>5. end[k] + 1 = I * (q + k)
      BY <2>2, <3>3
    <3> QED
      BY <2>1, <3>2, <3>4, <3>5
  <2>4. ASSUME NEW k \in 1..c, NEW j \in 1..c, end[k] = end[j] PROVE k = j
    <3>1. I * (q + k) = I * (q + j)
      BY <2>2, <2>4
    <3> QED
      BY <2>2, <3>1
  <2>5. ASSUME NEW t \in changes PROVE \E k \in 1..c : end[k] = t
    <3> DEFINE n == (t + 1) \div I
    <3>1. t \in round /\ (t + 1) % I = 0 /\ t + 1 \in Nat
      BY <2>1
    <3>2. n \in Nat /\ t + 1 = I * n + 0
      BY <3>1, DivisionFacts
    <3> HIDE DEF n
    <3>3. n > q
      <4>1. I * n > I * q
        BY <2>2, <3>1, <3>2
      <4> QED
        BY <2>2, <3>2, <4>1
    <3>4. n < q + 1 + c
      <4>1. I * n < I * (q + 1 + c)
        BY <2>2, <3>1, <3>2
      <4> QED
        BY <2>2, <3>2, <4>1
    <3>5. n - q \in 1..c /\ end[n - q] = I * n - 1
      BY <2>2, <3>2, <3>3, <3>4
    <3> QED
      BY <3>1, <3>2, <3>5
  <2>6. end \in Bijection(1..c, changes)
    <3>1. end \in [1..c -> changes]
      BY <2>3
    <3> QED
      BY <2>4, <2>5, <3>1 DEF Bijection, Injection, Surjection, IsInjective
  <2>7. Cardinality(changes) = c
    BY <2>6, FS_CountingElements DEF ExistsBijection
  <2> QED
    BY <1>4, <2>7 DEF changes
<1> QED
  BY <1>3, <1>4

\* For every settings that the panel accepts, every state and every number of
\* descriptions: the presentation is the state's own, and its descriptions take
\* turns, at any interval.
THEOREM DescriptionsTakeTurns ==
    ASSUME NEW s, Validate(s),
           \A name \in StateNames : s.states[name].descriptions \in Int,
           NEW st \in States, NEW stale \in BOOLEAN
    PROVE  LET told  == ShownState(StaleState(st, stale))
               count == s.states[told].descriptions
           IN  /\ SelectedState(s, told) = told
               /\ \A start \in Nat :
                   LET shown(t) == Rotation(s, count, t)
                       round    == start..(start + count * s.interval - 1)
                   IN  /\ {shown(t) : t \in round} = 0..(count - 1)
                       /\ Cardinality({t \in round : shown(t + 1) # shown(t)})
                              = IF count = 1 THEN 0 ELSE count
<1> DEFINE told  == ShownState(StaleState(st, stale))
           count == s.states[told].descriptions
           I     == s.interval
<1>1. told \in StateNames
  BY DEF ShownState, StaleState, StateNames, States, AdminStates, PowerStates
<1> HIDE DEF told
<1>2. /\ told \in DOMAIN s.states /\ I \in Nat \ {0} /\ count \in Nat \ {0}
  <2>1. told \in DOMAIN s.states /\ count > 0
    BY <1>1, SMTT(60) DEF Validate
  <2>2. I \in 1..3600
    BY SMTT(60) DEF Validate
  <2>3. count \in Int
    BY <1>1
  <2> HIDE DEF count, I
  <2> QED
    BY <2>1, <2>2, <2>3
<1>3. SelectedState(s, told) = told
  BY <1>2 DEF SelectedState
<1>4. ASSUME NEW start \in Nat
      PROVE  LET shown(t) == Rotation(s, count, t)
                 round    == start..(start + count * s.interval - 1)
             IN  /\ {shown(t) : t \in round} = 0..(count - 1)
                 /\ Cardinality({t \in round : shown(t + 1) # shown(t)})
                        = IF count = 1 THEN 0 ELSE count
  <2> DEFINE round == start..(start + count * I - 1)
  <2>1. \A t : Rotation(s, count, t) = (t \div I) % count
    BY <1>2 DEF Rotation, Larger
  <2>2. {Rotation(s, count, t) : t \in round} = {(t \div I) % count : t \in round}
    BY <2>1
  <2>3. {t \in round : Rotation(s, count, t + 1) # Rotation(s, count, t)}
            = {t \in round : ((t + 1) \div I) % count # (t \div I) % count}
    BY <2>1
  <2> HIDE DEF count, I
  <2>4. {(t \div I) % count : t \in round} = 0..(count - 1)
    BY <1>2, RoundShowsAll
  <2>5. Cardinality({t \in round : ((t + 1) \div I) % count # (t \div I) % count})
            = IF count = 1 THEN 0 ELSE count
    BY <1>2, RoundChanges
  <2> QED
    BY <2>2, <2>3, <2>4, <2>5 DEF I, count
<1> QED
  BY <1>3, <1>4 DEF told

-----------------------------------------------------------------------------
(* Texts. *)

\* For a text of any length: codes are understood once, and nothing else
\* changes.
LEMMA NormalizeFacts ==
    ASSUME NEW text \in Seq(Characters)
    PROVE  /\ Normalize(text) \in Seq(Characters)
           /\ Len(Normalize(text)) = Len(text)
           /\ \A i \in 1..Len(text) : ~CodeAt(Normalize(text), i)
           /\ Normalize(Normalize(text)) = Normalize(text)
<1> DEFINE n == Normalize(text)
<1>0. Len(text) \in Nat /\ \A i \in 1..Len(text) : text[i] \in Characters
  OBVIOUS
<1>1. n \in [1..Len(text) -> Characters]
  BY <1>0 DEF Normalize, Characters
<1>2. n \in Seq(Characters) /\ Len(n) = Len(text)
  BY <1>0, <1>1
<1>3. ASSUME NEW i \in 1..Len(text), CodeAt(n, i) PROVE FALSE
  <2>1. /\ i \in 1..(Len(text) - 1) /\ n[i] = "amp"
        /\ n[i + 1] \in {"code", "CODE"} /\ i + 1 \in 1..Len(text)
    BY <1>0, <1>2, <1>3 DEF CodeAt
  <2>2. text[i] = "amp" /\ ~CodeAt(text, i)
    BY <2>1 DEF Normalize
  <2>3. n[i + 1] = IF CodeAt(text, i + 1) THEN "section" ELSE text[i + 1]
    BY <1>0, <2>1, <2>2 DEF Normalize
  <2> QED
    BY <2>1, <2>2, <2>3 DEF CodeAt
<1>4. \A i : ~CodeAt(n, i)
  BY <1>2, <1>3 DEF CodeAt
<1>5. Normalize(n) = [i \in 1..Len(text) |-> n[i]]
  BY <1>2, <1>4 DEF Normalize
<1> HIDE DEF n
<1>6. Normalize(n) = n
  BY <1>1, <1>5
<1> QED
  BY <1>2, <1>4, <1>6 DEF n

\* What becomes of each character.
LEMMA NormalizeAt ==
    ASSUME NEW text \in Seq(Characters), NEW i \in 1..Len(text)
    PROVE  /\ \/ Normalize(text)[i] = text[i]
              \/ /\ text[i] = "amp" /\ Normalize(text)[i] = "section"
                 /\ Normalize(text)[i + 1] = "code"
              \/ /\ text[i] = "CODE" /\ Normalize(text)[i] = "code"
                 /\ Normalize(text)[i - 1] = "section"
           /\ text[i] = "amp" /\ i < Len(text) /\ text[i + 1] \in {"code", "CODE"} =>
                  /\ Normalize(text)[i] = "section"
                  /\ Normalize(text)[i + 1] = "code"
<1> DEFINE n == Normalize(text)
<1>0. Len(text) \in Nat
  OBVIOUS
<1>1. n[i] = IF CodeAt(text, i) THEN "section"
             ELSE IF CodeAt(text, i - 1) THEN "code" ELSE text[i]
  BY DEF Normalize
<1>2. ASSUME CodeAt(text, i)
      PROVE  text[i] = "amp" /\ n[i] = "section" /\ n[i + 1] = "code"
  <2>1. i + 1 \in 1..Len(text) /\ text[i] = "amp" /\ text[i + 1] # "amp"
    BY <1>0, <1>2 DEF CodeAt
  <2>2. ~CodeAt(text, i + 1) /\ (i + 1) - 1 = i
    BY <1>0, <2>1 DEF CodeAt
  <2>3. n[i + 1] = IF CodeAt(text, i + 1) THEN "section"
                   ELSE IF CodeAt(text, (i + 1) - 1) THEN "code" ELSE text[i + 1]
    BY <2>1 DEF Normalize
  <2> QED
    BY <1>1, <1>2, <2>1, <2>2, <2>3
<1>3. ASSUME ~CodeAt(text, i), CodeAt(text, i - 1)
      PROVE  /\ text[i] \in {"code", "CODE"} /\ n[i] = "code"
             /\ n[i - 1] = "section"
  <2>1. i - 1 \in 1..Len(text) /\ (i - 1) + 1 = i
    BY <1>0, <1>3 DEF CodeAt
  <2>2. n[i - 1] = "section"
    BY <1>3, <2>1 DEF Normalize
  <2> QED
    BY <1>1, <1>3, <2>1, <2>2 DEF CodeAt
<1>4. text[i] = "amp" /\ i < Len(text) /\ text[i + 1] \in {"code", "CODE"} =>
          CodeAt(text, i)
  BY <1>0 DEF CodeAt
<1> QED
  BY <1>1, <1>2, <1>3, <1>4

\* The end of a line, by what there is before it and at it.
LEMMA LineEndFacts ==
    ASSUME NEW text \in Seq(Characters), NEW i \in 1..(Len(text) + 1)
    PROVE  /\ LineEnd(text, i) \in i..(Len(text) + 1)
           /\ LineEnd(text, i) <= Len(text) => text[LineEnd(text, i)] = "newline"
           /\ \A j \in i..(LineEnd(text, i) - 1) : text[j] # "newline"
           /\ \A e \in i..(Len(text) + 1) :
                 /\ e <= Len(text) => text[e] = "newline"
                 /\ \A j \in i..(e - 1) : text[j] # "newline"
                 => e = LineEnd(text, i)
<1> DEFINE S == {j \in i..Len(text) : text[j] = "newline"} \cup {Len(text) + 1}
           m == Min(S)
<1>0. Len(text) \in Nat
  OBVIOUS
<1>1. S \in SUBSET Nat /\ S # {}
  BY <1>0
<1>2. /\ m \in S /\ \A n \in S : m <= n
      /\ \A x \in S : (\A n \in S : x <= n) => x = m
  BY <1>1, MinProperties
<1>3. m = LineEnd(text, i)
  BY DEF LineEnd
<1> HIDE DEF m
<1>4. /\ m \in i..(Len(text) + 1) /\ m \in Nat
      /\ m <= Len(text) => text[m] = "newline"
  BY <1>0, <1>2
<1>5. ASSUME NEW j \in i..(m - 1) PROVE text[j] # "newline"
  <2>1. j \in i..Len(text) /\ j < m
    BY <1>0, <1>4
  <2> QED
    BY <1>2, <1>4, <2>1
<1>6. ASSUME NEW e \in i..(Len(text) + 1), e <= Len(text) => text[e] = "newline",
             \A j \in i..(e - 1) : text[j] # "newline"
      PROVE  e = m
  <2>1. e \in S
    BY <1>0, <1>6
  <2>2. ASSUME NEW n \in S PROVE e <= n
    BY <1>0, <1>6
  <2> QED
    BY <1>2, <2>1, <2>2
<1> QED
  BY <1>3, <1>4, <1>5, <1>6

\* The text whose first two lines, that end at f and at e, have changed places.
Swapped(text, f, e) ==
    [j \in 1..Len(text) |-> IF j < e - f THEN text[f + j]
                            ELSE IF j = e - f THEN "newline"
                            ELSE IF j < e THEN text[j - (e - f)] ELSE text[j]]

\* It is put together from its parts.
LEMMA SwapParts ==
    ASSUME NEW text \in Seq(Characters), NEW f \in 1..Len(text),
           NEW e \in (f + 1)..(Len(text) + 1)
    PROVE  SubSeq(text, f + 1, e - 1) \o <<"newline">> \o SubSeq(text, 1, f - 1)
               \o SubSeq(text, e, Len(text)) = Swapped(text, f, e)
<1> DEFINE n == Len(text)
           A == SubSeq(text, f + 1, e - 1)
           B == <<"newline">>
           C == SubSeq(text, 1, f - 1)
           D == SubSeq(text, e, n)
<1>0. n \in Nat /\ \A i \in 1..n : text[i] \in Characters
  OBVIOUS
<1>1. /\ A \in Seq(Characters) /\ Len(A) = e - 1 - f
      /\ \A j \in 1..(e - 1 - f) : A[j] = text[f + j]
  BY <1>0, SubSeqProperties
<1>2. B \in Seq(Characters) /\ Len(B) = 1 /\ B[1] = "newline"
  BY DEF Characters
<1>3. /\ C \in Seq(Characters) /\ Len(C) = f - 1
      /\ \A j \in 1..(f - 1) : C[j] = text[j]
  BY <1>0, SubSeqProperties
<1>4. /\ D \in Seq(Characters) /\ Len(D) = n + 1 - e
      /\ \A j \in 1..(n + 1 - e) : D[j] = text[e + j - 1]
  BY <1>0, SubSeqProperties
<1> HIDE DEF A, B, C, D
<1> DEFINE AB == A \o B
           ABC == AB \o C
           u == ABC \o D
<1>5. /\ AB \in Seq(Characters) /\ Len(AB) = e - f
      /\ \A j \in 1..(e - f) :
            AB[j] = IF j <= e - 1 - f THEN A[j] ELSE B[j - (e - 1 - f)]
  <2>1. /\ AB \in Seq(Characters) /\ Len(AB) = Len(A) + Len(B)
        /\ \A j \in 1..(Len(A) + Len(B)) :
              AB[j] = IF j <= Len(A) THEN A[j] ELSE B[j - Len(A)]
    BY <1>1, <1>2, ConcatProperties
  <2>2. Len(A) = e - 1 - f /\ Len(B) = 1 /\ (e - 1 - f) + 1 = e - f
    BY <1>0, <1>1, <1>2
  <2> HIDE DEF AB
  <2> QED
    BY <2>1, <2>2
<1> HIDE DEF AB
<1>6. /\ ABC \in Seq(Characters) /\ Len(ABC) = e - 1
      /\ \A j \in 1..(e - 1) :
            ABC[j] = IF j <= e - f THEN AB[j] ELSE C[j - (e - f)]
  <2>1. /\ ABC \in Seq(Characters) /\ Len(ABC) = Len(AB) + Len(C)
        /\ \A j \in 1..(Len(AB) + Len(C)) :
              ABC[j] = IF j <= Len(AB) THEN AB[j] ELSE C[j - Len(AB)]
    <3>1. AB \in Seq(Characters) /\ C \in Seq(Characters)
      BY <1>3, <1>5
    <3> QED
      BY <3>1, ConcatProperties
  <2>2. Len(AB) = e - f /\ Len(C) = f - 1 /\ (e - f) + (f - 1) = e - 1
    BY <1>0, <1>3, <1>5
  <2> HIDE DEF ABC
  <2> QED
    BY <2>1, <2>2
<1> HIDE DEF ABC
<1>7. /\ u \in Seq(Characters) /\ Len(u) = n
      /\ \A j \in 1..n : u[j] = IF j <= e - 1 THEN ABC[j] ELSE D[j - (e - 1)]
  <2>1. /\ u \in Seq(Characters) /\ Len(u) = Len(ABC) + Len(D)
        /\ \A j \in 1..(Len(ABC) + Len(D)) :
              u[j] = IF j <= Len(ABC) THEN ABC[j] ELSE D[j - Len(ABC)]
    <3>1. ABC \in Seq(Characters) /\ D \in Seq(Characters)
      BY <1>4, <1>6
    <3> QED
      BY <3>1, ConcatProperties
  <2>2. Len(ABC) = e - 1 /\ Len(D) = n + 1 - e /\ (e - 1) + (n + 1 - e) = n
    BY <1>0, <1>4, <1>6
  <2> HIDE DEF u
  <2> QED
    BY <2>1, <2>2
<1> HIDE DEF u
<1>9. ASSUME NEW j \in 1..n PROVE u[j] = Swapped(text, f, e)[j]
  <2>0. /\ j \in Nat /\ f \in Nat /\ e \in Nat
        /\ 1 <= j /\ j <= n /\ 1 <= f /\ f < e /\ e <= n + 1
    BY <1>0
  <2>1. CASE j < e - f
    <3>1. j \in 1..(e - 1) /\ j \in 1..(e - f) /\ j \in 1..(e - 1 - f)
      BY <2>0, <2>1
    <3>2. u[j] = ABC[j] /\ ABC[j] = AB[j] /\ AB[j] = A[j] /\ A[j] = text[f + j]
      BY <1>1, <1>5, <1>6, <1>7, <3>1, SMTT(60)
    <3> QED
      BY <2>1, <3>2 DEF Swapped
  <2>2. CASE j = e - f
    <3>1. /\ j \in 1..(e - 1) /\ j \in 1..(e - f) /\ ~(j <= e - 1 - f)
          /\ j - (e - 1 - f) = 1 /\ ~(j < e - f)
      BY <2>0, <2>2
    <3>2. u[j] = ABC[j] /\ ABC[j] = AB[j]
      <4>1. j <= e - 1 /\ j <= e - f
        BY <2>0, <2>2
      <4> QED
        BY <1>6, <1>7, <3>1, <4>1
    <3>3. AB[j] = B[j - (e - 1 - f)]
      BY <1>5, <3>1
    <3> QED
      BY <1>2, <2>2, <3>1, <3>2, <3>3 DEF Swapped
  <2>3. CASE j > e - f /\ j < e
    <3>1. /\ j \in 1..(e - 1) /\ ~(j <= e - f) /\ ~(j < e - f) /\ j # e - f
          /\ j - (e - f) \in 1..(f - 1)
      BY <2>0, <2>3
    <3>2. u[j] = ABC[j] /\ ABC[j] = C[j - (e - f)]
      BY <1>6, <1>7, <3>1
    <3>3. C[j - (e - f)] = text[j - (e - f)]
      BY <1>3, <3>1
    <3> QED
      BY <2>3, <3>1, <3>2, <3>3 DEF Swapped
  <2>4. CASE j >= e
    <3>1. /\ ~(j <= e - 1) /\ ~(j < e - f) /\ j # e - f /\ ~(j < e)
          /\ j - (e - 1) \in 1..(n + 1 - e) /\ e + (j - (e - 1)) - 1 = j
      BY <2>0, <2>4
    <3>2. u[j] = D[j - (e - 1)]
      BY <1>7, <3>1
    <3>3. D[j - (e - 1)] = text[j]
      BY <1>4, <3>1
    <3> QED
      BY <3>1, <3>2, <3>3 DEF Swapped
  <2> QED
    BY <2>0, <2>1, <2>2, <2>3, <2>4
<1>10. u \in [1..n -> Characters]
  BY <1>0, <1>7
<1>11. u = [j \in 1..n |-> u[j]]
  BY <1>10
<1>12. Swapped(text, f, e) = [j \in 1..n |-> Swapped(text, f, e)[j]]
  BY DEF Swapped
<1> QED
  BY <1>9, <1>11, <1>12 DEF u, ABC, AB, A, B, C, D

\* A text with two lines at least is swapped where they end.
LEMMA SwapCases ==
    ASSUME NEW text \in Seq(Characters)
    PROVE  LET f == LineEnd(text, 1)
               e == LineEnd(text, f + 1)
           IN  \/ /\ f = Len(text) + 1
                  /\ SwapLines(text) = text
               \/ /\ f \in 1..Len(text) /\ e \in (f + 1)..(Len(text) + 1)
                  /\ SwapLines(text) = Swapped(text, f, e)
<1> DEFINE f == LineEnd(text, 1)
           e == LineEnd(text, f + 1)
<1>0. Len(text) \in Nat
  OBVIOUS
<1>1. f \in 1..(Len(text) + 1)
  BY <1>0, LineEndFacts
<1>2. CASE f > Len(text)
  <2>1. SwapLines(text) = text
    BY <1>2 DEF SwapLines
  <2> QED
    BY <1>0, <1>1, <1>2, <2>1
<1>3. CASE ~(f > Len(text))
  <2> HIDE DEF f
  <2>1. f \in 1..Len(text) /\ f + 1 \in 1..(Len(text) + 1)
    BY <1>0, <1>1, <1>3
  <2>2. e \in (f + 1)..(Len(text) + 1)
    BY <2>1, LineEndFacts
  <2> HIDE DEF e
  <2>3. SubSeq(text, f + 1, e - 1) \o <<"newline">> \o SubSeq(text, 1, f - 1)
            \o SubSeq(text, e, Len(text)) = Swapped(text, f, e)
    BY <2>1, <2>2, SwapParts
  <2>4. SwapLines(text) = Swapped(text, f, e)
    BY <1>3, <2>3, Zenon DEF SwapLines, f, e
  <2> QED
    BY <2>1, <2>2, <2>4 DEF f, e
<1> QED
  BY <1>2, <1>3

\* What is swapped keeps its length and has its lines end where the first of
\* them now does; swapping it back gives the text.
LEMMA SwapBack ==
    ASSUME NEW text \in Seq(Characters), NEW f \in 1..Len(text),
           NEW e \in (f + 1)..(Len(text) + 1),
           f = LineEnd(text, 1), e = LineEnd(text, f + 1)
    PROVE  /\ Swapped(text, f, e) \in Seq(Characters)
           /\ Len(Swapped(text, f, e)) = Len(text)
           /\ LineEnd(Swapped(text, f, e), 1) = e - f
           /\ LineEnd(Swapped(text, f, e), e - f + 1) = e
           /\ Swapped(Swapped(text, f, e), e - f, e) = text
<1> DEFINE n == Len(text)
           u == Swapped(text, f, e)
<1>0. /\ n \in Nat /\ f \in Nat /\ e \in Nat
      /\ 1 <= f /\ f <= n /\ f < e /\ e <= n + 1
      /\ \A i \in 1..n : text[i] \in Characters
  OBVIOUS
<1>1. /\ text[f] = "newline"
      /\ \A j \in 1..(f - 1) : text[j] # "newline"
      /\ e <= n => text[e] = "newline"
      /\ \A j \in (f + 1)..(e - 1) : text[j] # "newline"
  <2>1. f + 1 \in 1..(n + 1) /\ 1 \in 1..(n + 1)
    BY <1>0
  <2> QED
    BY <1>0, <2>1, LineEndFacts
<1>2. \A j \in 1..n : u[j] = IF j < e - f THEN text[f + j]
                             ELSE IF j = e - f THEN "newline"
                             ELSE IF j < e THEN text[j - (e - f)] ELSE text[j]
  BY DEF Swapped
<1>3. u \in [1..n -> Characters]
  <2>1. ASSUME NEW j \in 1..n PROVE u[j] \in Characters
    <3>1. j < e - f => text[f + j] \in Characters
      <4>1. j < e - f => f + j \in 1..n
        BY <1>0
      <4> QED
        BY <1>0, <4>1
    <3>2. j # e - f /\ ~(j < e - f) /\ j < e => text[j - (e - f)] \in Characters
      <4>1. j # e - f /\ ~(j < e - f) /\ j < e => j - (e - f) \in 1..n
        BY <1>0
      <4> QED
        BY <1>0, <4>1
    <3>3. "newline" \in Characters /\ text[j] \in Characters
      BY <1>0 DEF Characters
    <3> HIDE DEF u
    <3> QED
      BY <1>2, <3>1, <3>2, <3>3
  <2> QED
    BY <2>1 DEF Swapped
<1>4. u \in Seq(Characters) /\ Len(u) = n
  BY <1>0, <1>3
<1> HIDE DEF u
<1>5. LineEnd(u, 1) = e - f
  <2>1. e - f \in 1..(Len(u) + 1) /\ 1 \in 1..(Len(u) + 1)
    BY <1>0, <1>4
  <2>2. e - f <= Len(u) => u[e - f] = "newline"
    BY <1>0, <1>2, <1>4
  <2>3. ASSUME NEW j \in 1..(e - f - 1) PROVE u[j] # "newline"
    <3>1. j \in 1..n /\ j < e - f /\ f + j \in (f + 1)..(e - 1)
      BY <1>0, SMTT(60)
    <3> QED
      BY <1>1, <1>2, <3>1
  <2> QED
    BY <1>4, <2>1, <2>2, <2>3, LineEndFacts
<1>6. LineEnd(u, e - f + 1) = e
  <2>1. e - f + 1 \in 1..(Len(u) + 1) /\ e \in (e - f + 1)..(Len(u) + 1)
    BY <1>0, <1>4
  <2>2. e <= Len(u) => u[e] = "newline"
    BY <1>0, <1>1, <1>2, <1>4
  <2>3. ASSUME NEW j \in (e - f + 1)..(e - 1) PROVE u[j] # "newline"
    <3>1. /\ j \in 1..n /\ ~(j < e - f) /\ j # e - f /\ j < e
          /\ j - (e - f) \in 1..(f - 1)
      BY <1>0, SMTT(60)
    <3> QED
      BY <1>1, <1>2, <3>1
  <2> QED
    BY <1>4, <2>1, <2>2, <2>3, LineEndFacts
<1>7. ASSUME NEW j \in 1..n PROVE Swapped(u, e - f, e)[j] = text[j]
  <2>1. Swapped(u, e - f, e)[j] =
            IF j < e - (e - f) THEN u[(e - f) + j]
            ELSE IF j = e - (e - f) THEN "newline"
            ELSE IF j < e THEN u[j - (e - (e - f))] ELSE u[j]
    BY <1>4 DEF Swapped
  <2>2. e - (e - f) = f
    BY <1>0
  <2>3. CASE j < f
    <3>1. /\ (e - f) + j \in 1..n /\ ~((e - f) + j < e - f)
          /\ (e - f) + j # e - f /\ (e - f) + j < e
          /\ ((e - f) + j) - (e - f) = j
      BY <1>0, <2>3
    <3>2. u[(e - f) + j] = text[j]
      BY <1>2, <3>1
    <3> QED
      BY <2>1, <2>2, <2>3, <3>2
  <2>4. CASE j = f
    <3>1. ~(j < f) /\ text[j] = "newline"
      BY <1>0, <1>1, <2>4
    <3> QED
      BY <2>1, <2>2, <2>4, <3>1
  <2>5. CASE j > f /\ j < e
    <3>1. j - f \in 1..n /\ j - f < e - f /\ f + (j - f) = j
      BY <1>0, <2>5
    <3>2. u[j - f] = text[j]
      BY <1>2, <3>1
    <3> QED
      BY <1>0, <2>1, <2>2, <2>5, <3>2
  <2>6. CASE j >= e
    <3>1. ~(j < e - f) /\ j # e - f /\ ~(j < e) /\ ~(j < f) /\ j # f
      BY <1>0, <2>6
    <3>2. u[j] = text[j]
      BY <1>2, <3>1
    <3> QED
      BY <2>1, <2>2, <3>1, <3>2
  <2> QED
    BY <1>0, <2>3, <2>4, <2>5, <2>6
<1>8. Swapped(u, e - f, e) = [j \in 1..n |-> Swapped(u, e - f, e)[j]]
  BY <1>4 DEF Swapped
<1>9. text = [j \in 1..n |-> text[j]]
  OBVIOUS
<1>10. Swapped(u, e - f, e) = text
  BY <1>7, <1>8, <1>9
<1> QED
  BY <1>4, <1>5, <1>6, <1>10 DEF u

\* Two lines that change places twice are where they were.
LEMMA SwapTwice ==
    ASSUME NEW text \in Seq(Characters)
    PROVE  SwapLines(SwapLines(text)) = text
<1> DEFINE f == LineEnd(text, 1)
           e == LineEnd(text, f + 1)
           u == Swapped(text, f, e)
<1>0. Len(text) \in Nat
  OBVIOUS
<1>1. CASE f = Len(text) + 1 /\ SwapLines(text) = text
  BY <1>1
<1>2. CASE f \in 1..Len(text) /\ e \in (f + 1)..(Len(text) + 1) /\ SwapLines(text) = u
  <2> HIDE DEF f, e
  <2>1. /\ u \in Seq(Characters) /\ Len(u) = Len(text)
        /\ LineEnd(u, 1) = e - f /\ LineEnd(u, e - f + 1) = e
        /\ Swapped(u, e - f, e) = text
    BY <1>2, SwapBack DEF f, e
  <2> HIDE DEF u
  <2>2. \/ e - f = Len(u) + 1 /\ SwapLines(u) = u
        \/ SwapLines(u) = Swapped(u, e - f, e)
    BY <2>1, SwapCases
  <2>3. e - f # Len(u) + 1
    BY <1>0, <1>2, <2>1
  <2> QED
    BY <1>2, <2>1, <2>2, <2>3
<1> QED
  BY <1>1, <1>2, SwapCases

\* A code does not reach across a line's end.
LEMMA NoCode ==
    ASSUME NEW text, NEW i, text[i] = "newline" \/ text[i + 1] = "newline"
    PROVE  ~CodeAt(text, i)
BY DEF CodeAt

\* Understanding codes moves no line's end.
LEMMA NormalizeLines ==
    ASSUME NEW text \in Seq(Characters), NEW i \in 1..(Len(text) + 1)
    PROVE  LineEnd(Normalize(text), i) = LineEnd(text, i)
<1>1. Len(Normalize(text)) = Len(text) /\ Len(text) \in Nat
  BY NormalizeFacts
<1>2. ASSUME NEW j \in 1..Len(text)
      PROVE  Normalize(text)[j] = "newline" <=> text[j] = "newline"
  BY NormalizeAt
<1>3. {j \in i..Len(text) : Normalize(text)[j] = "newline"}
          = {j \in i..Len(text) : text[j] = "newline"}
  BY <1>1, <1>2
<1> QED
  BY <1>1, <1>3 DEF LineEnd

\* Where each character of a swapped text comes from, the newline included.
Origin(f, e, j) == IF j < e - f THEN f + j
                   ELSE IF j = e - f THEN f
                   ELSE IF j < e THEN j - (e - f) ELSE j

\* Codes are found where they came from.
LEMMA SwappedCodes ==
    ASSUME NEW text \in Seq(Characters), NEW f \in 1..Len(text),
           NEW e \in (f + 1)..(Len(text) + 1),
           f = LineEnd(text, 1), e = LineEnd(text, f + 1),
           NEW j \in 1..Len(text)
    PROVE  LET u == Swapped(text, f, e)
               g == Origin(f, e, j)
           IN  /\ g \in 1..Len(text)
               /\ u[j] = text[g]
               /\ CodeAt(u, j) <=> CodeAt(text, g)
               /\ CodeAt(u, j - 1) <=> CodeAt(text, g - 1)
<1> DEFINE n == Len(text)
           u == Swapped(text, f, e)
           g == Origin(f, e, j)
<1>0. /\ n \in Nat /\ f \in Nat /\ e \in Nat /\ j \in Nat
      /\ 1 <= f /\ f <= n /\ f < e /\ e <= n + 1 /\ 1 <= j /\ j <= n
  OBVIOUS
<1>1. text[f] = "newline" /\ (e <= n => text[e] = "newline")
  <2>1. f + 1 \in 1..(n + 1) /\ 1 \in 1..(n + 1)
    BY <1>0
  <2> QED
    BY <1>0, <2>1, LineEndFacts
<1>2. \A i \in 1..n : u[i] = IF i < e - f THEN text[f + i]
                             ELSE IF i = e - f THEN "newline"
                             ELSE IF i < e THEN text[i - (e - f)] ELSE text[i]
  BY DEF Swapped
<1>3. Len(u) = n
  BY SwapBack
<1> HIDE DEF u
<1>4. e - f \in 1..n /\ u[e - f] = "newline" /\ (e <= n => u[e] = "newline")
  <2>1. e - f \in 1..n /\ ~(e < e - f) /\ e # e - f /\ ~(e < e)
    BY <1>0
  <2>2. u[e - f] = "newline"
    BY <1>2, <2>1
  <2>3. e <= n => e \in 1..n
    BY <1>0
  <2> QED
    BY <1>1, <1>2, <2>1, <2>2, <2>3
<1>5. /\ ~CodeAt(u, e - f) /\ ~CodeAt(u, (e - f) - 1) /\ ~CodeAt(u, e - 1)
      /\ ~CodeAt(text, f) /\ ~CodeAt(text, f - 1) /\ ~CodeAt(text, e - 1)
  <2>1. ((e - f) - 1) + 1 = e - f /\ (f - 1) + 1 = f /\ (e - 1) + 1 = e
    BY <1>0
  <2>2. ~(e <= n) => e - 1 \notin 1..(n - 1)
    BY <1>0
  <2>3. ~CodeAt(u, e - 1) /\ ~CodeAt(text, e - 1)
    <3>1. CASE e <= n
      BY <1>1, <1>4, <2>1, <3>1, NoCode
    <3>2. CASE ~(e <= n)
      BY <1>3, <2>2, <3>2 DEF CodeAt
    <3> QED
      BY <3>1, <3>2
  <2> QED
    BY <1>1, <1>4, <2>1, <2>3, NoCode
<1>6. ~CodeAt(u, 0) /\ ~CodeAt(text, 0)
  BY DEF CodeAt
<1>7. CASE j < e - f
  <2>1. g = f + j /\ g \in 1..n /\ g - 1 = f + (j - 1) /\ u[j] = text[g]
    <3>1. g = f + j /\ g \in 1..n /\ g - 1 = f + (j - 1)
      BY <1>0, <1>7 DEF Origin
    <3> HIDE DEF g
    <3> QED
      BY <1>2, <1>7, <3>1
  <2>2. ASSUME NEW i \in 1..(e - f - 1)
        PROVE  CodeAt(u, i) <=> CodeAt(text, f + i)
    <3>1. CASE i = e - f - 1
      <4>1. i = (e - f) - 1 /\ f + i = e - 1
        BY <1>0, <3>1
      <4> QED
        BY <1>5, <4>1
    <3>2. CASE i # e - f - 1
      <4>1. /\ i \in 1..n /\ i + 1 \in 1..n /\ i < e - f /\ i + 1 < e - f
            /\ i \in 1..(n - 1) /\ f + i \in 1..(n - 1) /\ f + (i + 1) = (f + i) + 1
        BY <1>0, <3>2, SMTT(60)
      <4>2. u[i] = text[f + i] /\ u[i + 1] = text[(f + i) + 1]
        BY <1>2, <4>1
      <4> QED
        BY <1>3, <4>1, <4>2 DEF CodeAt
    <3> QED
      BY <3>1, <3>2
  <2>3. CodeAt(u, j) <=> CodeAt(text, g)
    BY <1>0, <1>7, <2>1, <2>2
  <2>4. CodeAt(u, j - 1) <=> CodeAt(text, g - 1)
    <3>1. CASE j = 1
      <4>1. j - 1 = 0 /\ g - 1 = f
        BY <1>0, <2>1, <3>1
      <4> QED
        BY <1>5, <1>6, <4>1
    <3>2. CASE j # 1
      <4>1. j - 1 \in 1..(e - f - 1)
        BY <1>0, <1>7, <3>2
      <4> QED
        BY <2>1, <2>2, <4>1
    <3> QED
      BY <3>1, <3>2
  <2> QED
    BY <2>1, <2>3, <2>4 DEF u
<1>8. CASE j = e - f
  <2>1. g = f /\ u[j] = text[g]
    BY <1>0, <1>1, <1>4, <1>8 DEF Origin
  <2> QED
    BY <1>0, <1>5, <1>8, <2>1 DEF u
<1>9. CASE j > e - f /\ j < e
  <2>1. g = j - (e - f) /\ g \in 1..n /\ u[j] = text[g]
    BY <1>0, <1>2, <1>9 DEF Origin
  <2>2. ASSUME NEW i \in Nat, e - f < i, i < e
        PROVE  CodeAt(u, i) <=> CodeAt(text, i - (e - f))
    <3>1. CASE i = e - 1
      <4>1. i - (e - f) = f - 1
        BY <1>0, <3>1
      <4> QED
        BY <1>5, <3>1, <4>1
    <3>2. CASE i # e - 1
      <4>1. /\ i \in 1..n /\ i + 1 \in 1..n /\ ~(i < e - f) /\ i # e - f /\ i < e
            /\ ~(i + 1 < e - f) /\ i + 1 # e - f /\ i + 1 < e
            /\ i \in 1..(n - 1) /\ i - (e - f) \in 1..(n - 1)
            /\ (i + 1) - (e - f) = (i - (e - f)) + 1
        <5>1. i + 1 < e /\ 1 <= i - (e - f) /\ i - (e - f) < f
          BY <1>0, <2>2, <3>2, SMTT(60)
        <5>2. i \in 1..n /\ i + 1 \in 1..n /\ i \in 1..(n - 1)
          BY <1>0, <2>2, <5>1, SMTT(60)
        <5>3. i - (e - f) \in 1..(n - 1) /\ (i + 1) - (e - f) = (i - (e - f)) + 1
          <6>1. /\ i - (e - f) \in Int /\ n - 1 \in Int
                /\ i - (e - f) <= n - 1
            BY <1>0, <2>2, <5>1, SMTT(60)
          <6>2. (i + 1) - (e - f) = (i - (e - f)) + 1
            BY <1>0
          <6> QED
            BY <5>1, <6>1, <6>2
        <5>4. ~(i < e - f) /\ i # e - f /\ ~(i + 1 < e - f) /\ i + 1 # e - f
          BY <1>0, <2>2, <5>1, SMTT(60)
        <5> QED
          BY <2>2, <5>1, <5>2, <5>3, <5>4
      <4>2. /\ u[i] = text[i - (e - f)]
            /\ u[i + 1] = text[(i - (e - f)) + 1]
        BY <1>2, <4>1
      <4> QED
        BY <1>3, <4>1, <4>2 DEF CodeAt
    <3> QED
      BY <3>1, <3>2
  <2>3. CodeAt(u, j) <=> CodeAt(text, g)
    <3>1. j \in Nat /\ e - f < j /\ j < e
      BY <1>0, <1>9
    <3> QED
      BY <2>1, <2>2, <3>1
  <2>4. CodeAt(u, j - 1) <=> CodeAt(text, g - 1)
    <3>1. CASE j = e - f + 1
      <4>1. j - 1 = e - f /\ g - 1 = 0
        BY <1>0, <2>1, <3>1
      <4> QED
        BY <1>5, <1>6, <4>1
    <3>2. CASE j # e - f + 1
      <4>1. /\ j - 1 \in Nat /\ e - f < j - 1 /\ j - 1 < e
            /\ (j - 1) - (e - f) = g - 1
        BY <1>0, <1>9, <2>1, <3>2, SMTT(60)
      <4> QED
        BY <2>2, <4>1
    <3> QED
      BY <3>1, <3>2
  <2> QED
    BY <2>1, <2>3, <2>4 DEF u
<1>10. CASE j >= e
  <2>1. /\ g = j /\ g \in 1..n
    BY <1>0, <1>10 DEF Origin
  <2>2. ASSUME NEW i \in e..n PROVE u[i] = text[i]
    <3>1. i \in 1..n /\ ~(i < e - f) /\ i # e - f /\ ~(i < e)
      BY <1>0
    <3> QED
      BY <1>2, <3>1
  <2>3. ASSUME NEW i \in e..n PROVE CodeAt(u, i) <=> CodeAt(text, i)
    <3>1. i \in 1..(n - 1) => i + 1 \in e..n
      BY <1>0
    <3> QED
      BY <1>3, <2>2, <3>1 DEF CodeAt
  <2>4. CodeAt(u, j - 1) <=> CodeAt(text, g - 1)
    <3>1. CASE j = e
      BY <1>5, <2>1, <3>1
    <3>2. CASE j # e
      <4>1. j - 1 \in e..n
        BY <1>0, <1>10, <3>2
      <4> QED
        BY <2>1, <2>3, <4>1
    <3> QED
      BY <3>1, <3>2
  <2> QED
    BY <1>0, <1>10, <2>1, <2>2, <2>3, <2>4 DEF u
<1> QED
  BY <1>0, <1>7, <1>8, <1>9, <1>10

\* Whether codes are understood before two lines change places, or after, makes
\* no difference, whatever the text: no code reaches across a line.
THEOREM SwapNormalized ==
    ASSUME NEW text \in Seq(Characters)
    PROVE  SwapLines(Normalize(text)) = Normalize(SwapLines(text))
<1> DEFINE m == Normalize(text)
           f == LineEnd(text, 1)
           e == LineEnd(text, f + 1)
           u == Swapped(text, f, e)
<1>0. Len(text) \in Nat /\ 1 \in 1..(Len(text) + 1)
  OBVIOUS
<1>1. m \in Seq(Characters) /\ Len(m) = Len(text)
  BY NormalizeFacts
<1>2. LineEnd(m, 1) = f
  BY <1>0, NormalizeLines
<1>3. CASE f = Len(text) + 1 /\ SwapLines(text) = text
  <2> HIDE DEF m, f
  <2>1. SwapLines(m) = m
    BY <1>0, <1>1, <1>2, <1>3, SwapCases
  <2> QED
    BY <1>3, <2>1 DEF m
<1>4. CASE f \in 1..Len(text) /\ e \in (f + 1)..(Len(text) + 1) /\ SwapLines(text) = u
  <2>1. f + 1 \in 1..(Len(text) + 1)
    BY <1>0, <1>4
  <2>2. LineEnd(m, f + 1) = e
    BY <2>1, NormalizeLines
  <2> HIDE DEF f, e, m, u
  <2>3. SwapLines(m) = Swapped(m, f, e)
    BY <1>0, <1>1, <1>2, <1>4, <2>2, SwapCases
  <2>4. Len(u) = Len(text)
    BY <1>4, SwapBack DEF f, e, u
  <2>5. ASSUME NEW j \in 1..Len(text) PROVE Swapped(m, f, e)[j] = Normalize(u)[j]
    <3> DEFINE g == Origin(f, e, j)
    <3>1. /\ g \in 1..Len(text) /\ u[j] = text[g]
          /\ CodeAt(u, j) <=> CodeAt(text, g)
          /\ CodeAt(u, j - 1) <=> CodeAt(text, g - 1)
      BY <1>4, SwappedCodes DEF f, e, u
    <3>2. Swapped(m, f, e)[j] = m[g]
      <4>1. text[f] = "newline" /\ f \in 1..Len(text)
        BY <1>0, <1>4, LineEndFacts DEF f
      <4>2. m[f] = "newline"
        BY <4>1, NormalizeAt DEF m
      <4> QED
        BY <1>1, <4>2 DEF Swapped, Origin
    <3> HIDE DEF g
    <3>3. m[g] = IF CodeAt(text, g) THEN "section"
                 ELSE IF CodeAt(text, g - 1) THEN "code" ELSE text[g]
      BY <3>1 DEF m, Normalize
    <3>4. Normalize(u)[j] = IF CodeAt(u, j) THEN "section"
                            ELSE IF CodeAt(u, j - 1) THEN "code" ELSE u[j]
      BY <2>4 DEF Normalize
    <3> QED
      BY <3>1, <3>2, <3>3, <3>4
  <2>6. Swapped(m, f, e) = [j \in 1..Len(text) |-> Swapped(m, f, e)[j]]
    BY <1>1 DEF Swapped
  <2>7. Normalize(u) = [j \in 1..Len(text) |-> Normalize(u)[j]]
    BY <2>4 DEF Normalize
  <2>8. Swapped(m, f, e) = Normalize(u)
    BY <2>5, <2>6, <2>7
  <2> QED
    BY <1>4, <2>3, <2>8 DEF m
<1> QED
  BY <1>3, <1>4, SwapCases

-----------------------------------------------------------------------------
(* Gradients. *)

\* The recursion of OpensCode has a solution, so no code opens before the text.
LEMMA OpensNothingAtZero ==
    ASSUME NEW text \in Seq(Characters)
    PROVE  OpensCode(text)[0] = FALSE
<1> DEFINE n == Len(text)
           Opens(g, i) == i > 0 /\ i < n /\ text[i] = "section" /\ ~g[i - 1]
           Solves(g) == g = [i \in 0..n |-> Opens(g, i)]
           Partly(g, k) == DOMAIN g = 0..k /\ \A i \in 0..k : g[i] = Opens(g, i)
           S == {k \in Nat : \E g : Partly(g, k)}
<1>0. n \in Nat
  OBVIOUS
<1>1. 0 \in S
  <2> DEFINE h == [i \in 0..0 |-> FALSE]
  <2>1. \A i \in 0..0 : h[i] = Opens(h, i)
    <3>1. \A i \in 0..0 : i = 0
      OBVIOUS
    <3>2. h[0] = FALSE
      OBVIOUS
    <3>3. Opens(h, 0) = FALSE
      OBVIOUS
    <3> HIDE DEF h, Opens
    <3> QED
      BY <3>1, <3>2, <3>3
  <2>2. DOMAIN h = 0..0
    OBVIOUS
  <2> HIDE DEF h, Opens
  <2>3. Partly(h, 0)
    BY <2>1, <2>2
  <2> QED
    BY <2>3
<1>2. ASSUME NEW k \in Nat, k \in S PROVE k + 1 \in S
  <2>1. PICK g : Partly(g, k)
    BY <1>2
  <2> DEFINE h == [i \in 0..(k + 1) |-> IF i = k + 1 THEN Opens(g, k + 1) ELSE g[i]]
  <2>2. \A i \in 0..(k + 1) : i = k + 1 \/ i \in 0..k
    OBVIOUS
  <2>3. ASSUME NEW i \in 0..(k + 1) PROVE h[i] = Opens(h, i)
    <3>1. i > 0 => i - 1 \in 0..k /\ i - 1 \in 0..(k + 1) /\ i - 1 # k + 1
      OBVIOUS
    <3>2. i > 0 => h[i - 1] = g[i - 1]
      BY <3>1
    <3>3. Opens(h, i) = Opens(g, i)
      BY <3>2
    <3>4. h[i] = IF i = k + 1 THEN Opens(g, k + 1) ELSE g[i]
      OBVIOUS
    <3>5. i # k + 1 => g[i] = Opens(g, i)
      BY <2>1, <2>2
    <3> HIDE DEF h, Opens
    <3> QED
      BY <3>3, <3>4, <3>5
  <2>4. DOMAIN h = 0..(k + 1)
    OBVIOUS
  <2> HIDE DEF h, Opens
  <2>5. Partly(h, k + 1)
    BY <2>3, <2>4
  <2> QED
    BY <2>5
<1> HIDE DEF S
<1>3. n \in S
  BY <1>0, <1>1, <1>2, Induction
<1>4. PICK g : Partly(g, n)
  BY <1>3 DEF S
<1>5. OpensCode(text) = CHOOSE g2 : Solves(g2)
  BY DEF OpensCode
<1>6. \E h : Solves(h)
  <2> DEFINE h == [i \in 0..n |-> g[i]]
  <2>1. ASSUME NEW i \in 0..n PROVE g[i] = Opens(h, i)
    <3>1. i > 0 => i - 1 \in 0..n
      BY <1>0
    <3>2. Opens(h, i) = Opens(g, i)
      BY <3>1
    <3> HIDE DEF h, Opens
    <3> QED
      BY <1>4, <3>2
  <2>2. Solves(h)
    BY <2>1
  <2> QED
    BY <2>2
<1> DEFINE opens == CHOOSE h : Solves(h)
<1>7. Solves(opens)
  BY <1>6, Zenon
<1> HIDE DEF opens
<1>8. opens[0] = Opens(opens, 0)
  BY <1>0, <1>7
<1>9. Opens(opens, 0) = FALSE
  OBVIOUS
<1>10. OpensCode(text) = opens
  BY <1>5 DEF opens
<1> HIDE DEF Opens, Solves
<1> QED
  BY <1>8, <1>9, <1>10

\* The characters that are not blank, all of which are counted.
Visible(text) == {i \in 1..Len(text) : text[i] \notin Blank}

\* How many coloured characters there are before character i.
Index(text, i) == Cardinality({j \in Colored(text) : j < i})

\* No coloured character is further along than there are steps, later ones are
\* at least as far, and the last is at the last step if all were coloured.
LEMMA IndexFacts ==
    ASSUME NEW text \in Seq(Characters)
    PROVE  /\ GradientSteps(text) \in Nat \ {0}
           /\ \A i \in Colored(text) : Index(text, i) \in 0..GradientSteps(text)
           /\ \A i, j \in Colored(text) : i < j => Index(text, i) <= Index(text, j)
           /\ \A i \in Colored(text) : i = Min(Colored(text)) => Index(text, i) = 0
           /\ \A i \in Colored(text) :
                 /\ Cardinality(Colored(text)) > 1
                 /\ Colored(text) = Visible(text)
                 /\ i = Max(Colored(text))
                 => Index(text, i) = GradientSteps(text)
<1> DEFINE n == Len(text)
           C == Colored(text)
           V == Visible(text)
           steps == GradientSteps(text)
           Before(i) == {j \in C : j < i}
<1>0. n \in Nat
  OBVIOUS
<1>1. C \subseteq V /\ V \subseteq 1..n
  BY DEF Colored, Visible
<1>2. IsFiniteSet(V) /\ IsFiniteSet(C)
  <2>1. IsFiniteSet(1..n)
    BY <1>0, FS_Interval
  <2> QED
    BY <1>1, <2>1, FS_Subset
<1>3. /\ Cardinality(V) \in Nat /\ Cardinality(C) \in Nat
      /\ Cardinality(C) <= Cardinality(V)
  BY <1>1, <1>2, FS_Subset, FS_CardinalityType
<1>4. steps = IF Cardinality(V) - 1 >= 1 THEN Cardinality(V) - 1 ELSE 1
  BY DEF GradientSteps, Larger, Visible
<1>5. steps \in Nat \ {0} /\ Cardinality(V) - 1 <= steps
  BY <1>3, <1>4
<1> HIDE DEF C, V, steps
<1>6. ASSUME NEW i \in C
      PROVE  /\ IsFiniteSet(Before(i))
             /\ Cardinality(Before(i)) \in Nat
             /\ Cardinality(Before(i)) <= Cardinality(C) - 1
  <2>1. Before(i) \in SUBSET (C \ {i}) /\ IsFiniteSet(C \ {i})
    BY <1>1, <1>2, FS_RemoveElement
  <2>2. Cardinality(C \ {i}) = Cardinality(C) - 1
    BY <1>2, FS_RemoveElement
  <2>3. IsFiniteSet(Before(i)) /\ Cardinality(Before(i)) <= Cardinality(C \ {i})
    BY <2>1, FS_Subset
  <2>4. Cardinality(Before(i)) \in Nat
    BY <2>3, FS_CardinalityType
  <2> QED
    BY <2>2, <2>3, <2>4
<1>7. ASSUME NEW i \in C PROVE Cardinality(Before(i)) \in 0..steps
  <2> HIDE DEF Before
  <2> QED
    BY <1>3, <1>5, <1>6
<1>8. ASSUME NEW i \in C, NEW j \in C, i < j
      PROVE  Cardinality(Before(i)) <= Cardinality(Before(j))
  <2>1. i \in Nat /\ j \in Nat /\ \A k \in C : k \in Nat
    BY <1>0, <1>1
  <2>2. \A k \in C : k < i => k < j
    BY <1>8, <2>1
  <2>3. Before(i) \in SUBSET Before(j)
    BY <2>2, Zenon
  <2> QED
    BY <1>6, <2>3, FS_Subset
<1>9. ASSUME NEW i \in C, i = Min(C) PROVE Cardinality(Before(i)) = 0
  <2>1. C \in SUBSET Nat /\ C # {}
    BY <1>0, <1>1
  <2>2. \A k \in C : i <= k
    BY <1>9, <2>1, MinProperties
  <2>3. \A k \in C : ~ (k < i)
    BY <2>1, <2>2
  <2>4. Before(i) = {}
    BY <2>3, Zenon
  <2> QED
    BY <2>4, FS_EmptySet
<1>10. ASSUME NEW i \in C, Cardinality(C) > 1, C = V, i = Max(C)
       PROVE  Cardinality(Before(i)) = steps
  <2>1. C \in SUBSET Nat /\ C # {} /\ \A k \in C : k <= n
    BY <1>0, <1>1
  <2>2. \A k \in C : k <= i
    BY <1>0, <1>10, <2>1, MaxProperties
  <2>3. \A k \in C : k < i <=> k # i
    BY <2>1, <2>2
  <2>5. Before(i) = C \ {i}
    BY <2>3
  <2>4. Cardinality(Before(i)) = Cardinality(C) - 1
    BY <1>2, <2>5, FS_RemoveElement
  <2> HIDE DEF Before
  <2> QED
    BY <1>3, <1>4, <1>10, <2>4
<1> QED
  BY <1>5, <1>7, <1>8, <1>9, <1>10 DEF Index, C, V, steps

\* Rounded to the nearest, a mixture of two colours is between them, and is one
\* of them where it has all of it.
LEMMA Mixture ==
    ASSUME NEW from \in Nat, NEW to \in Nat, NEW steps \in Nat \ {0},
           NEW amount \in 0..steps, NEW mix,
           mix = (2 * (from * steps + (to - from) * amount) + steps) \div (2 * steps)
    PROVE  /\ mix \in Nat /\ Smaller(from, to) <= mix /\ mix <= Larger(from, to)
           /\ amount = 0 => mix = from
           /\ amount = steps => mix = to
<1> DEFINE X == from * steps + (to - from) * amount
           N == 2 * X + steps
           D == 2 * steps
           low == Smaller(from, to)
           high == Larger(from, to)
<1>1. X = from * (steps - amount) + to * amount
  OBVIOUS
<1>2. /\ low \in Nat /\ high \in Nat /\ low <= from /\ low <= to
      /\ from <= high /\ to <= high
  BY DEF Smaller, Larger
<1>3. steps - amount \in Nat /\ amount \in Nat
  OBVIOUS
<1> HIDE DEF X, low, high
<1>4. low * steps <= X /\ X <= high * steps /\ X \in Nat
  <2>1. /\ low * (steps - amount) <= from * (steps - amount)
        /\ from * (steps - amount) <= high * (steps - amount)
        /\ low * amount <= to * amount /\ to * amount <= high * amount
    BY <1>2, <1>3
  <2>2. /\ low * (steps - amount) + low * amount = low * steps
        /\ high * (steps - amount) + high * amount = high * steps
    BY <1>2
  <2>3. from * (steps - amount) \in Nat /\ to * amount \in Nat
    BY <1>3
  <2> QED
    BY <1>1, <1>2, <2>1, <2>2, <2>3
<1>5. N \in Nat /\ D \in Nat \ {0}
  BY <1>4
<1> HIDE DEF N, D
<1>14. mix = N \div D
  BY DEF N, D, X
<1>6. mix \in Nat /\ N % D \in 0..(D - 1) /\ N = D * mix + (N % D)
  <2>1. /\ N \div D \in Nat /\ N % D \in 0..(D - 1)
        /\ N = D * (N \div D) + (N % D)
    BY <1>5, DivisionFacts
  <2> QED
    BY <1>14, <2>1
<1> DEFINE r == N % D
<1> HIDE DEF r
<1>7. /\ r \in Nat /\ r < 2 * steps
      /\ 2 * X + steps = (2 * steps) * mix + r
  BY <1>6 DEF r, N, D
<1>8. low <= mix
  <2>1. (2 * steps) * low < (2 * steps) * (mix + 1)
    BY <1>2, <1>4, <1>6, <1>7
  <2> QED
    BY <1>2, <1>6, <2>1
<1>9. mix <= high
  <2>1. (2 * steps) * mix < (2 * steps) * (high + 1)
    BY <1>2, <1>4, <1>6, <1>7
  <2> QED
    BY <1>2, <1>6, <2>1
<1>10. ASSUME NEW c \in Nat, X = c * steps PROVE mix = c
  <2>1. N = D * c + steps /\ steps < D
    BY <1>10 DEF N, D
  <2> QED
    BY <1>5, <1>14, <2>1, DivisionUnique
<1>11. amount = 0 => X = from * steps
  BY DEF X
<1>12. amount = steps => X = to * steps
  BY DEF X
<1> QED
  BY <1>6, <1>8, <1>9, <1>10, <1>11, <1>12 DEF low, high

\* The segments of two or more colours.
LEMMA LastPart ==
    ASSUME NEW colors \in Seq(Nat), Len(colors) >= 2
    PROVE  /\ Len(colors) - 1 \in Nat /\ Len(colors) - 1 # 0
           /\ Len(colors) - 2 = (Len(colors) - 1) - 1
           /\ Len(colors) = (Len(colors) - 1) + 1
<1>1. Len(colors) - 1 \in Nat
  OBVIOUS
<1>2. Len(colors) - 1 # 0
  OBVIOUS
<1>3. Len(colors) - 2 = (Len(colors) - 1) - 1
  OBVIOUS
<1>4. Len(colors) = (Len(colors) - 1) + 1
  OBVIOUS
<1> QED
  BY <1>1, <1>2, <1>3, <1>4

\* Where index is among the segments: the quotient is a segment, or all the
\* steps are done and the last segment is.
LEMMA SegmentFacts ==
    ASSUME NEW last \in Nat \ {0}, NEW steps \in Nat \ {0}, NEW index \in 0..steps
    PROVE  LET scaled  == index * last
               segment == Smaller(scaled \div steps, last - 1)
           IN  /\ segment \in 0..(last - 1)
               /\ scaled - segment * steps \in 0..steps
               /\ index = 0 => segment = 0
               /\ index = steps => /\ segment = last - 1
                                   /\ scaled - segment * steps = steps
<1> DEFINE scaled == index * last
           quotient == scaled \div steps
           segment == Smaller(quotient, last - 1)
<1>1. scaled \in Nat /\ index \in Nat /\ index <= steps
  OBVIOUS
<1>2. scaled <= steps * last
  BY <1>1
<1> HIDE DEF scaled
<1>3. /\ quotient \in Nat
      /\ scaled % steps \in 0..(steps - 1)
      /\ scaled = steps * quotient + (scaled % steps)
  BY <1>1, DivisionFacts
<1> DEFINE rest == scaled % steps
<1> HIDE DEF rest, quotient
<1>4. rest \in Nat /\ rest < steps /\ scaled = steps * quotient + rest
  BY <1>3 DEF rest
<1>5. CASE quotient <= last - 1
  <2>1. segment = quotient
    BY <1>4, <1>5, <1>3 DEF Smaller
  <2>2. scaled - quotient * steps = rest
    BY <1>3, <1>4
  <2>3. index = 0 => quotient = 0
    <3>1. CASE index = 0
      <4>1. scaled = steps * 0 + 0 /\ 0 < steps
        BY <3>1 DEF scaled
      <4> QED
        BY <1>1, <4>1, DivisionUnique DEF quotient
    <3> QED
      BY <3>1
  <2>4. index # steps
    <3>1. CASE index = steps
      <4>1. scaled = steps * last + 0 /\ 0 < steps
        BY <3>1 DEF scaled
      <4>2. quotient = last
        BY <1>1, <4>1, DivisionUnique DEF quotient
      <4> QED
        BY <1>5, <4>2
    <3> QED
      BY <3>1
  <2>5. segment \in 0..(last - 1) /\ rest \in 0..steps
    BY <1>3, <1>4, <1>5, <2>1
  <2> HIDE DEF segment
  <2> QED
    BY <2>1, <2>2, <2>3, <2>4, <2>5 DEF segment, scaled, quotient
<1>6. CASE last - 1 < quotient
  <2>1. segment = last - 1
    BY <1>3, <1>6 DEF Smaller
  <2>2. steps * last <= steps * quotient
    BY <1>3, <1>6
  <2>3. scaled = steps * last
    BY <1>1, <1>2, <1>4, <2>2, <1>3
  <2>4. scaled - segment * steps = steps
    BY <2>1, <2>3
  <2>5. index # 0
    <3>1. CASE index = 0
      <4>1. scaled = 0 /\ steps * last > 0
        BY <3>1 DEF scaled
      <4> QED
        BY <2>3, <4>1
    <3> QED
      BY <3>1
  <2>6. segment \in 0..(last - 1)
    BY <2>1
  <2> HIDE DEF segment
  <2> QED
    BY <2>1, <2>4, <2>5, <2>6 DEF segment, scaled, quotient
<1> QED
  BY <1>3, <1>5, <1>6

\* A later index is in the same segment or a later one.
LEMMA SegmentsOnward ==
    ASSUME NEW last \in Nat \ {0}, NEW steps \in Nat \ {0},
           NEW a \in Nat, NEW b \in Nat, a <= b
    PROVE  Smaller((a * last) \div steps, last - 1)
               <= Smaller((b * last) \div steps, last - 1)
<1> DEFINE x == a * last
           y == b * last
           p == x \div steps
           q == y \div steps
<1>1. x \in Nat /\ y \in Nat /\ x <= y
  OBVIOUS
<1> HIDE DEF x, y
<1>2. /\ p \in Nat /\ x % steps \in 0..(steps - 1) /\ x = steps * p + (x % steps)
      /\ q \in Nat /\ y % steps \in 0..(steps - 1) /\ y = steps * q + (y % steps)
  <2>1. p \in Nat /\ x % steps \in 0..(steps - 1) /\ x = steps * p + (x % steps)
    BY <1>1, DivisionFacts
  <2>2. q \in Nat /\ y % steps \in 0..(steps - 1) /\ y = steps * q + (y % steps)
    BY <1>1, DivisionFacts
  <2> QED
    BY <2>1, <2>2
<1> DEFINE r == x % steps
           s == y % steps
<1> HIDE DEF p, q, r, s
<1>3. /\ r \in Nat /\ s \in Nat /\ s < steps
      /\ x = steps * p + r /\ y = steps * q + s
  BY <1>2 DEF r, s
<1>4. p <= q
  <2>1. steps * p < steps * (q + 1)
    BY <1>1, <1>2, <1>3
  <2> QED
    BY <1>2, <2>1
<1> QED
  BY <1>2, <1>4 DEF Smaller, p, q, x, y

\* A text without formatting codes has all its visible characters coloured.
LEMMA AllColored ==
    ASSUME NEW text \in Seq(Characters), \A i \in 1..Len(text) : ~OpensCode(text)[i]
    PROVE  Colored(text) = Visible(text)
<1>1. \A i \in 1..Len(text) : i = 1 \/ i - 1 \in 1..Len(text)
  OBVIOUS
<1>2. ~OpensCode(text)[0]
  BY OpensNothingAtZero
<1>3. \A i \in 1..Len(text) : ~OpensCode(text)[i - 1]
  BY <1>1, <1>2
<1> QED
  BY <1>3 DEF Colored, Visible

\* The gradient over any text, through any two or more colours, stays between
\* the colours of its segments, begins with the first one and, where there are
\* no formatting codes, ends with the last.
THEOREM GradientStays ==
    ASSUME NEW text \in Seq(Characters), NEW colors \in Seq(Nat), Len(colors) >= 2
    PROVE  LET color(i) == ColorAt(text, colors, i)
               at(i)    == GradientAt(text, colors, i)
           IN  /\ \A i \in Colored(text) :
                   /\ at(i).amount \in 0..GradientSteps(text)
                   /\ color(i) \in Smaller(colors[at(i).segment],
                                           colors[at(i).segment + 1])..
                                   Larger(colors[at(i).segment],
                                          colors[at(i).segment + 1])
                   /\ i = Min(Colored(text)) => color(i) = colors[1]
               /\ \A i, j \in Colored(text) :
                   i < j => at(i).segment <= at(j).segment
               /\ /\ Cardinality(Colored(text)) > 1
                  /\ \A i \in 1..Len(text) : ~OpensCode(text)[i]
                  => color(Max(Colored(text))) = colors[Len(colors)]
<1> DEFINE C == Colored(text)
           steps == GradientSteps(text)
           last == Len(colors) - 1
           at(i) == GradientAt(text, colors, i)
           color(i) == ColorAt(text, colors, i)
           Segment(x) == Smaller((x * last) \div steps, last - 1)
<1>1. last \in Nat \ {0} /\ Len(colors) - 2 = last - 1 /\ Len(colors) = last + 1
  <2>2. /\ Len(colors) - 1 \in Nat /\ Len(colors) - 1 # 0
        /\ Len(colors) - 2 = (Len(colors) - 1) - 1
        /\ Len(colors) = (Len(colors) - 1) + 1
    BY LastPart
  <2> HIDE DEF C, steps, at, color, Segment
  <2> QED
    BY <2>2
<1>2. /\ steps \in Nat \ {0}
      /\ \A i \in C : Index(text, i) \in 0..steps
      /\ \A i, j \in C : i < j => Index(text, i) <= Index(text, j)
      /\ \A i \in C : i = Min(C) => Index(text, i) = 0
      /\ \A i \in C : /\ Cardinality(C) > 1
                      /\ C = Visible(text)
                      /\ i = Max(C)
                      => Index(text, i) = steps
  BY IndexFacts, Zenon
<1>3. ASSUME NEW i \in C
      PROVE  at(i) = [segment |-> Segment(Index(text, i)) + 1,
                      amount |-> Index(text, i) * last - Segment(Index(text, i)) * steps]
  BY <1>1 DEF GradientAt, Index
<1> HIDE DEF last, at, steps, C
<1>4. ASSUME NEW i \in C
      PROVE  /\ at(i).segment \in 1..last
             /\ at(i).amount \in 0..steps
             /\ Index(text, i) = 0 => at(i).segment = 1 /\ at(i).amount = 0
             /\ Index(text, i) = steps => at(i).segment = last /\ at(i).amount = steps
  <2> DEFINE x == Index(text, i)
             g == Segment(x)
  <2>1. x \in 0..steps
    BY <1>2
  <2>2. /\ g \in 0..(last - 1)
        /\ x * last - g * steps \in 0..steps
        /\ x = 0 => g = 0
        /\ x = steps => g = last - 1 /\ x * last - g * steps = steps
    BY <1>1, <1>2, <2>1, SegmentFacts
  <2>3. at(i).segment = g + 1 /\ at(i).amount = x * last - g * steps
    BY <1>3
  <2>4. x = 0 /\ g = 0 => x * last - g * steps = 0
    BY <1>1, <1>2
  <2> HIDE DEF g, x, at
  <2>5. at(i).segment \in 1..last
    BY <1>1, <2>2, <2>3
  <2> QED
    BY <1>1, <2>2, <2>3, <2>4, <2>5 DEF x
<1>5. ASSUME NEW i \in C
      PROVE  /\ color(i) \in Smaller(colors[at(i).segment], colors[at(i).segment + 1])..
                             Larger(colors[at(i).segment], colors[at(i).segment + 1])
             /\ at(i).amount = 0 => color(i) = colors[at(i).segment]
             /\ at(i).amount = steps => color(i) = colors[at(i).segment + 1]
  <2> DEFINE from == colors[at(i).segment]
             to == colors[at(i).segment + 1]
             amount == at(i).amount
  <2>1. at(i).segment \in 1..Len(colors) /\ at(i).segment + 1 \in 1..Len(colors)
    BY <1>1, <1>4
  <2>2. from \in Nat /\ to \in Nat /\ amount \in 0..steps
    BY <1>4, <2>1, SMTT(60)
  <2>3. color(i) = (2 * (from * steps + (to - from) * amount) + steps) \div (2 * steps)
    BY DEF ColorAt, steps, at
  <2> HIDE DEF from, to, amount, color
  <2>5. steps \in Nat \ {0}
    BY <1>2
  <2>6. amount = 0 => color(i) = from
    BY <2>2, <2>3, <2>5, Mixture
  <2>7. amount = steps => color(i) = to
    BY <2>2, <2>3, <2>5, Mixture
  <2>8. color(i) \in Smaller(from, to)..Larger(from, to)
    BY <2>2, <2>3, <2>5, Mixture, SMTT(60) DEF Smaller, Larger
  <2> QED
    BY <2>6, <2>7, <2>8 DEF from, to, amount
<1>6. ASSUME NEW i \in C, i = Min(C) PROVE color(i) = colors[1]
  <2> HIDE DEF color
  <2> QED
    BY <1>2, <1>4, <1>5, <1>6
<1>7. ASSUME NEW i \in C, NEW j \in C, i < j PROVE at(i).segment <= at(j).segment
  <2>1. /\ Index(text, i) \in Nat /\ Index(text, j) \in Nat
        /\ Index(text, i) <= Index(text, j)
    BY <1>2, <1>7
  <2>2. Segment(Index(text, i)) <= Segment(Index(text, j))
    BY <1>1, <1>2, <2>1, SegmentsOnward
  <2>3. Segment(Index(text, i)) \in Int /\ Segment(Index(text, j)) \in Int
    BY <2>1, <1>1, <1>2 DEF Smaller
  <2>4. /\ at(i).segment = Segment(Index(text, i)) + 1
        /\ at(j).segment = Segment(Index(text, j)) + 1
    BY <1>3
  <2> HIDE DEF at, Segment
  <2> QED
    BY <2>2, <2>3, <2>4
<1>8. ASSUME Cardinality(C) > 1, \A i \in 1..Len(text) : ~OpensCode(text)[i]
      PROVE  color(Max(C)) = colors[Len(colors)]
  <2>1. C = Visible(text)
    BY <1>8, AllColored DEF C
  <2>2. C \in SUBSET Nat /\ \A k \in C : k <= Len(text)
    BY DEF C, Colored
  <2>3. C # {}
    <3>1. C = {} => Cardinality(C) = 0
      BY FS_EmptySet
    <3> HIDE DEF Segment, color
    <3> QED
      BY <1>8, <3>1
  <2>4. Max(C) \in C
    <3>1. Len(text) \in Nat
      OBVIOUS
    <3> QED
      BY <2>2, <2>3, <3>1, MaxProperties
  <2>5. Index(text, Max(C)) = steps
    BY <1>2, <1>8, <2>1, <2>4
  <2>6. at(Max(C)).segment = last /\ at(Max(C)).amount = steps
    BY <1>4, <2>4, <2>5
  <2> HIDE DEF color, at
  <2> QED
    BY <1>1, <1>5, <2>4, <2>6
<1> HIDE DEF color
<1> QED
  BY <1>4, <1>5, <1>6, <1>7, <1>8 DEF C, at, steps, color

-----------------------------------------------------------------------------
(* The behaviours of MCFunctions: the types of the inputs they build. *)

Bytes == SUBSET (0..7)

Settings ==
    [interval: Int, colors: {"hex", "other"},
     icon: {"default", "png_64", "png_32", "text", "too_long"},
     states: UNION {[S -> [descriptions: Int, players: Int]] : S \in SUBSET States}]

InputTypes ==
    /\ kind = "policy" => in \in Observations
    /\ kind = "number" => in \in [value: SUBSET Bits, tail: Seq(Bytes)]
    /\ kind = "bytes" => in \in Seq(Bytes)
    /\ kind = "frames" => in \in BodyLengths \X BodyLengths
    /\ kind = "handshake" => in \in HandshakeCases
    /\ kind = "text" => in \in Seq(Characters)
    /\ kind = "settings" => in \in Settings
    /\ kind = "entries" => in \in Seq(Entries)

\* The inputs they start from.
LEMMA InputInit == Init => InputTypes
<1> SUFFICES ASSUME Init PROVE InputTypes
  OBVIOUS
<1>1. CASE kind = "policy" /\ in \in Observations
  BY <1>1 DEF InputTypes
<1>2. CASE kind = "number" /\ in \in [value: NumberCases, tail: {<<>>}]
  <2>1. \A low, high \in Bits : low..high \subseteq Bits
    BY DEF Bits
  <2>2. \A v \in {{0, 14}, {7, 28}, {0, 31}} : v \subseteq Bits
    BY DEF Bits
  <2>3. ASSUME NEW v \in NumberCases PROVE v \subseteq Bits
    <3>1. CASE v \in {{0, 14}, {7, 28}, {0, 31}}
      BY <2>2, <3>1
    <3>2. CASE v \in {low..high : low, high \in Bits}
      <4>1. PICK low \in Bits, high \in Bits : v = low..high
        BY <3>2
      <4> QED
        BY <2>1, <4>1
    <3> QED
      BY <2>3, <3>1, <3>2 DEF NumberCases
  <2>4. <<>> \in Seq(Bytes)
    OBVIOUS
  <2> QED
    BY <1>2, <2>3, <2>4 DEF InputTypes
<1>3. CASE kind = "bytes" /\ in = <<>>
  BY <1>3 DEF InputTypes
<1>4. CASE kind = "frames" /\ in \in BodyLengths \X {0}
  BY <1>4 DEF InputTypes, BodyLengths
<1>5. CASE kind = "handshake" /\ in \in HandshakeCases
  BY <1>5 DEF InputTypes
<1>6. CASE kind = "text" /\ in = <<>>
  BY <1>6 DEF InputTypes
<1>7. CASE kind = "settings" /\ in = DefaultSettings
  <2>1. GoodState \in [descriptions: Int, players: Int]
    BY DEF GoodState
  <2>2. [n \in StateNames |-> GoodState] \in [StateNames -> [descriptions: Int, players: Int]]
    BY <2>1
  <2> QED
    <3>1. StateNames \in SUBSET States
      BY DEF StateNames, States, AdminStates, PowerStates
    <3>2. [n \in StateNames |-> GoodState]
              \in UNION {[S -> [descriptions: Int, players: Int]] : S \in SUBSET States}
      BY <2>2, <3>1
    <3>3. DefaultSettings \in Settings
      BY <3>2 DEF DefaultSettings, Settings
    <3> QED
      BY <1>7, <3>3 DEF InputTypes
<1>8. CASE kind = "entries" /\ in = <<>>
  BY <1>8 DEF InputTypes
<1> QED
  BY <1>1, <1>2, <1>3, <1>4, <1>5, <1>6, <1>7, <1>8 DEF Init

\* Editing settings leaves them settings.
LEMMA EditStep ==
    ASSUME in \in Settings, EditSettings
    PROVE  in' \in Settings
<1> DEFINE St == [descriptions: Int, players: Int]
<1>1. /\ in = [interval |-> in.interval, colors |-> in.colors, icon |-> in.icon,
               states |-> in.states]
      /\ in.interval \in Int /\ in.colors \in {"hex", "other"}
      /\ in.icon \in {"default", "png_64", "png_32", "text", "too_long"}
      /\ DOMAIN in.states \in SUBSET States
      /\ in.states \in [DOMAIN in.states -> St]
  BY DEF Settings
<1>2. ASSUME NEW S \in SUBSET States, NEW states \in [S -> St]
      PROVE  [in EXCEPT !.states = states] \in Settings
  BY <1>1 DEF Settings
<1>3. GoodState \in St /\ BadStates \subseteq St
  BY DEF GoodState, BadStates
<1> HIDE DEF St
<1>4. ASSUME NEW name \in DOMAIN in.states, LosesState(name)
      PROVE  in' \in Settings
  <2> DEFINE S == DOMAIN in.states \ {name}
             states == [n \in S |-> in.states[n]]
  <2>1. S \in SUBSET States /\ states \in [S -> St]
    BY <1>1
  <2>2. in' = [in EXCEPT !.states = states]
    BY <1>4 DEF LosesState
  <2> QED
    BY <1>2, <2>1, <2>2
<1>5. ASSUME GainsState("running")
      PROVE  in' \in Settings
  <2> DEFINE S == DOMAIN in.states \cup {"running"}
             states == [n \in S |-> IF n = "running" THEN GoodState ELSE in.states[n]]
  <2>1. S \in SUBSET States /\ states \in [S -> St]
    BY <1>1, <1>3 DEF States, PowerStates
  <2>2. in' = [in EXCEPT !.states = states]
    BY <1>5 DEF GainsState
  <2> QED
    BY <1>2, <2>1, <2>2
<1>6. ASSUME NEW name \in DOMAIN in.states, NEW bad \in BadStates,
             in' = [in EXCEPT !.states[name] = bad]
      PROVE  in' \in Settings
  <2> DEFINE states == [in.states EXCEPT ![name] = bad]
  <2>1. states \in [DOMAIN in.states -> St]
    BY <1>1, <1>3
  <2>2. in' = [in EXCEPT !.states = states]
    BY <1>6
  <2> QED
    BY <1>1, <1>2, <2>1, <2>2
<1>7. CASE Changes("interval", {0, 1, 3, 3600, 3601})
  BY <1>7 DEF Changes, Settings
<1>8. CASE Changes("colors", {"hex", "other"})
  BY <1>8 DEF Changes, Settings
<1>9. CASE Changes("icon", {"default", "png_64", "png_32", "text", "too_long"})
  BY <1>9 DEF Changes, Settings
<1> QED
  BY <1>4, <1>5, <1>6, <1>7, <1>8, <1>9 DEF EditSettings

\* So does observing something else with an observation.
LEMMA ObserveStep ==
    ASSUME in \in Observations, Observe
    PROVE  in' \in Observations
<1>1. ASSUME NEW field \in {"suspended", "maintenance", "transferring",
                            "reachable", "enabled", "all", "serverOut", "eggOut",
                            "primary", "autostart"},
             NEW v \in BOOLEAN
      PROVE  [in EXCEPT ![field] = v] \in Observations
  <2>1. CASE field \in {"suspended", "maintenance", "transferring"}
    BY <2>1 DEF Observations
  <2>2. CASE field \in {"reachable", "enabled", "all"}
    BY <2>2 DEF Observations
  <2>3. CASE field \in {"serverOut", "eggOut", "primary", "autostart"}
    BY <2>3 DEF Observations
  <2> QED
    BY <1>1, <2>1, <2>2, <2>3
<1>2. ASSUME NEW v \in Statuses PROVE [in EXCEPT !.status = v] \in Observations
  BY DEF Observations
<1>3. ASSUME NEW v \in WingsStates PROVE [in EXCEPT !.wings = v] \in Observations
  BY DEF Observations
<1> QED
  BY <1>1, <1>2, <1>3 DEF Observe, Changes

\* Every step keeps the types.
LEMMA InputStep == InputTypes /\ [Next]_vars => InputTypes'
<1> SUFFICES ASSUME InputTypes, [Next]_vars PROVE InputTypes'
  OBVIOUS
<1>1. CASE UNCHANGED vars
  BY <1>1 DEF vars, InputTypes
<1>2. ASSUME Next PROVE InputTypes'
  <2>0. kind' = kind
    BY <1>2 DEF Next
  <2>1. CASE Observe
    <3>1. kind = "policy"
      BY <2>1 DEF Observe
    <3>2. in' \in Observations
      BY <2>1, <3>1, ObserveStep DEF InputTypes
    <3> QED
      BY <2>0, <3>1, <3>2 DEF InputTypes
  <2>2. CASE Appends("bytes", BytePatterns, MaxBytes)
    <3>1. BytePatterns \subseteq Bytes
      BY DEF BytePatterns, Bytes
    <3>2. kind = "bytes" /\ in' \in Seq(Bytes)
      BY <2>2, <3>1 DEF Appends, InputTypes
    <3> QED
      BY <2>0, <3>2 DEF InputTypes
  <2>3. CASE Appends("text", Characters, MaxText)
    <3>1. kind = "text" /\ in' \in Seq(Characters)
      BY <2>3 DEF Appends, InputTypes
    <3> QED
      BY <2>0, <3>1 DEF InputTypes
  <2>4. CASE Appends("entries", Entries, MaxEntries)
    <3>1. kind = "entries" /\ in' \in Seq(Entries)
      BY <2>4 DEF Appends, InputTypes
    <3> QED
      BY <2>0, <3>1 DEF InputTypes
  <2>5. CASE EditSettings
    <3>1. kind = "settings"
      BY <2>5 DEF EditSettings
    <3>2. in' \in Settings
      BY <2>5, <3>1, EditStep DEF InputTypes
    <3> QED
      BY <2>0, <3>1, <3>2 DEF InputTypes
  <2>6. CASE kind = "number" /\ Changes("tail", Tails)
    <3>1. Tails \subseteq Seq(Bytes)
      <4>1. <<>> \in Seq(Bytes) /\ <<{}>> \in Seq(Bytes) /\ <<{7}, {0}>> \in Seq(Bytes)
        BY DEF Bytes
      <4> QED
        BY <4>1 DEF Tails
    <3>2. in' \in [value: SUBSET Bits, tail: Seq(Bytes)]
      BY <2>6, <3>1 DEF Changes, InputTypes
    <3> QED
      BY <2>0, <2>6, <3>2 DEF InputTypes
  <2>7. CASE kind = "frames" /\ Changes(2, BodyLengths)
    <3>1. PICK n \in BodyLengths : in' = [in EXCEPT ![2] = n]
      BY <2>7 DEF Changes
    <3>2. in' \in BodyLengths \X BodyLengths
      BY <2>7, <3>1 DEF InputTypes
    <3> QED
      BY <2>0, <2>7, <3>2 DEF InputTypes
  <2>8. CASE kind = "handshake" /\ Changes("next", {{0}, {1}})
    <3>1. in' \in HandshakeCases
      BY <2>8 DEF Changes, InputTypes, HandshakeCases
    <3> QED
      BY <2>0, <2>8, <3>1 DEF InputTypes
  <2> QED
    BY <1>2, <2>1, <2>2, <2>3, <2>4, <2>5, <2>6, <2>7, <2>8 DEF Next
<1> QED
  BY <1>1, <1>2

\* The inputs are of these types throughout.
THEOREM TypedInputs == Spec => []InputTypes
BY InputInit, InputStep, PTL DEF Spec

-----------------------------------------------------------------------------
(* The properties. *)

\* An agent that lost the panel shows what the panel would show if it had lost
\* the node, whatever the panel last observed.
THEOREM StaleAgrees == Spec => []StaleAgreesWithPanel
<1>1. InputTypes => StaleAgreesWithPanel
  BY StaleFacts DEF InputTypes, StaleAgreesWithPanel
<1> QED
  BY <1>1, TypedInputs, PTL

\* The agent asks for a wake exactly when the panel would start the server.
THEOREM WakeAgrees == Spec => []WakeAgreesWithSnapshot
<1>1. InputTypes => WakeAgreesWithSnapshot
  BY WakeFacts DEF InputTypes, WakeAgreesWithSnapshot
<1> QED
  BY <1>1, TypedInputs, PTL

\* A redirected connection is answered for the entry whose rule redirected it,
\* wildcards apart, and always for one.
THEOREM Answered == Spec => []AnswersForItsRule
<1>1. InputTypes => AnswersForItsRule
  <2> SUFFICES ASSUME InputTypes, kind = "entries", Distinct(in),
                      NEW d \in Destinations, Redirected(in, d)
               PROVE  LET i == Lookup(in, d)
                      IN  /\ i # 0
                          /\ \/ i \in DesiredEntries(in) /\ RuleRedirects(in[i], d)
                             \/ \E j \in 1..Len(in) \ {i} :
                                  /\ in[j].port = d.port
                                  /\ Unspecified(in[i].ip) \/ Unspecified(in[j].ip)
    BY DEF AnswersForItsRule
  <2>1. Len(in) \in Nat
    BY DEF InputTypes
  <2> QED
    BY <2>1, AnswerFacts
<1> QED
  BY <1>1, TypedInputs, PTL

\* A server that listens on an address of its own is reached, unless the
\* wildcard of its family is down on its port.
THEOREM RunningPasses == Spec => []RunningPassesUnlessWildcard
<1>1. InputTypes => RunningPassesUnlessWildcard
  <2> SUFFICES ASSUME InputTypes, kind = "entries", Distinct(in),
                      NEW i \in 1..Len(in), in[i].running, ~Unspecified(in[i].ip),
                      Redirected(in, [ip |-> in[i].ip, port |-> in[i].port])
               PROVE  \E j \in DesiredEntries(in) :
                         /\ in[j].ip = [family |-> in[i].ip.family, host |-> "any"]
                         /\ in[j].port = in[i].port
    BY DEF RunningPassesUnlessWildcard
  <2>1. in \in Seq(Entries) /\ Len(in) \in Nat
    BY DEF InputTypes
  <2>2. \A j \in 1..Len(in) : in[j] \in Entries
    BY <2>1
  <2>3. \A j \in 1..Len(in) : in[j].ip = [family |-> in[j].ip.family,
                                          host |-> in[j].ip.host]
    BY <2>2 DEF Entries, Ips
  <2> QED
    BY <2>1, <2>3, RunningFacts
<1> QED
  BY <1>1, TypedInputs, PTL

\* Settings that the panel accepts have a presentation for every state the
\* agent may tell a client, and its descriptions take turns.
THEOREM Presentable == Spec => []ValidatedIsPresentable
<1>1. InputTypes => ValidatedIsPresentable
  <2> SUFFICES ASSUME InputTypes, kind = "settings", Validate(in),
                      NEW st \in States, NEW stale \in BOOLEAN
               PROVE  LET told  == ShownState(StaleState(st, stale))
                          count == in.states[told].descriptions
                      IN  /\ SelectedState(in, told) = told
                          /\ in.interval <= 5 => \A start \in 0..7 :
                              LET shown(t) == Rotation(in, count, t)
                                  round    == start..(start + count * in.interval - 1)
                              IN  /\ {shown(t) : t \in round} = 0..(count - 1)
                                  /\ Cardinality({t \in round : shown(t + 1) # shown(t)})
                                         = IF count = 1 THEN 0 ELSE count
    BY DEF ValidatedIsPresentable
  <2>1. \A name \in StateNames : in.states[name].descriptions \in Int
    <3>1. \A name \in StateNames : name \in DOMAIN in.states
      BY DEF Validate
    <3>2. \A name \in DOMAIN in.states :
              in.states[name] \in [descriptions: Int, players: Int]
      BY DEF InputTypes, Settings
    <3> QED
      BY <3>1, <3>2
  <2>2. 0..7 \subseteq Nat
    OBVIOUS
  <2> QED
    BY <2>1, <2>2, DescriptionsTakeTurns
<1> QED
  BY <1>1, TypedInputs, PTL

\* Codes are understood once, lines change places without loss, and in either
\* order.
THEOREM TextsKept == Spec => []TextsKeepTheirParts
<1>1. InputTypes => TextsKeepTheirParts
  <2> SUFFICES ASSUME InputTypes, kind = "text" PROVE TextsKeepTheirParts
    BY DEF TextsKeepTheirParts
  <2>1. in \in Seq(Characters)
    BY DEF InputTypes
  <2> QED
    BY <2>1, NormalizeFacts, NormalizeAt, SwapTwice, SwapNormalized
    DEF TextsKeepTheirParts
<1> QED
  BY <1>1, TypedInputs, PTL

\* A gradient, through any of the colours, spans the text.
THEOREM GradientSpans == Spec => []GradientSpansText
<1>1. ASSUME NEW colors \in ColorLists PROVE colors \in Seq(Nat) /\ Len(colors) >= 2
  <2>1. <<0, 255>> \in Seq(Nat) /\ Len(<<0, 255>>) = 2
    OBVIOUS
  <2>2. <<200, 10>> \in Seq(Nat) /\ Len(<<200, 10>>) = 2
    OBVIOUS
  <2>3. <<0, 255, 128>> \in Seq(Nat) /\ Len(<<0, 255, 128>>) = 3
    OBVIOUS
  <2>4. <<7, 7, 90, 0>> \in Seq(Nat) /\ Len(<<7, 7, 90, 0>>) = 4
    OBVIOUS
  <2>5. \/ colors = <<0, 255>> \/ colors = <<200, 10>>
        \/ colors = <<0, 255, 128>> \/ colors = <<7, 7, 90, 0>>
    BY <1>1 DEF ColorLists
  <2>6. \A n \in {2, 3, 4} : n >= 2
    OBVIOUS
  <2> QED
    BY <2>1, <2>2, <2>3, <2>4, <2>5, <2>6, ZenonT(60)
<1>2. InputTypes /\ kind = "text" => in \in Seq(Characters)
  BY DEF InputTypes
<1>3. InputTypes => GradientSpansText
  BY <1>1, <1>2, GradientStays DEF GradientSpansText
<1> QED
  BY <1>3, TypedInputs, PTL
=============================================================================
