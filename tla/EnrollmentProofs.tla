-------------------------- MODULE EnrollmentProofs --------------------------
(***************************************************************************)
(* Theorems about Enrollment, for any number of administrators, processes, *)
(* tokens and troubles.                                                    *)
(***************************************************************************)
EXTENDS Enrollment, FiniteSetTheorems, TLAPS

\* What the proofs need of the types, whatever the bounds.
Shape ==
    /\ tokens \in Nat
    /\ row \in [token: Nat, expired: BOOLEAN]
    /\ issue \in [Admins -> Nat]
    /\ exchanges \in Seq(Nat)

\* Numbers that were given out are not given out again.
IssuedAreOld ==
    /\ row.token <= tokens
    /\ \A a \in Admins : issue[a] <= tokens
    /\ \A i \in 1..Len(exchanges) : exchanges[i] \in 1..tokens

\* A token that may still be exchanged is nowhere else: neither in another
\* request's hands nor behind a credential.
OnePlace ==
    /\ \A a, b \in Admins : issue[a] # None /\ issue[a] = issue[b] => a = b
    /\ \A a \in Admins : issue[a] # None =>
        /\ issue[a] # row.token
        /\ \A i \in 1..Len(exchanges) : exchanges[i] # issue[a]
    /\ row.token # None => \A i \in 1..Len(exchanges) : exchanges[i] # row.token

TokenInv == Shape /\ IssuedAreOld /\ OnePlace /\ OneTokenOneCredential

-----------------------------------------------------------------------------
(* The steps, by what they do to tokens. *)

\* What every process step but an exchange leaves alone.
tokenVars == <<tokens, row, gone, issue, exchanges, agent>>

\* A step of a process is an exchange or leaves the panel's rows alone.
LEMMA ProcessFrame ==
    ASSUME NEW p \in Processes, ProcessStep(p)
    PROVE  \/ UNCHANGED tokenVars
           \/ /\ \E token : ExchangeToken(token)
              /\ UNCHANGED <<tokens, issue>>
<1>1. CASE \E token \in Tokens : CommandEnroll(p, token) \/ RunEnrolls(p, token)
  BY <1>1 DEF CommandEnroll, RunEnrolls, Post, panelVars, tokenVars
<1>2. CASE RunLoads(p) \/ TruncateConfig(p) \/ WriteConfig(p) \/ Load(p) \/ Stop(p)
  BY <1>2 DEF RunLoads, TruncateConfig, WriteConfig, Load, Stop, panelVars, tokenVars
<1>3. CASE Enroll(p)
  BY <1>3 DEF Enroll, tokenVars
<1>4. CASE Dies(p)
  BY <1>4 DEF Dies, tokenVars
<1> QED
  BY <1>1, <1>2, <1>3, <1>4 DEF ProcessStep

\* An exchange moves the token from the row behind its credential.
LEMMA ExchangeStep ==
    ASSUME TokenInv, NEW token, ExchangeToken(token), UNCHANGED <<tokens, issue>>
    PROVE  TokenInv'
<1>1. /\ token = row.token /\ token \in Nat /\ token # None
      /\ token \in 1..tokens
  BY DEF ExchangeToken, Live, TokenInv, Shape, IssuedAreOld, None
<1>2. /\ exchanges' = Append(exchanges, token)
      /\ exchanges' \in Seq(Nat)
      /\ Len(exchanges') = Len(exchanges) + 1
      /\ Len(exchanges) \in Nat
      /\ exchanges'[Len(exchanges) + 1] = token
      /\ \A i \in 1..Len(exchanges) : exchanges'[i] = exchanges[i]
  BY <1>1 DEF ExchangeToken, TokenInv, Shape
<1>3. row' = NoRow
  BY DEF ExchangeToken
<1>4. Shape'
  BY <1>2, <1>3 DEF TokenInv, Shape, NoRow, None
<1>5. \A i \in 1..Len(exchanges') :
         \/ i \in 1..Len(exchanges) /\ exchanges'[i] = exchanges[i]
         \/ i = Len(exchanges) + 1 /\ exchanges'[i] = token
  BY <1>2
<1>6. IssuedAreOld'
  BY <1>1, <1>3, <1>5 DEF TokenInv, Shape, IssuedAreOld, NoRow, None
<1>7. OnePlace'
  BY <1>1, <1>3, <1>5 DEF TokenInv, Shape, OnePlace, NoRow, None
<1>8. \A i \in 1..Len(exchanges) : exchanges[i] # token
  BY <1>1 DEF TokenInv, OnePlace
<1>9. OneTokenOneCredential'
  BY <1>5, <1>8 DEF TokenInv, OneTokenOneCredential
<1> QED
  BY <1>4, <1>6, <1>7, <1>9 DEF TokenInv

\* An issue's DELETE takes the row's token away and hands out a new number.
LEMMA DeleteStep ==
    ASSUME TokenInv, NEW a \in Admins, DeleteToken(a)
    PROVE  TokenInv'
<1>1. /\ tokens' = tokens + 1
      /\ issue' = [issue EXCEPT ![a] = tokens + 1]
      /\ row' = NoRow
      /\ UNCHANGED exchanges
  BY DEF DeleteToken
<1>2. Shape'
  BY <1>1 DEF TokenInv, Shape, NoRow, None
<1>3. IssuedAreOld'
  BY <1>1 DEF TokenInv, Shape, IssuedAreOld, NoRow, None
<1>4. OnePlace'
  BY <1>1 DEF TokenInv, Shape, IssuedAreOld, OnePlace, NoRow, None
<1>5. OneTokenOneCredential'
  BY <1>1 DEF TokenInv, OneTokenOneCredential
<1> QED
  BY <1>2, <1>3, <1>4, <1>5 DEF TokenInv

\* An issue's INSERT moves its token from its hands to the row, or loses it.
LEMMA InsertStep ==
    ASSUME TokenInv, NEW a \in Admins,
           InsertToken(a) \/ InsertUnanswered(a) \/ InsertFails(a)
    PROVE  TokenInv'
<1>1. /\ \/ UNCHANGED row
         \/ issue[a] # None /\ row' = [token |-> issue[a], expired |-> FALSE]
      /\ issue' = [issue EXCEPT ![a] = None]
      /\ UNCHANGED <<tokens, exchanges>>
  BY DEF InsertToken, InsertUnanswered, InsertFails
<1>2. Shape'
  <2>1. issue[a] \in Nat /\ issue' \in [Admins -> Nat]
    BY <1>1 DEF TokenInv, Shape, None
  <2>2. row' \in [token: Nat, expired: BOOLEAN]
    <3>1. [token |-> issue[a], expired |-> FALSE] \in [token: Nat, expired: BOOLEAN]
      BY <2>1
    <3>2. row \in [token: Nat, expired: BOOLEAN]
      BY DEF TokenInv, Shape
    <3> QED
      BY <1>1, <3>1, <3>2
  <2> QED
    BY <1>1, <2>1, <2>2 DEF TokenInv, Shape
<1>3. IssuedAreOld'
  BY <1>1 DEF TokenInv, Shape, IssuedAreOld, None
<1>4. OnePlace'
  BY <1>1 DEF TokenInv, Shape, OnePlace, None
<1>5. OneTokenOneCredential'
  BY <1>1 DEF TokenInv, OneTokenOneCredential
<1> QED
  BY <1>2, <1>3, <1>4, <1>5 DEF TokenInv

\* A step that leaves tokens alone keeps what is said of them.
LEMMA TokenFrame ==
    ASSUME TokenInv, UNCHANGED <<tokens, issue, exchanges>>,
           row' = row \/ row' = [row EXCEPT !.expired = TRUE]
    PROVE  TokenInv'
<1>1. row' \in [token: Nat, expired: BOOLEAN] /\ row'.token = row.token
  BY DEF TokenInv, Shape
<1> QED
  BY <1>1 DEF TokenInv, Shape, IssuedAreOld, OnePlace, OneTokenOneCredential

\* Every step keeps each token in one place.
LEMMA TokenStep == TokenInv /\ [Next]_vars => TokenInv'
<1> SUFFICES ASSUME TokenInv, [Next]_vars PROVE TokenInv'
  OBVIOUS
<1>1. CASE UNCHANGED vars
  BY <1>1, TokenFrame DEF vars, panelVars
<1>2. ASSUME NEW a \in Admins, \/ DeleteToken(a) \/ InsertToken(a)
                             \/ InsertUnanswered(a) \/ InsertFails(a)
      PROVE  TokenInv'
  BY <1>2, DeleteStep, InsertStep
<1>3. CASE Expire
  BY <1>3, TokenFrame DEF Expire
<1>4. CASE Revoke
  BY <1>4, TokenFrame DEF Revoke
<1>5. ASSUME NEW token \in Tokens, EnrollLate(token) PROVE TokenInv'
  BY <1>5, TokenFrame, ExchangeStep DEF EnrollLate
<1>6. ASSUME NEW p \in Processes, ProcessStep(p) PROVE TokenInv'
  BY <1>6, ProcessFrame, TokenFrame, ExchangeStep DEF tokenVars
<1> QED
  BY <1>1, <1>2, <1>3, <1>4, <1>5, <1>6 DEF Next, PanelStep

\* A token makes one credential, however issues, late requests and enrollments
\* interleave.
THEOREM SingleUse == Spec => []OneTokenOneCredential
<1>1. Init => TokenInv
  BY DEF Init, TokenInv, Shape, IssuedAreOld, OnePlace, OneTokenOneCredential,
         NoRow, None
<1>2. TokenInv => OneTokenOneCredential
  BY DEF TokenInv
<1> QED
  BY <1>1, <1>2, TokenStep, PTL DEF Spec

-----------------------------------------------------------------------------
(* Types: as each token makes one credential, credentials have its bound. *)

\* A list of different numbers up to n is no longer than n.
LEMMA AtMostAsMany ==
    ASSUME NEW n \in Nat, NEW s \in Seq(Nat),
           \A i \in 1..Len(s) : s[i] \in 1..n,
           \A i, j \in 1..Len(s) : s[i] = s[j] => i = j
    PROVE  Len(s) <= n
<1> DEFINE m == Len(s)
<1>1. m \in Nat /\ m \in Int /\ n \in Int /\ 1 \in Int
  OBVIOUS
<1>2. /\ IsFiniteSet(1..m) /\ Cardinality(1..m) = m
      /\ IsFiniteSet(1..n) /\ Cardinality(1..n) = n
  <2>1. /\ IsFiniteSet(1..m) /\ IsFiniteSet(1..n)
        /\ Cardinality(1..m) = (IF 1 > m THEN 0 ELSE m - 1 + 1)
        /\ Cardinality(1..n) = (IF 1 > n THEN 0 ELSE n - 1 + 1)
    BY <1>1, FS_Interval
  <2> QED
    BY <1>1, <2>1
<1>3. s \in [1..m -> 1..n]
  OBVIOUS
<1>4. ASSUME n < m PROVE FALSE
  <2> HIDE DEF m
  <2>1. \E x, y \in 1..m : x # y /\ s[x] = s[y]
    BY <1>2, <1>3, <1>4, FS_PigeonHole, ZenonT(60)
  <2> QED
    BY <2>1 DEF m
<1> QED
  BY <1>1, <1>4

\* The panel's numbers are in their bounds after every step that keeps the
\* tokens in theirs.
LEMMA NumbersBounded ==
    ASSUME TokenInv, tokens <= MaxTokens
    PROVE  /\ row \in [token: Tokens \cup {None}, expired: BOOLEAN]
           /\ issue \in [Admins -> Tokens \cup {None}]
           /\ exchanges \in Seq(Tokens)
           /\ Len(exchanges) <= MaxTokens
<1>1. tokens \in Nat /\ MaxTokens \in Nat
  BY BoundsAssumption DEF TokenInv, Shape
<1>2. \A t \in Nat : t <= tokens => t \in Tokens \cup {None}
  BY <1>1 DEF Tokens, None
<1>3. row \in [token: Tokens \cup {None}, expired: BOOLEAN]
  BY <1>2 DEF TokenInv, Shape, IssuedAreOld
<1>4. issue \in [Admins -> Tokens \cup {None}]
  BY <1>2 DEF TokenInv, Shape, IssuedAreOld
<1>5. exchanges \in Seq(Nat) /\ \A i \in 1..Len(exchanges) : exchanges[i] \in 1..tokens
  BY DEF TokenInv, Shape, IssuedAreOld
<1>6. Len(exchanges) <= MaxTokens
  <2>1. Len(exchanges) <= tokens
    BY <1>1, <1>5, AtMostAsMany DEF TokenInv, OneTokenOneCredential
  <2> QED
    BY <1>1, <1>5, <2>1
<1>7. exchanges \in Seq(Tokens)
  <2>1. \A i \in 1..Len(exchanges) : exchanges[i] \in Tokens
    BY <1>1, <1>5 DEF Tokens
  <2> QED
    BY <1>5, <2>1
<1> QED
  BY <1>3, <1>4, <1>6, <1>7

\* What is posted is a token.
ProcessRecords ==
    {r \in [pc: {"off", "post", "answer", "write", "load", "up"},
            runs: BOOLEAN, token: Tokens \cup {None},
            cred: Credentials \cup {None}] : r.pc = "post" => r.token \in Tokens}

\* The node's part of the types, and what the panel has of agents.
Rest ==
    /\ tokens <= MaxTokens
    /\ gone \in {"never", "deleted", "exchanged", "failed"}
    /\ handed \in SUBSET Tokens
    /\ agent \in [cred: Credentials \cup {None}, revoked: BOOLEAN]
    /\ late \in SUBSET Tokens
    /\ process \in [Processes -> ProcessRecords]
    /\ config \in [file: {"missing", "broken", "written"},
                   cred: Credentials \cup {None}]
    /\ troubles \in 0..MaxTroubles

\* Troubles are counted up to their bound.
LEMMA TroublesStep ==
    ASSUME Rest, Trouble \/ UNCHANGED troubles
    PROVE  troubles' \in 0..MaxTroubles
BY BoundsAssumption DEF Rest, Trouble

\* An exchange creates the credential its number is for.
LEMMA ExchangeTypes ==
    ASSUME Rest, TokenInv, TokenInv', NEW token, ExchangeToken(token),
           tokens' = tokens
    PROVE  /\ Len(exchanges') \in Credentials
           /\ agent' \in [cred: Credentials \cup {None}, revoked: BOOLEAN]
           /\ gone' = "exchanged"
<1>1. exchanges \in Seq(Nat) /\ exchanges' = Append(exchanges, token)
      /\ exchanges' \in Seq(Nat)
  BY DEF ExchangeToken, TokenInv, Shape
<1>2. Len(exchanges') <= MaxTokens
  <2>1. /\ \A i \in 1..Len(exchanges') : exchanges'[i] \in 1..tokens
        /\ \A i, j \in 1..Len(exchanges') : exchanges'[i] = exchanges'[j] => i = j
    BY DEF TokenInv, IssuedAreOld, OneTokenOneCredential
  <2>2. tokens \in Nat /\ MaxTokens \in Nat /\ tokens <= MaxTokens
    BY BoundsAssumption DEF TokenInv, Shape, Rest
  <2>3. Len(exchanges') <= tokens
    BY <1>1, <2>1, <2>2, AtMostAsMany
  <2> QED
    BY <1>1, <2>2, <2>3
<1>3. Len(exchanges') \in Credentials
  <2>1. Len(exchanges') = Len(exchanges) + 1 /\ Len(exchanges) \in Nat
    BY <1>1
  <2> QED
    BY <1>2, <2>1, BoundsAssumption DEF Credentials
<1> QED
  BY <1>3 DEF ExchangeToken

\* A process record with its new place in the program.
LEMMA ProcessUpdated ==
    ASSUME Rest, NEW p \in Processes, NEW r \in ProcessRecords,
           process' = [process EXCEPT ![p] = r]
    PROVE  process' \in [Processes -> ProcessRecords]
BY DEF Rest

\* What the panel's own steps make of the rest.
LEMMA PanelRest ==
    ASSUME Rest, TokenInv, TokenInv', PanelStep
    PROVE  Rest'
<1>1. MaxTokens \in Nat /\ tokens \in Nat
  BY BoundsAssumption DEF TokenInv, Shape
<1>2. ASSUME NEW a \in Admins, DeleteToken(a) PROVE Rest'
  <2>1. /\ tokens' = tokens + 1 /\ tokens < MaxTokens /\ gone' = "deleted"
        /\ Trouble \/ UNCHANGED troubles
        /\ UNCHANGED <<handed, agent, late, process, config>>
    BY <1>2 DEF DeleteToken, NeededOr
  <2>2. tokens' <= MaxTokens /\ troubles' \in 0..MaxTroubles
    BY <1>1, <2>1, TroublesStep
  <2> QED
    BY <2>1, <2>2 DEF Rest
<1>3. ASSUME NEW a \in Admins, InsertToken(a) PROVE Rest'
  <2>1. issue[a] \in Tokens
    BY <1>3, NumbersBounded DEF InsertToken, Rest
  <2>2. handed' \in SUBSET Tokens
    BY <1>3, <2>1 DEF InsertToken, Rest
  <2> QED
    BY <1>3, <2>2 DEF InsertToken, Rest
<1>4. ASSUME NEW a \in Admins, InsertUnanswered(a) \/ InsertFails(a) PROVE Rest'
  <2>1. troubles' \in 0..MaxTroubles
    BY <1>4, TroublesStep DEF InsertUnanswered, InsertFails
  <2> QED
    BY <1>4, <2>1 DEF InsertUnanswered, InsertFails, Rest
<1>5. CASE Expire
  <2>1. troubles' \in 0..MaxTroubles
    BY <1>5, TroublesStep DEF Expire
  <2> QED
    BY <1>5, <2>1 DEF Expire, Rest
<1>6. CASE Revoke
  <2>1. troubles' \in 0..MaxTroubles
    BY <1>6, TroublesStep DEF Revoke
  <2>2. agent' \in [cred: Credentials \cup {None}, revoked: BOOLEAN]
    BY <1>6 DEF Revoke, Rest
  <2> QED
    BY <1>6, <2>1, <2>2 DEF Revoke, Rest
<1>7. ASSUME NEW token \in Tokens, EnrollLate(token) PROVE Rest'
  <2>1. CASE ExchangeToken(token)
    <3>1. tokens' = tokens
      BY <1>7 DEF EnrollLate
    <3>2. /\ agent' \in [cred: Credentials \cup {None}, revoked: BOOLEAN]
          /\ gone' = "exchanged"
      BY <2>1, <3>1, ExchangeTypes
    <3> QED
      BY <1>7, <3>2 DEF EnrollLate, Rest
  <2>2. CASE UNCHANGED <<gone, agent>>
    BY <1>7, <2>2 DEF EnrollLate, Rest
  <2> QED
    BY <1>7, <2>1, <2>2 DEF EnrollLate
<1> QED
  BY <1>2, <1>3, <1>4, <1>5, <1>6, <1>7 DEF PanelStep

\* What a process makes of the rest: its record stays one.
LEMMA ProcessRest ==
    ASSUME Rest, TokenInv, TokenInv', NEW p \in Processes, ProcessStep(p)
    PROVE  Rest'
<1>0. /\ process[p] \in ProcessRecords
      /\ Off \in ProcessRecords
  BY DEF Rest, ProcessRecords, Off, None
<1>1. ASSUME NEW token \in Tokens, CommandEnroll(p, token) \/ RunEnrolls(p, token)
      PROVE  Rest'
  <2>1. PICK runs \in BOOLEAN : Post(p, token, runs)
    BY <1>1 DEF CommandEnroll, RunEnrolls
  <2>2. Trouble \/ UNCHANGED troubles
    BY <1>1 DEF CommandEnroll, RunEnrolls, NeededOr
  <2>3. troubles' \in 0..MaxTroubles
    BY <2>2, TroublesStep
  <2>4. [Off EXCEPT !.pc = "post", !.token = token, !.runs = runs] \in ProcessRecords
    BY DEF ProcessRecords, Off, None
  <2>5. process' \in [Processes -> ProcessRecords]
    BY <2>1, <2>4, ProcessUpdated DEF Post
  <2> QED
    BY <2>1, <2>3, <2>5 DEF Post, panelVars, Rest
<1>2. CASE RunLoads(p)
  <2>1. troubles' \in 0..MaxTroubles
    BY <1>2, TroublesStep DEF RunLoads, NeededOr
  <2>2. [Off EXCEPT !.pc = "load", !.runs = TRUE] \in ProcessRecords
    BY DEF ProcessRecords, Off, None
  <2>3. process' \in [Processes -> ProcessRecords]
    BY <1>2, <2>2, ProcessUpdated DEF RunLoads
  <2> QED
    BY <1>2, <2>1, <2>3 DEF RunLoads, panelVars, Rest
<1>3. CASE Enroll(p)
  <2>1. CASE /\ ExchangeToken(process[p].token)
             /\ process' = [process EXCEPT ![p].pc = "answer",
                                           ![p].cred = Len(exchanges')]
    <3>1. tokens' = tokens
      BY <1>3 DEF Enroll
    <3>2. /\ Len(exchanges') \in Credentials
          /\ agent' \in [cred: Credentials \cup {None}, revoked: BOOLEAN]
          /\ gone' = "exchanged"
      BY <2>1, <3>1, ExchangeTypes
    <3>3. [process[p] EXCEPT !.pc = "answer", !.cred = Len(exchanges')]
              \in ProcessRecords
      BY <1>0, <3>2 DEF ProcessRecords
    <3>4. process' = [process EXCEPT ![p] =
                          [process[p] EXCEPT !.pc = "answer",
                                             !.cred = Len(exchanges')]]
      BY <2>1 DEF Rest
    <3>5. process' \in [Processes -> ProcessRecords]
      BY <3>3, <3>4, ProcessUpdated
    <3> QED
      BY <1>3, <3>2, <3>5 DEF Enroll, Rest
  <2>2. CASE /\ process' = [process EXCEPT ![p] = Off]
             /\ UNCHANGED <<row, gone, exchanges, agent>>
    <3>1. process' \in [Processes -> ProcessRecords]
      BY <1>0, <2>2, ProcessUpdated
    <3> QED
      BY <1>3, <2>2, <3>1 DEF Enroll, Rest
  <2> QED
    BY <1>3, <2>1, <2>2 DEF Enroll
<1>4. CASE TruncateConfig(p)
  <2>1. [process[p] EXCEPT !.pc = "write"] \in ProcessRecords
    BY <1>0 DEF ProcessRecords
  <2>2. process' = [process EXCEPT ![p] = [process[p] EXCEPT !.pc = "write"]]
    BY <1>4 DEF TruncateConfig, Rest
  <2>3. process' \in [Processes -> ProcessRecords]
    BY <2>1, <2>2, ProcessUpdated
  <2> QED
    BY <1>4, <2>3 DEF TruncateConfig, panelVars, Rest
<1>5. CASE WriteConfig(p)
  <2>1. [process[p] EXCEPT !.pc = "load"] \in ProcessRecords
    BY <1>0 DEF ProcessRecords
  <2>2. process' = [process EXCEPT ![p] = IF process[p].runs
                                          THEN [process[p] EXCEPT !.pc = "load"]
                                          ELSE Off]
    BY <1>5 DEF WriteConfig, Rest
  <2>3. process' \in [Processes -> ProcessRecords]
    BY <1>0, <2>1, <2>2, ProcessUpdated
  <2>4. config' \in [file: {"missing", "broken", "written"},
                     cred: Credentials \cup {None}]
    BY <1>0, <1>5 DEF WriteConfig, ProcessRecords
  <2> QED
    BY <1>5, <2>3, <2>4 DEF WriteConfig, panelVars, Rest
<1>6. CASE Load(p)
  <2>1. [Off EXCEPT !.pc = "up", !.runs = TRUE, !.cred = config.cred]
            \in ProcessRecords
    BY DEF ProcessRecords, Off, None, Rest
  <2>2. process' \in [Processes -> ProcessRecords]
    BY <1>0, <1>6, <2>1, ProcessUpdated DEF Load
  <2> QED
    BY <1>6, <2>2 DEF Load, panelVars, Rest
<1>7. CASE Stop(p)
  <2>1. process' \in [Processes -> ProcessRecords]
    BY <1>0, <1>7, ProcessUpdated DEF Stop
  <2> QED
    BY <1>7, <2>1 DEF Stop, panelVars, Rest
<1>8. CASE Dies(p)
  <2>1. process' \in [Processes -> ProcessRecords]
    BY <1>0, <1>8, ProcessUpdated DEF Dies
  <2>2. troubles' \in 0..MaxTroubles
    BY <1>8, TroublesStep DEF Dies
  <2>3. late' \in SUBSET Tokens
    BY <1>0, <1>8 DEF Dies, ProcessRecords, Rest
  <2> QED
    BY <1>8, <2>1, <2>2, <2>3 DEF Dies, Rest
<1> QED
  BY <1>1, <1>2, <1>3, <1>4, <1>5, <1>6, <1>7, <1>8 DEF ProcessStep

\* Every variable keeps its type: credentials, which nothing counts but the
\* exchanges, do not outnumber the tokens, as none is exchanged twice.
THEOREM TypeCorrect == Spec => []TypeOK
<1>1. Init => TokenInv /\ Rest
  <2> SUFFICES ASSUME Init PROVE TokenInv /\ Rest
    OBVIOUS
  <2>1. TokenInv
    BY DEF Init, TokenInv, Shape, IssuedAreOld, OnePlace, OneTokenOneCredential,
           NoRow, None
  <2>2. Off \in ProcessRecords
    BY DEF ProcessRecords, Off, None
  <2>3. process \in [Processes -> ProcessRecords]
    BY <2>2 DEF Init
  <2>4. tokens <= MaxTokens /\ troubles \in 0..MaxTroubles
    BY BoundsAssumption DEF Init
  <2> QED
    BY <2>1, <2>3, <2>4 DEF Init, Rest, None
<1>2. TokenInv /\ TokenInv' /\ Rest /\ [Next]_vars => Rest'
  <2> SUFFICES ASSUME TokenInv, TokenInv', Rest, [Next]_vars PROVE Rest'
    OBVIOUS
  <2>1. CASE UNCHANGED vars
    BY <2>1 DEF vars, panelVars, Rest
  <2> QED
    BY <2>1, PanelRest, ProcessRest DEF Next
<1>3. TokenInv /\ Rest => TypeOK
  <2> SUFFICES ASSUME TokenInv, Rest PROVE TypeOK
    OBVIOUS
  <2>1. /\ row \in [token: Tokens \cup {None}, expired: BOOLEAN]
        /\ issue \in [Admins -> Tokens \cup {None}]
        /\ exchanges \in Seq(Tokens) /\ Len(exchanges) <= MaxTokens
    BY NumbersBounded DEF Rest
  <2>2. tokens \in 0..MaxTokens
    BY BoundsAssumption DEF TokenInv, Shape, Rest
  <2>3. process \in [Processes -> [pc: {"off", "post", "answer", "write", "load", "up"},
                                   runs: BOOLEAN, token: Tokens \cup {None},
                                   cred: Credentials \cup {None}]]
    BY DEF Rest, ProcessRecords
  <2> QED
    BY <2>1, <2>2, <2>3 DEF Rest, TypeOK
<1> QED
  BY <1>1, <1>2, <1>3, TokenStep, PTL DEF Spec

-----------------------------------------------------------------------------
(* Overlapping issues. *)

IssueInv == Shape /\ OverlappingIssuesLeaveOne

\* Every step keeps what is said of overlapping issues.
LEMMA IssueStep == TokenInv /\ TokenInv' /\ IssueInv /\ [Next]_vars => IssueInv'
<1> SUFFICES ASSUME TokenInv, TokenInv', IssueInv, [Next]_vars PROVE IssueInv'
  OBVIOUS
<1>0. Shape /\ Shape'
  BY DEF TokenInv
<1>1. CASE UNCHANGED vars
  BY <1>0, <1>1 DEF IssueInv, OverlappingIssuesLeaveOne, vars, panelVars
<1>2. ASSUME NEW a \in Admins, DeleteToken(a) PROVE IssueInv'
  <2>1. issue'[a] = tokens + 1 /\ issue'[a] # None
    BY <1>0, <1>2 DEF DeleteToken, Shape, None
  <2> QED
    BY <1>0, <2>1 DEF IssueInv, OverlappingIssuesLeaveOne
<1>3. ASSUME NEW a \in Admins, InsertToken(a) \/ InsertUnanswered(a)
      PROVE  IssueInv'
  BY <1>0, <1>3 DEF InsertToken, InsertUnanswered, IssueInv,
                    OverlappingIssuesLeaveOne, NoRow
<1>4. ASSUME NEW a \in Admins, InsertFails(a) PROVE IssueInv'
  BY <1>0, <1>4 DEF InsertFails, IssueInv, OverlappingIssuesLeaveOne
<1>5. CASE Expire
  <2>1. row'.expired
    BY <1>0, <1>5 DEF Expire, Shape
  <2> QED
    BY <1>0, <2>1 DEF IssueInv, OverlappingIssuesLeaveOne, NoRow
<1>6. CASE Revoke
  BY <1>0, <1>6 DEF Revoke, IssueInv, OverlappingIssuesLeaveOne
<1>7. ASSUME NEW token \in Tokens, EnrollLate(token) PROVE IssueInv'
  BY <1>0, <1>7 DEF EnrollLate, ExchangeToken, IssueInv, OverlappingIssuesLeaveOne
<1>8. ASSUME NEW p \in Processes, ProcessStep(p) PROVE IssueInv'
  BY <1>0, <1>8, ProcessFrame
  DEF tokenVars, ExchangeToken, IssueInv, OverlappingIssuesLeaveOne
<1> QED
  BY <1>1, <1>2, <1>3, <1>4, <1>5, <1>6, <1>7, <1>8 DEF Next, PanelStep

\* A row deleted for a new token is missing only while a request still has to
\* insert its own, or after an insert failed, for any number of requests.
THEOREM OneIssueWins == Spec => []OverlappingIssuesLeaveOne
<1>1. Init => TokenInv /\ IssueInv
  BY DEF Init, TokenInv, Shape, IssuedAreOld, OnePlace, OneTokenOneCredential,
         IssueInv, OverlappingIssuesLeaveOne, NoRow, None
<1>2. TokenInv /\ IssueInv /\ [Next]_vars => TokenInv' /\ IssueInv'
  BY TokenStep, IssueStep
<1>3. IssueInv => OverlappingIssuesLeaveOne
  BY DEF IssueInv
<1> QED
  BY <1>1, <1>2, <1>3, PTL DEF Spec

-----------------------------------------------------------------------------
(* Refused credentials. *)

\* A new credential has a new number, so none of old is accepted again.
LEMMA RefusedByExchange ==
    ASSUME Shape, NEW token, ExchangeToken(token),
           NEW cred \in 1..Len(exchanges), ~Accepted(cred)
    PROVE  ~Accepted(cred)'
<1>1. agent'.cred = Len(exchanges) + 1
  BY DEF ExchangeToken, Live, Shape
<1> QED
  BY <1>1 DEF Accepted, Shape

\* No step accepts a credential that was refused.
LEMMA RefusedStep ==
    ASSUME Shape, [Next]_vars, NEW cred \in 1..Len(exchanges), ~Accepted(cred)
    PROVE  ~Accepted(cred)'
<1>1. CASE UNCHANGED agent
  BY <1>1 DEF Accepted
<1>2. CASE \E token : ExchangeToken(token)
  BY <1>2, RefusedByExchange
<1>3. CASE Revoke
  BY <1>3 DEF Revoke, Accepted
<1>4. \/ UNCHANGED agent
      \/ \E token : ExchangeToken(token)
      \/ Revoke
  <2>1. ASSUME NEW a \in Admins, \/ DeleteToken(a) \/ InsertToken(a)
                               \/ InsertUnanswered(a) \/ InsertFails(a)
        PROVE  UNCHANGED agent
    BY <2>1 DEF DeleteToken, InsertToken, InsertUnanswered, InsertFails
  <2>2. Expire => UNCHANGED agent
    BY DEF Expire
  <2>3. ASSUME NEW token \in Tokens, EnrollLate(token)
        PROVE  UNCHANGED agent \/ ExchangeToken(token)
    BY <2>3 DEF EnrollLate
  <2>4. ASSUME NEW p \in Processes, ProcessStep(p)
        PROVE  UNCHANGED agent \/ \E token : ExchangeToken(token)
    BY <2>4, ProcessFrame DEF tokenVars
  <2>5. UNCHANGED vars => UNCHANGED agent
    BY DEF vars, panelVars
  <2> QED
    BY <2>1, <2>2, <2>3, <2>4, <2>5 DEF Next, PanelStep
<1> QED
  BY <1>1, <1>2, <1>3, <1>4

\* No step makes a credential accepted again that was revoked or replaced.
THEOREM NeverAcceptedAgain == Spec => RefusedForGood
<1>1. Init => TokenInv
  BY DEF Init, TokenInv, Shape, IssuedAreOld, OnePlace, OneTokenOneCredential,
         NoRow, None
<1>2. TokenInv /\ [Next]_vars =>
        [\A cred \in 1..Len(exchanges) : ~Accepted(cred) => ~Accepted(cred)']_vars
  BY RefusedStep DEF TokenInv
<1> QED
  BY <1>1, <1>2, TokenStep, PTL DEF Spec, RefusedForGood
=============================================================================
