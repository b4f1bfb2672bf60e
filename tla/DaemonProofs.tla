---------------------------- MODULE DaemonProofs ----------------------------
(***************************************************************************)
(* Theorems about module Daemon, for any clients, backlog, number of tries *)
(* and of faults.                                                          *)
(***************************************************************************)
EXTENDS Daemon, TLAPS

\* The request sent on connection k has not taken effect.
Without(k, effects) == \A c \in Mutating : k \notin effects[c]

\* Neither this try of the client nor a later one has been answered or has
\* taken effect.
Fresh(k, answers, effects) ==
    \A n \in k[2]..MaxTries :
        answers[<< k[1], n >>].kind = "none" /\ Without(<< k[1], n >>, effects)

\* Tries of one client wait in their order.
Before(k, m) == k[1] = m[1] => k[2] < m[2]

QueueInOrder ==
    /\ \A i \in 1..Len(queue) : Fresh(queue[i], answer, applied) /\ queue[i][2] <= tries[queue[i][1]]
    /\ \A i, j \in 1..Len(queue) : i < j => Before(queue[i], queue[j])

\* What is being served comes before what waits; of it and the later tries of
\* its client at most it has taken effect.
ServedInOrder ==
    call # NoCall =>
        /\ call[2] <= tries[call[1]]
        /\ \A i \in 1..Len(queue) : Before(call, queue[i])
        /\ \A n \in call[2]..MaxTries : answer[<< call[1], n >>].kind = "none"
        /\ \A n \in call[2] + 1 .. MaxTries : Without(<< call[1], n >>, applied)
        /\ at # "reply" => Without(call, applied)

\* What answer r to connection k says agrees with what has taken effect.
Settled(k, r, effects) ==
    /\ r.kind = "success" => \E c \in Mutating : k \in effects[c]
    /\ r.kind = "report" =>
          /\ r.of \in Mutating
          /\ r.shown = {m \in effects[r.of] : m[1] = k[1] /\ m[2] < k[2]}

\* So do all answers which have been sent, and the reply which is to be sent.
AnswersSettled == \A k \in Calls : Settled(k, answer[k], applied)

ReplySettled == at = "reply" => Settled(call, result, applied)

\* A try which has not been made has left nothing behind.
Untried ==
    \A c \in Clients : \A n \in tries[c] + 1 .. MaxTries :
        answer[<< c, n >>].kind = "none" /\ Without(<< c, n >>, applied)

IInv ==
    /\ TypeOK
    /\ QueueInOrder
    /\ ServedInOrder
    /\ Untried
    /\ AnswersSettled
    /\ ReplySettled

-----------------------------------------------------------------------------

\* A plain answer is an answer, and no report.
LEMMA PlainIsAnswer ==
    ASSUME NEW kind \in Kinds
    PROVE  Plain(kind) \in Answers /\ Plain(kind).kind = kind
BY DEF Plain, Answers

\* No connection is the absence of one.
LEMMA NoCallIsNone == \A k \in Calls : k # NoCall
BY DEF Calls, NoCall

\* A connection is a client and the number of its try.
LEMMA CallParts ==
    ASSUME NEW k \in Calls
    PROVE  /\ k[1] \in Clients /\ k[2] \in 1..MaxTries /\ k[2] \in Nat
           /\ k = << k[1], k[2] >>
BY BoundAssumption DEF Calls

LEMMA Initially == Init => IInv
<1> SUFFICES ASSUME Init
             PROVE  IInv
  OBVIOUS
<1>1. TypeOK
  <2>1. at \in Places /\ (at \in Serving <=> call # NoCall)
    BY DEF Init, Places, Starting, Serving
  <2>2. queue \in Seq(Calls) /\ Len(queue) <= Backlog + 1
    BY BoundAssumption DEF Init
  <2>3. sent \in [Calls -> Classes \cup {Nothing}] /\ answer \in [Calls -> Answers]
    BY PlainIsAnswer DEF Init, Kinds
  <2>4. tries \in [Clients -> 0..MaxTries] /\ faults \in 0..MaxFaults
    BY BoundAssumption DEF Init
  <2>5. result \in Answers
    BY PlainIsAnswer DEF Init, Kinds
  <2> QED BY <2>1, <2>2, <2>3, <2>4, <2>5 DEF Init, TypeOK
<1>2. QueueInOrder /\ ServedInOrder
  BY DEF Init, QueueInOrder, ServedInOrder
<1>3. Untried /\ AnswersSettled /\ ReplySettled
  <2>1. Plain("none").kind = "none"
    BY DEF Plain
  <2>2. \A k \in Calls : answer[k].kind = "none" /\ Without(k, applied)
    BY <2>1 DEF Init, Without
  <2>3. \A c \in Clients : \A n \in tries[c] + 1 .. MaxTries : << c, n >> \in Calls
    BY BoundAssumption DEF Init, Calls
  <2> QED BY <2>2, <2>3 DEF Init, Untried, AnswersSettled, ReplySettled, Settled
<1> QED BY <1>1, <1>2, <1>3 DEF IInv

\* When the process ends, nothing waits and nothing is served.
LEMMA DieKeeps ==
    ASSUME IInv, Die, UNCHANGED << answer, tries >>, applied' \in [Mutating -> SUBSET Calls],
           socket' \in BOOLEAN, intact' \in BOOLEAN, faults' \in 0..MaxFaults,
           Untried', AnswersSettled'
    PROVE  IInv'
<1>1. TypeOK'
  <2>1. result' \in Answers
    BY PlainIsAnswer DEF Die, Kinds
  <2> QED BY <2>1, BoundAssumption DEF IInv, TypeOK, Die, Places, Serving
<1>2. QueueInOrder' /\ ServedInOrder' /\ ReplySettled'
  BY DEF Die, QueueInOrder, ServedInOrder, ReplySettled
<1> QED BY <1>1, <1>2 DEF IInv

\* A death without a last effect.
LEMMA DieUnappliedKeeps ==
    ASSUME IInv, Die, UNCHANGED << answer, tries, applied >>,
           socket' \in BOOLEAN, intact' \in BOOLEAN, faults' \in 0..MaxFaults
    PROVE  IInv'
<1>1. Untried' /\ AnswersSettled' /\ applied' \in [Mutating -> SUBSET Calls]
  BY DEF IInv, TypeOK, Untried, AnswersSettled
<1> QED BY <1>1, DieKeeps

\* Steps which neither take, answer nor apply a request.
LEMMA QuietKeeps ==
    ASSUME IInv, UNCHANGED << call, queue, answer, applied, tries >>,
           at' \in Places, at' \in Serving <=> at \in Serving,
           at' = "reply" <=> at = "reply", at = "reply" => result' = result,
           result' \in Answers, open' \subseteq Calls,
           sent' \in [Calls -> Classes \cup {Nothing}],
           socket' \in BOOLEAN, intact' \in BOOLEAN, faults' \in 0..MaxFaults
    PROVE  IInv'
<1>1. TypeOK'
  BY DEF IInv, TypeOK
<1>2. QueueInOrder' /\ Untried' /\ AnswersSettled'
  BY DEF IInv, QueueInOrder, Fresh, Before, Untried, AnswersSettled
<1>3. ServedInOrder' /\ ReplySettled'
  BY DEF IInv, ServedInOrder, ReplySettled, Before
<1> QED BY <1>1, <1>2, <1>3 DEF IInv

\* Start, Import, Validate, Unlink, Bind and Listen.
LEMMA StartingKeeps ==
    ASSUME IInv, Start \/ Import \/ Validate \/ Unlink \/ Bind \/ Listen
    PROVE  IInv'
<1>1. /\ UNCHANGED << answer, tries, applied >>
      /\ socket' \in BOOLEAN /\ intact' \in BOOLEAN /\ faults' \in 0..MaxFaults
  BY DEF Start, Import, Validate, Unlink, Bind, Listen, clients, IInv, TypeOK
<1>2. CASE Die
  BY <1>1, <1>2, DieUnappliedKeeps
<1>3. CASE /\ at \in {"down"} \cup Starting
           /\ \E place \in Starting \cup {"accept"} : Goto(place)
  <2>1. /\ UNCHANGED << call, result, queue, open, sent >>
        /\ at' \in Places /\ at' \notin Serving /\ at' # "reply"
        /\ at \notin Serving /\ at # "reply"
    BY <1>3 DEF Goto, Starting, Serving, Places
  <2> QED BY <1>1, <2>1, QuietKeeps DEF IInv, TypeOK
<1> QED BY <1>2, <1>3 DEF Start, Import, Validate, Unlink, Bind, Listen, Starting

LEMMA AcceptKeeps ==
    ASSUME IInv, Accept
    PROVE  IInv'
<1>1. /\ queue \in Seq(Calls) /\ queue # << >>
      /\ queue' = Tail(queue) /\ call' = Head(queue) /\ at' = "receive"
      /\ UNCHANGED << result, open, sent, answer, tries, applied, socket, intact, faults >>
  BY DEF Accept, IInv, TypeOK, clients
<1>2. /\ queue' \in Seq(Calls) /\ Len(queue') = Len(queue) - 1
      /\ call' = queue[1] /\ call' \in Calls
      /\ Len(queue) \in Nat /\ Len(queue) >= 1
      /\ \A i \in 1..Len(queue') : queue'[i] = queue[i + 1] /\ i + 1 \in 1..Len(queue)
  BY <1>1
<1>3. TypeOK'
  BY <1>1, <1>2, NoCallIsNone, BoundAssumption DEF IInv, TypeOK, Places, Serving
<1>4. QueueInOrder'
  BY <1>1, <1>2 DEF IInv, QueueInOrder, Fresh, Before
<1>5. ServedInOrder'
  <2>1. Fresh(call', answer, applied) /\ call'[2] <= tries[call'[1]]
    BY <1>2 DEF IInv, QueueInOrder
  <2>2. \A i \in 1..Len(queue') : Before(call', queue'[i])
    BY <1>2 DEF IInv, QueueInOrder
  <2>3. Without(call', applied)
    BY <1>2, <2>1, CallParts DEF Fresh
  <2>4. call'[2] \in 1..MaxTries
    BY <1>2, CallParts
  <2> QED BY <1>1, <2>1, <2>2, <2>3, <2>4, BoundAssumption DEF ServedInOrder, Fresh, Before
<1>6. Untried' /\ AnswersSettled' /\ ReplySettled'
  BY <1>1 DEF IInv, Untried, AnswersSettled, ReplySettled
<1> QED BY <1>3, <1>4, <1>5, <1>6 DEF IInv

LEMMA ReceiveKeeps ==
    ASSUME IInv, Receive
    PROVE  IInv'
<1>1. CASE sent[call] # Nothing
  <2>1. at' = "handle" /\ UNCHANGED call
    BY <1>1 DEF Receive
  <2> QED BY <2>1, QuietKeeps DEF Receive, clients, IInv, TypeOK, Places, Serving
<1>2. CASE sent[call] = Nothing
  <2>1. at' = "accept" /\ call' = NoCall
    BY <1>2 DEF Receive
  <2>2. TypeOK'
    BY <2>1 DEF Receive, clients, IInv, TypeOK, Places, Serving
  <2>3. QueueInOrder' /\ Untried' /\ AnswersSettled'
    BY DEF Receive, clients, IInv, QueueInOrder, Fresh, Before, Untried, AnswersSettled
  <2> QED BY <2>1, <2>2, <2>3 DEF IInv, ServedInOrder, ReplySettled
<1> QED BY <1>1, <1>2

\* A request which is handled: what of it is known before.
LEMMA Handled ==
    ASSUME IInv, at = "handle"
    PROVE  /\ call \in Calls /\ call # NoCall
           /\ Without(call, applied)
           /\ answer[call].kind = "none"
           /\ call[2] <= tries[call[1]]
<1>1. call \in Calls /\ call # NoCall
  BY DEF IInv, TypeOK, Serving
<1>2. answer[<< call[1], call[2] >>].kind = "none"
  BY <1>1, CallParts, BoundAssumption DEF IInv, ServedInOrder
<1> QED BY <1>1, <1>2, CallParts DEF IInv, ServedInOrder

\* A request which has changed nothing is answered.
LEMMA UnappliedKeeps ==
    ASSUME IInv, at = "handle", NEW r \in Answers, Respond(r), Settled(call, r, applied),
           UNCHANGED << clients, applied, socket, intact, faults >>
    PROVE  IInv'
<1>1. TypeOK'
  BY DEF Respond, clients, IInv, TypeOK, Places, Serving
<1>2. QueueInOrder' /\ Untried' /\ AnswersSettled'
  BY DEF Respond, clients, IInv, QueueInOrder, Fresh, Before, Untried, AnswersSettled
<1>3. ServedInOrder' /\ ReplySettled'
  BY DEF Respond, clients, IInv, ServedInOrder, ReplySettled, Before
<1> QED BY <1>1, <1>2, <1>3 DEF IInv

\* An error says nothing, and neither does a report without the state.
LEMMA SilentKeeps ==
    ASSUME IInv, at = "handle", NEW kind \in {"error", "blank"}, Respond(Plain(kind)),
           UNCHANGED << clients, applied, socket, intact, faults >>
    PROVE  IInv'
<1>1. Plain(kind) \in Answers /\ Plain(kind).kind = kind
  BY PlainIsAnswer DEF Kinds
<1> QED BY <1>1, UnappliedKeeps DEF Settled

LEMMA RefuseKeeps ==
    ASSUME IInv, Refuse
    PROVE  IInv'
BY SilentKeeps DEF Refuse

\* What has taken effect of the client's requests was sent before this one.
LEMMA ReportKeeps ==
    ASSUME IInv, Report
    PROVE  IInv'
<1>1. at = "handle" /\ UNCHANGED << clients, applied, socket, intact, faults >>
  BY DEF Report
<1>2. CASE Respond(Showing(applied[Subject]))
  <2> DEFINE r == Showing(applied[Subject])
  <2>1. /\ Subject \in Mutating /\ applied[Subject] \subseteq Calls
        /\ r.kind = "report" /\ r.of = Subject
        /\ r.shown = {k \in applied[Subject] : k[1] = call[1]}
    BY DEF Subject, Showing, Mutating, IInv, TypeOK
  <2>2. r \in Answers
    BY <2>1 DEF Showing, Answers, Kinds
  <2>3. call \in Calls
    BY <1>1, Handled
  <2>4. ASSUME NEW m \in applied[Subject], m[1] = call[1]
        PROVE  m[2] < call[2]
    <3>1. m \in Calls /\ m = << call[1], m[2] >> /\ m[2] \in 1..MaxTries
      BY <2>1, <2>4, CallParts
    <3>2. call = << call[1], call[2] >> /\ call[2] \in 1..MaxTries
      BY <2>3, CallParts
    <3>3. Without(call, applied) /\ \A n \in call[2] + 1 .. MaxTries : Without(<< call[1], n >>, applied)
      BY <1>1, Handled DEF IInv, ServedInOrder
    <3>4. m[2] # call[2] /\ m[2] \notin call[2] + 1 .. MaxTries
      BY <2>1, <2>4, <3>1, <3>2, <3>3 DEF Without
    <3> QED BY <3>1, <3>2, <3>4, BoundAssumption
  <2>5. Settled(call, r, applied)
    BY <2>1, <2>4 DEF Settled
  <2> QED BY <1>1, <1>2, <2>2, <2>5, UnappliedKeeps
<1>3. CASE Respond(Plain("blank"))
  BY <1>1, <1>3, SilentKeeps
<1> QED BY <1>2, <1>3 DEF Report

\* The effect of the request being handled disturbs no other one.
LEMMA AppliedElsewhere ==
    ASSUME IInv, at = "handle", sent[call] \in Mutating, TakeEffect, UNCHANGED << answer, tries >>
    PROVE  /\ applied' \in [Mutating -> SUBSET Calls]
           /\ Untried' /\ AnswersSettled'
           /\ \A i \in 1..Len(queue) : Fresh(queue[i], answer', applied')
           /\ \A n \in call[2] + 1 .. MaxTries : Without(<< call[1], n >>, applied')
           /\ \E c \in Mutating : call \in applied'[c]
<1>1. /\ call \in Calls /\ call # NoCall /\ answer[call].kind = "none"
      /\ call[2] <= tries[call[1]]
  BY Handled
<1>2. call[1] \in Clients /\ call[2] \in Nat /\ call = << call[1], call[2] >>
  BY <1>1, CallParts
<1>3. tries \in [Clients -> 0..MaxTries] /\ MaxTries \in Nat
  BY BoundAssumption DEF IInv, TypeOK
<1>4. /\ applied' \in [Mutating -> SUBSET Calls] /\ call \in applied'[sent[call]]
      /\ \A c \in Mutating : applied[c] \subseteq applied'[c] /\ applied'[c] \subseteq applied[c] \cup {call}
  BY <1>1 DEF TakeEffect, IInv, TypeOK
<1>5. \A k : k # call /\ Without(k, applied) => Without(k, applied')
  BY <1>4 DEF Without
<1>6. Untried'
  <2>1. \A c \in Clients : \A n \in tries[c] + 1 .. MaxTries : << c, n >> # call
    BY <1>1, <1>2, <1>3
  <2> QED BY <1>5, <2>1 DEF IInv, Untried
<1>7. AnswersSettled'
  <2> SUFFICES ASSUME NEW k \in Calls
               PROVE  Settled(k, answer[k], applied')
    BY DEF AnswersSettled
  <2>1. Settled(k, answer[k], applied)
    BY DEF IInv, AnswersSettled
  <2>2. answer[k].kind = "success" => \E c \in Mutating : k \in applied'[c]
    BY <1>4, <2>1 DEF Settled
  <2>3. ASSUME answer[k].kind = "report"
        PROVE  ~(call[1] = k[1] /\ call[2] < k[2])
    <3>1. k[2] \in 1..MaxTries /\ k = << k[1], k[2] >>
      BY CallParts
    <3>2. \A n \in call[2]..MaxTries : answer[<< call[1], n >>].kind = "none"
      BY <1>1 DEF IInv, ServedInOrder
    <3> QED BY <1>2, <1>3, <2>3, <3>1, <3>2
  <2>4. ASSUME answer[k].kind = "report"
        PROVE  /\ answer[k].of \in Mutating
               /\ answer[k].shown = {m \in applied'[answer[k].of] : m[1] = k[1] /\ m[2] < k[2]}
    BY <1>4, <2>1, <2>3, <2>4 DEF Settled
  <2> QED BY <2>2, <2>4 DEF Settled
<1>8. ASSUME NEW i \in 1..Len(queue)
      PROVE  Fresh(queue[i], answer', applied')
  <2>1. Fresh(queue[i], answer, applied) /\ Before(call, queue[i]) /\ queue[i] \in Calls
    BY <1>1 DEF IInv, QueueInOrder, ServedInOrder, TypeOK
  <2>2. queue[i][2] \in Nat
    BY <2>1, CallParts
  <2>3. \A n \in queue[i][2]..MaxTries : << queue[i][1], n >> # call
    BY <1>2, <1>3, <2>1, <2>2 DEF Before
  <2> QED BY <1>5, <2>1, <2>3 DEF Fresh
<1>9. \A n \in call[2] + 1 .. MaxTries : Without(<< call[1], n >>, applied')
  <2>1. \A n \in call[2] + 1 .. MaxTries : << call[1], n >> # call
    BY <1>2, <1>3
  <2> QED BY <1>1, <1>5, <2>1 DEF IInv, ServedInOrder
<1> QED BY <1>4, <1>6, <1>7, <1>8, <1>9

\* The change is made.  The reply may be lost with the daemon.
LEMMA TransactKeeps ==
    ASSUME IInv, Transact
    PROVE  IInv'
<1>1. /\ at = "handle" /\ sent[call] \in Mutating /\ TakeEffect
      /\ UNCHANGED << answer, tries, socket, intact, faults >>
  BY DEF Transact, clients
<1>2. /\ Untried' /\ AnswersSettled' /\ applied' \in [Mutating -> SUBSET Calls]
      /\ \A n \in call[2] + 1 .. MaxTries : Without(<< call[1], n >>, applied')
      /\ \A i \in 1..Len(queue) : Fresh(queue[i], answer', applied')
      /\ \E c \in Mutating : call \in applied'[c]
  BY <1>1, AppliedElsewhere
<1>3. CASE Die
  BY <1>1, <1>2, <1>3, DieKeeps DEF IInv, TypeOK
<1>4. ASSUME NEW kind \in {"success", "error"}, Respond(Plain(kind))
      PROVE  IInv'
  <2>1. /\ at' = "reply" /\ result' = Plain(kind)
        /\ UNCHANGED << call, queue, open, sent >>
    BY <1>4 DEF Respond
  <2>2. result' \in Answers /\ result'.kind = kind
    BY <2>1, PlainIsAnswer DEF Kinds
  <2>3. TypeOK'
    BY <1>1, <1>2, <2>1, <2>2 DEF IInv, TypeOK, Places, Serving
  <2>4. QueueInOrder'
    BY <1>1, <1>2, <2>1 DEF IInv, QueueInOrder, Before
  <2>5. ServedInOrder'
    BY <1>1, <1>2, <2>1 DEF IInv, ServedInOrder, Before
  <2>6. ReplySettled'
    BY <1>2, <2>1, <2>2 DEF ReplySettled, Settled
  <2> QED BY <1>2, <2>3, <2>4, <2>5, <2>6 DEF IInv
<1> QED BY <1>3, <1>4 DEF Transact

LEMMA FindCorruptKeeps ==
    ASSUME IInv, FindCorrupt
    PROVE  IInv'
<1>1. CASE Respond(Plain("error"))
  BY <1>1, SilentKeeps DEF FindCorrupt
<1>2. CASE Die
  BY <1>2, DieUnappliedKeeps DEF FindCorrupt, clients, IInv, TypeOK
<1> QED BY <1>1, <1>2 DEF FindCorrupt

\* The reply agrees with what the request has done, and what waits of the
\* same client are later tries.
LEMMA ReplyKeeps ==
    ASSUME IInv, Reply
    PROVE  IInv'
<1>1. CASE call \notin open
  BY <1>1, DieUnappliedKeeps DEF Reply, IInv, TypeOK
<1>2. CASE call \in open
  <2>1. /\ answer' = [answer EXCEPT ![call] = result] /\ open' = open \ {call}
        /\ sent' = [sent EXCEPT ![call] = Nothing]
        /\ at' = "accept" /\ call' = NoCall /\ result' = Plain("none")
        /\ UNCHANGED << queue, applied, tries, socket, intact, faults >>
    BY <1>2 DEF Reply
  <2>2. /\ at = "reply" /\ call \in Calls /\ call # NoCall
        /\ answer \in [Calls -> Answers] /\ result \in Answers /\ tries \in [Clients -> 0..MaxTries]
    BY DEF Reply, IInv, TypeOK, Serving
  <2>3. call[1] \in Clients /\ call[2] \in Nat /\ call = << call[1], call[2] >>
    BY <2>2, CallParts
  <2>4. TypeOK'
    <3>1. result' \in Answers
      BY <2>1, PlainIsAnswer DEF Kinds
    <3> QED BY <2>1, <2>2, <3>1 DEF IInv, TypeOK, Places, Serving
  <2>5. AnswersSettled'
    BY <2>1, <2>2 DEF IInv, AnswersSettled, ReplySettled
  <2>6. \A c \in Clients : \A n \in tries[c] + 1 .. MaxTries : << c, n >> # call
    BY <2>2, <2>3, BoundAssumption DEF IInv, ServedInOrder
  <2>7. \A c \in Clients : \A n \in tries[c] + 1 .. MaxTries : << c, n >> \in Calls
    BY <2>2, BoundAssumption DEF Calls
  <2>8. Untried'
    <3> SUFFICES ASSUME NEW c \in Clients, NEW n \in tries[c] + 1 .. MaxTries
                 PROVE  answer'[<< c, n >>].kind = "none" /\ Without(<< c, n >>, applied)
      BY <2>1 DEF Untried
    <3> QED BY <2>1, <2>2, <2>6, <2>7 DEF IInv, Untried
  <2>9. ASSUME NEW i \in 1..Len(queue)
        PROVE  Fresh(queue[i], answer', applied')
    <3>1. Fresh(queue[i], answer, applied) /\ Before(call, queue[i]) /\ queue[i] \in Calls
      BY <2>2 DEF IInv, QueueInOrder, ServedInOrder, TypeOK
    <3>2. queue[i][1] \in Clients /\ queue[i][2] \in 1..MaxTries
      BY <3>1, CallParts
    <3>3. \A n \in queue[i][2]..MaxTries :
              << queue[i][1], n >> # call /\ << queue[i][1], n >> \in Calls
      BY <2>3, <3>1, <3>2, BoundAssumption DEF Before, Calls
    <3> QED BY <2>1, <2>2, <3>1, <3>3 DEF Fresh
  <2>10. QueueInOrder'
    BY <2>1, <2>9 DEF IInv, QueueInOrder, Before
  <2> QED BY <2>1, <2>4, <2>5, <2>8, <2>10 DEF IInv, ServedInOrder, ReplySettled
<1> QED BY <1>1, <1>2

\* A new try comes after all others of its client.
LEMMA ConnectKeeps ==
    ASSUME IInv, NEW c \in Clients, Connect(c)
    PROVE  IInv'
<1> DEFINE k == << c, tries[c] + 1 >>
<1>1. /\ tries' = [tries EXCEPT ![c] = @ + 1] /\ tries[c] < MaxTries
      /\ Len(queue) <= Backlog
      /\ queue' = Append(queue, k) /\ open' = open \cup {k}
      /\ UNCHANGED << at, call, result, sent, answer, applied, socket, intact, faults >>
  BY DEF Connect
<1>2. /\ tries \in [Clients -> 0..MaxTries] /\ queue \in Seq(Calls)
      /\ MaxTries \in Nat /\ Backlog \in Nat
  BY BoundAssumption DEF IInv, TypeOK
<1>3. tries[c] + 1 \in 1..MaxTries /\ k \in Calls /\ k[1] = c /\ k[2] = tries[c] + 1
  BY <1>1, <1>2 DEF Calls
<1>4. /\ queue' \in Seq(Calls) /\ Len(queue') = Len(queue) + 1 /\ Len(queue) \in Nat
      /\ queue'[Len(queue')] = k
      /\ \A i \in 1..Len(queue) : queue'[i] = queue[i]
  BY <1>1, <1>2, <1>3
<1>5. \A d \in Clients : tries'[d] \in 0..MaxTries /\ tries[d] <= tries'[d]
  BY <1>1, <1>2
<1>6. TypeOK'
  <2>1. tries' \in [Clients -> 0..MaxTries]
    BY <1>1, <1>2, <1>3
  <2>2. open' \subseteq Calls
    BY <1>1, <1>3 DEF IInv, TypeOK
  <2>3. Len(queue') <= Backlog + 1
    BY <1>1, <1>2, <1>4
  <2> QED BY <1>1, <1>4, <2>1, <2>2, <2>3 DEF IInv, TypeOK
<1>7. Fresh(k, answer, applied)
  BY <1>2, <1>3 DEF IInv, Untried, Fresh
<1>8. \A i \in 1..Len(queue) : queue[i] \in Calls /\ Before(queue[i], k)
  <2> SUFFICES ASSUME NEW i \in 1..Len(queue)
               PROVE  queue[i] \in Calls /\ Before(queue[i], k)
    OBVIOUS
  <2>1. queue[i] \in Calls /\ queue[i][2] <= tries[queue[i][1]]
    BY <1>2 DEF IInv, QueueInOrder
  <2>2. queue[i][2] \in Nat
    BY <2>1, CallParts
  <2> QED BY <1>2, <1>3, <2>1, <2>2 DEF Before
<1>9. QueueInOrder'
  <2>1. ASSUME NEW i \in 1..Len(queue')
        PROVE  Fresh(queue'[i], answer', applied') /\ queue'[i][2] <= tries'[queue'[i][1]]
    <3>1. CASE i = Len(queue')
      <4>1. queue'[i] = k /\ tries'[c] = tries[c] + 1
        BY <1>1, <1>2, <1>4, <3>1
      <4> QED BY <1>1, <1>3, <1>7, <4>1 DEF Fresh
    <3>2. CASE i # Len(queue')
      <4>1. i \in 1..Len(queue) /\ queue'[i] = queue[i]
        BY <1>4, <3>2
      <4>2. Fresh(queue[i], answer, applied) /\ queue[i][2] <= tries[queue[i][1]]
        BY <4>1 DEF IInv, QueueInOrder
      <4>3. queue[i][1] \in Clients /\ queue[i][2] \in Nat
        BY <1>8, <4>1, CallParts
      <4>4. queue[i][2] <= tries'[queue[i][1]]
        BY <1>2, <1>5, <4>2, <4>3
      <4> QED BY <1>1, <4>1, <4>2, <4>4 DEF Fresh
    <3> QED BY <3>1, <3>2
  <2>2. ASSUME NEW i \in 1..Len(queue'), NEW j \in 1..Len(queue'), i < j
        PROVE  Before(queue'[i], queue'[j])
    <3>1. i \in 1..Len(queue) /\ queue'[i] = queue[i]
      BY <1>4, <2>2
    <3>2. CASE j = Len(queue')
      BY <1>4, <1>8, <3>1, <3>2
    <3>3. CASE j # Len(queue')
      <4>1. j \in 1..Len(queue) /\ queue'[j] = queue[j]
        BY <1>4, <3>3
      <4> QED BY <2>2, <3>1, <4>1 DEF IInv, QueueInOrder
    <3> QED BY <3>2, <3>3
  <2> QED BY <2>1, <2>2 DEF QueueInOrder, Before
<1>10. ServedInOrder'
  <2> SUFFICES ASSUME call # NoCall
               PROVE  ServedInOrder'
    BY <1>1 DEF ServedInOrder
  <2>1. call \in Calls /\ call[2] <= tries[call[1]]
    BY DEF IInv, TypeOK, ServedInOrder
  <2>2. call[1] \in Clients /\ call[2] \in Nat
    BY <2>1, CallParts
  <2>3. call[2] <= tries'[call[1]]
    BY <1>2, <1>5, <2>1, <2>2
  <2>4. \A i \in 1..Len(queue') : Before(call, queue'[i])
    <3> SUFFICES ASSUME NEW i \in 1..Len(queue')
                 PROVE  Before(call, queue'[i])
      OBVIOUS
    <3>1. CASE i = Len(queue')
      BY <1>2, <1>3, <1>4, <2>1, <2>2, <3>1 DEF Before
    <3>2. CASE i # Len(queue')
      <4>1. i \in 1..Len(queue) /\ queue'[i] = queue[i]
        BY <1>4, <3>2
      <4> QED BY <4>1 DEF IInv, ServedInOrder
    <3> QED BY <3>1, <3>2
  <2> QED BY <1>1, <2>3, <2>4 DEF IInv, ServedInOrder, Before
<1>11. Untried' /\ AnswersSettled' /\ ReplySettled'
  BY <1>1, <1>2, <1>5 DEF IInv, Untried, AnswersSettled, ReplySettled
<1> QED BY <1>6, <1>9, <1>10, <1>11 DEF IInv

\* Send, GiveUp, Corrupt and Repair.
LEMMA OutsideKeeps ==
    ASSUME IInv,
           \/ \E k \in Calls, r \in Classes : Send(k, r)
           \/ \E k \in Calls : GiveUp(k)
           \/ Corrupt
           \/ Repair
    PROVE  IInv'
<1>1. UNCHANGED << at, call, result, queue, answer, applied, tries, socket >>
  BY DEF Send, GiveUp, Corrupt, Repair, clients
<1>2. open' \subseteq open
  BY DEF Send, GiveUp, Corrupt, Repair
<1>3. intact' \in BOOLEAN
  BY DEF Send, GiveUp, Corrupt, Repair, IInv, TypeOK
<1>4. faults' \in 0..MaxFaults
  BY BoundAssumption DEF Send, GiveUp, Corrupt, Repair, IInv, TypeOK
<1>5. sent' \in [Calls -> Classes \cup {Nothing}]
  BY DEF Send, GiveUp, Corrupt, Repair, IInv, TypeOK
<1> QED BY <1>1, <1>2, <1>3, <1>4, <1>5, QuietKeeps DEF IInv, TypeOK

\* A daemon which is killed may have applied the request it was handling.
LEMMA KillKeeps ==
    ASSUME IInv, Kill
    PROVE  IInv'
<1>1. /\ Die /\ UNCHANGED << answer, tries >>
      /\ socket' \in BOOLEAN /\ intact' \in BOOLEAN /\ faults' \in 0..MaxFaults
  BY BoundAssumption DEF Kill, clients, IInv, TypeOK
<1>2. CASE UNCHANGED applied
  BY <1>1, <1>2, DieUnappliedKeeps
<1>3. CASE at = "handle" /\ sent[call] \in Mutating /\ TakeEffect
  <2>1. applied' \in [Mutating -> SUBSET Calls] /\ Untried' /\ AnswersSettled'
    BY <1>1, <1>3, AppliedElsewhere
  <2> QED BY <1>1, <2>1, DieKeeps
<1> QED BY <1>2, <1>3 DEF Kill

LEMMA StutterKeeps ==
    ASSUME IInv, UNCHANGED vars
    PROVE  IInv'
BY QuietKeeps DEF vars, IInv, TypeOK

\* Every step of the daemon and of its surroundings.
LEMMA NextKeeps ==
    ASSUME IInv, [Next]_vars
    PROVE  IInv'
BY StartingKeeps, AcceptKeeps, ReceiveKeeps, RefuseKeeps, TransactKeeps, ReportKeeps,
   FindCorruptKeeps, ReplyKeeps, ConnectKeeps, OutsideKeeps, KillKeeps, StutterKeeps
   DEF Next, Step

\* The inductive invariant holds of every reachable state.
THEOREM Invariance == Spec => []IInv
BY Initially, NextKeeps, PTL DEF Spec

-----------------------------------------------------------------------------
(* What follows from the invariant                                         *)

\* The state keeps its type, and the queue its length.
THEOREM TypeCorrect == Spec => []TypeOK
BY Invariance, PTL DEF IInv

\* What a client was told holds for good: a success, and what a report shows
\* and does not show of the requests it sent before.
THEOREM ReportsSettled == Spec => []ReportsSettle
<1>1. IInv => ReportsSettle
  BY DEF IInv, AnswersSettled, Settled, ReportsSettle
<1> QED BY <1>1, Invariance, PTL

\* Only the request being handled takes effect.
LEMMA EffectOfCall ==
    ASSUME IInv, [Next]_vars, NEW c \in Mutating, NEW k \in applied'[c] \ applied[c]
    PROVE  k = call /\ call # NoCall
<1>1. CASE TakeEffect /\ at = "handle"
  BY <1>1, Handled DEF TakeEffect, IInv, TypeOK
<1>2. CASE UNCHANGED applied
  BY <1>2
<1> QED BY <1>1, <1>2
   DEF Next, Step, vars, Start, Import, Validate, Unlink, Bind, Listen, Accept, Receive, Refuse,
       Transact, Report, FindCorrupt, Reply, Connect, Send, GiveUp, Kill, Corrupt, Repair, clients

\* No request takes effect after it or a later one of its client was answered.
THEOREM NothingLate == Spec => NoLateEffect
<1>1. ASSUME IInv, [Next]_vars
      PROVE  \A c \in Mutating : \A k \in applied'[c] \ applied[c], n \in 1..MaxTries :
                 n >= k[2] => answer[<< k[1], n >>].kind = "none"
  <2> SUFFICES ASSUME NEW c \in Mutating, NEW k \in applied'[c] \ applied[c],
                      NEW n \in 1..MaxTries, n >= k[2]
               PROVE  answer[<< k[1], n >>].kind = "none"
    OBVIOUS
  <2>1. k = call /\ call # NoCall
    BY <1>1, EffectOfCall
  <2>2. call \in Calls
    BY <1>1, <2>1 DEF IInv, TypeOK
  <2>3. n \in call[2]..MaxTries
    BY <2>1, <2>2, CallParts, BoundAssumption
  <2> QED BY <1>1, <2>1, <2>3 DEF IInv, ServedInOrder
<1> QED BY <1>1, Invariance, PTL DEF Spec, NoLateEffect
=============================================================================
