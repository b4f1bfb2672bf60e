------------------------------- MODULE Daemon -------------------------------
(***************************************************************************)
(* bin/daemon and handle_daemon_request: one process which serves one      *)
(* connection after the other, its clients, and the snapd which starts it  *)
(* again.                                                                  *)
(*                                                                         *)
(* A client may connect and say nothing, give up at any time, and try      *)
(* again.  The daemon may be killed at any place, and dies of its own when *)
(* nobody takes a reply or when the state file is corrupt.  All that the   *)
(* kernel has queued for it is then gone.                                  *)
(*                                                                         *)
(* What a request does is left to modules Allocations and Hugepages, and   *)
(* what a transaction goes through to StateStore: here it takes effect, or *)
(* not, and the handler answers.  The file becomes unreadable at rest, and *)
(* not between the read and the rename of a transaction.                   *)
(***************************************************************************)
EXTENDS Naturals, Sequences

CONSTANTS
    Clients,
    Requests,   \* Requests[c]: the classes of requests which client c sends
    Backlog,    \* of listen: one more connection than that is queued
    MaxTries,   \* bound: how often a client connects
    MaxFaults   \* bound: how often the daemon is killed or the file corrupted

\* "junk" is everything refused before a handler: what is no JSON or cut off
\* after 1024 bytes, unknown actions and invalid fields.
Classes  == {"junk", "cpus", "listing", "memory", "hugepages"}
Mutating == {"cpus", "hugepages"}

\* Their handlers make an error reply of every exception.
Swallowing == {"memory", "hugepages"}

ASSUME RequestAssumption == Requests \in [Clients -> SUBSET Classes]
ASSUME BoundAssumption == Backlog \in Nat /\ MaxTries \in Nat /\ MaxFaults \in Nat

\* A connection: the n-th of its client.
Calls == Clients \X (1..MaxTries)

NoCall == << >>

Nothing == "nothing"

\* A report shows what has been recorded of one class of requests.  On a host
\* without hugepages the memory is reported without looking: the report is
\* "blank".  An error is an error: that a commit is uncertain is told in words.
Kinds == {"none", "success", "error", "blank", "report"}

Answers == [kind : Kinds, of : Mutating \cup {Nothing}, shown : SUBSET Calls]

Plain(kind) == [kind |-> kind, of |-> Nothing, shown |-> {}]

VARIABLES
    at,       \* where the daemon is
    call,     \* the connection it serves, or NoCall
    result,   \* the reply it has built
    queue,    \* the connections which wait for accept
    open,     \* the connections which neither side has closed
    sent,     \* what has been sent on a connection, until it is closed
    answer,   \* the reply which has been sent on it
    applied,  \* history, by class: the connections whose request has taken effect
    tries,    \* how often a client has connected
    socket,   \* is there a socket file?
    intact,   \* can the state file be read?
    faults    \* how often anything has gone wrong

vars == << at, call, result, queue, open, sent, answer, applied, tries, socket,
           intact, faults >>

clients == << answer, tries >>

Starting == {"import", "validate", "unlink", "bind", "listen"}
Serving  == {"receive", "handle", "reply"}
Places   == {"down", "accept"} \cup Starting \cup Serving

Init ==
    /\ at = "down"
    /\ call = NoCall
    /\ result = Plain("none")
    /\ queue = << >>
    /\ open = {}
    /\ sent = [k \in Calls |-> Nothing]
    /\ answer = [k \in Calls |-> Plain("none")]
    /\ applied = [c \in Mutating |-> {}]
    /\ tries = [c \in Clients |-> 0]
    /\ socket = FALSE
    /\ intact = TRUE
    /\ faults = 0

-----------------------------------------------------------------------------
(* The start                                                               *)

Goto(place) ==
    /\ at' = place
    /\ UNCHANGED << call, result, queue, open, sent >>

\* The process ends.  Its socket file stays.
Die ==
    /\ at' = "down"
    /\ call' = NoCall
    /\ result' = Plain("none")
    /\ queue' = << >>
    /\ open' = {}
    /\ sent' = [k \in Calls |-> Nothing]

\* snapd starts the daemon, and starts it again after a failure.
Start ==
    /\ at = "down"
    /\ Goto("import")
    /\ UNCHANGED << clients, applied, socket, intact, faults >>

\* Importing the databases reads the state file; nothing catches its errors.
Import ==
    /\ at = "import"
    /\ IF intact THEN Goto("validate") ELSE Die
    /\ UNCHANGED << clients, applied, socket, intact, faults >>

\* validate_startup_pool reads it again and catches ValueError only.
Validate ==
    /\ at = "validate"
    /\ IF intact THEN Goto("unlink") ELSE Die
    /\ UNCHANGED << clients, applied, socket, intact, faults >>

\* Faulty variant: the socket file of the last daemon is left alone.
UnlinkNothing ==
    /\ at = "unlink"
    /\ Goto("bind")
    /\ UNCHANGED << clients, applied, socket, intact, faults >>

Unlink ==
    /\ at = "unlink"
    /\ socket' = FALSE
    /\ Goto("bind")
    /\ UNCHANGED << clients, applied, intact, faults >>

\* A socket file in the way is an error.
Bind ==
    /\ at = "bind"
    /\ socket' = TRUE
    /\ IF socket THEN Die ELSE Goto("listen")
    /\ UNCHANGED << clients, applied, intact, faults >>

Listen ==
    /\ at = "listen"
    /\ Goto("accept")
    /\ UNCHANGED << clients, applied, socket, intact, faults >>

-----------------------------------------------------------------------------
(* The loop                                                                *)

\* Faulty variant: connections are not served in their order.
AcceptLast ==
    /\ at = "accept" /\ queue # << >>
    /\ at' = "receive"
    /\ call' = queue[Len(queue)]
    /\ queue' = SubSeq(queue, 1, Len(queue) - 1)
    /\ UNCHANGED << result, open, sent, clients, applied, socket, intact, faults >>

Accept ==
    /\ at = "accept" /\ queue # << >>
    /\ at' = "receive"
    /\ call' = Head(queue)
    /\ queue' = Tail(queue)
    /\ UNCHANGED << result, open, sent, clients, applied, socket, intact, faults >>

\* Faulty variant: a connection closed by its client is waited for.
ReceiveData ==
    /\ at = "receive"
    /\ sent[call] # Nothing
    /\ at' = "handle"
    /\ UNCHANGED << call, result, queue, open, sent, clients, applied, socket, intact,
                    faults >>

\* recv has no timeout.  If the client has closed the connection without a
\* word, the next one is served.
Receive ==
    /\ at = "receive"
    /\ sent[call] # Nothing \/ call \notin open
    /\ IF sent[call] # Nothing
       THEN at' = "handle" /\ UNCHANGED call
       ELSE at' = "accept" /\ call' = NoCall
    /\ UNCHANGED << result, queue, open, sent, clients, applied, socket, intact, faults >>

\* The handler returns.
Respond(r) ==
    /\ at' = "reply"
    /\ result' = r
    /\ UNCHANGED << call, queue, open, sent >>

\* The request is refused: before a handler, by one before or after it has
\* read the state, because the transaction fails before the rename, or by the
\* latch which an uncertain commit has left.
Refuse ==
    /\ at = "handle"
    /\ Respond(Plain("error"))
    /\ UNCHANGED << clients, applied, socket, intact, faults >>

TakeEffect == applied' = [applied EXCEPT ![sent[call]] = @ \cup {call}]

\* The transaction has replaced the file.  If the commit is uncertain the
\* state is loaded again: the error is then that one, or that of the reload,
\* and a reload which cannot read the file is StateCorruptionError.
Transact ==
    /\ at = "handle"
    /\ sent[call] \in Mutating /\ intact
    /\ TakeEffect
    /\ \/ \E kind \in {"success", "error"} : Respond(Plain(kind))
       \/ sent[call] \notin Swallowing /\ Die
    /\ UNCHANGED << clients, socket, intact, faults >>

\* What a listing shows are the CPU claims, and the memory those of hugepages.
Subject == IF sent[call] = "listing" THEN "cpus" ELSE "hugepages"

\* A report of the client's own requests in a set of calls.
Showing(calls) ==
    [kind |-> "report", of |-> Subject, shown |-> {k \in calls : k[1] = call[1]}]

\* Faulty variant: the records are shown as they are in memory, where what was
\* done by a request is missing if the load after its uncertain commit failed.
ReportCached ==
    /\ at = "handle"
    /\ \/ /\ sent[call] \in {"listing", "memory"} /\ intact
          /\ Respond(Showing({k \in applied[Subject] : answer[k].kind # "error"}))
       \/ sent[call] = "memory" /\ Respond(Plain("blank"))
    /\ UNCHANGED << clients, applied, socket, intact, faults >>

Report ==
    /\ at = "handle"
    /\ \/ sent[call] \in {"listing", "memory"} /\ intact /\ Respond(Showing(applied[Subject]))
       \/ sent[call] = "memory" /\ Respond(Plain("blank"))
    /\ UNCHANGED << clients, applied, socket, intact, faults >>

\* StateCorruptionError: the handlers of the CPUs let it through.
FindCorrupt ==
    /\ at = "handle"
    /\ ~intact /\ sent[call] # "junk"
    /\ IF sent[call] \in Swallowing THEN Respond(Plain("error")) ELSE Die
    /\ UNCHANGED << clients, applied, socket, intact, faults >>

\* sendall raises if the client has closed the connection.  The read of the
\* claims for the log, before it, raises nothing.
Reply ==
    /\ at = "reply"
    /\ IF call \in open
       THEN /\ answer' = [answer EXCEPT ![call] = result]
            /\ open' = open \ {call}
            /\ sent' = [sent EXCEPT ![call] = Nothing]
            /\ at' = "accept"
            /\ call' = NoCall
            /\ result' = Plain("none")
            /\ UNCHANGED queue
       ELSE Die /\ UNCHANGED answer
    /\ UNCHANGED << applied, tries, socket, intact, faults >>

-----------------------------------------------------------------------------
(* The clients                                                             *)

Listening == at = "accept" \/ at \in Serving

\* Faulty variant: nobody is kept waiting outside.
ConnectUnbounded(c) ==
    /\ Listening
    /\ tries[c] < MaxTries
    /\ \A k \in open : k[1] # c
    /\ tries' = [tries EXCEPT ![c] = @ + 1]
    /\ queue' = Append(queue, << c, tries[c] + 1 >>)
    /\ open' = open \cup {<< c, tries[c] + 1 >>}
    /\ UNCHANGED << at, call, result, sent, answer, applied, socket, intact, faults >>

\* A client which is not answered may try again.
Connect(c) ==
    /\ Listening /\ Len(queue) <= Backlog
    /\ tries[c] < MaxTries
    /\ \A k \in open : k[1] # c
    /\ tries' = [tries EXCEPT ![c] = @ + 1]
    /\ queue' = Append(queue, << c, tries[c] + 1 >>)
    /\ open' = open \cup {<< c, tries[c] + 1 >>}
    /\ UNCHANGED << at, call, result, sent, answer, applied, socket, intact, faults >>

Send(k, r) ==
    /\ k \in open /\ r \in Requests[k[1]]
    /\ sent[k] = Nothing
    /\ sent' = [sent EXCEPT ![k] = r]
    /\ UNCHANGED << at, call, result, queue, open, answer, applied, tries, socket,
                    intact, faults >>

\* The client dies or gives up.  What it has sent is still served.
GiveUp(k) ==
    /\ k \in open
    /\ open' = open \ {k}
    /\ UNCHANGED << at, call, result, queue, sent, clients, applied, socket, intact, faults >>

-----------------------------------------------------------------------------
(* The environment                                                         *)

\* The daemon is killed; a transaction may just have taken effect.
Kill ==
    /\ at # "down" /\ faults < MaxFaults
    /\ faults' = faults + 1
    /\ Die
    /\ \/ UNCHANGED applied
       \/ /\ at = "handle" /\ sent[call] \in Mutating /\ intact
          /\ TakeEffect
    /\ UNCHANGED << clients, socket, intact >>

Corrupt ==
    /\ intact /\ faults < MaxFaults
    /\ faults' = faults + 1
    /\ intact' = FALSE
    /\ UNCHANGED << at, call, result, queue, open, sent, clients, applied, socket >>

\* The operator puts a good file in its place.
Repair ==
    /\ ~intact
    /\ intact' = TRUE
    /\ UNCHANGED << at, call, result, queue, open, sent, clients, applied, socket, faults >>

-----------------------------------------------------------------------------

Step ==
    \/ Import
    \/ Validate
    \/ Unlink
    \/ Bind
    \/ Listen
    \/ Accept
    \/ Receive
    \/ Refuse
    \/ Transact
    \/ Report
    \/ FindCorrupt
    \/ Reply

Next ==
    \/ Start
    \/ Step
    \/ \E c \in Clients : Connect(c)
    \/ \E k \in Calls, r \in Classes : Send(k, r)
    \/ \E k \in Calls : GiveUp(k)
    \/ Kill
    \/ Corrupt
    \/ Repair

Spec == Init /\ [][Next]_vars

\* The daemon goes on unless recv blocks, and snapd starts it again.  Nothing
\* is assumed of clients and operators.
FairSpec == Spec /\ WF_vars(Start) /\ WF_vars(Step)

-----------------------------------------------------------------------------
(* Properties                                                              *)

TypeOK ==
    /\ at \in Places
    /\ call \in Calls \cup {NoCall}
    /\ at \in Serving <=> call # NoCall
    /\ result \in Answers
    /\ queue \in Seq(Calls) /\ Len(queue) <= Backlog + 1
    /\ open \subseteq Calls
    /\ sent \in [Calls -> Classes \cup {Nothing}]
    /\ answer \in [Calls -> Answers]
    /\ applied \in [Mutating -> SUBSET Calls]
    /\ tries \in [Clients -> 0..MaxTries]
    /\ socket \in BOOLEAN
    /\ intact \in BOOLEAN
    /\ faults \in 0..MaxFaults

\* After success the request has taken effect.  An error is no evidence, so a
\* client asks for a report, and can rely on it: whatever became of the other
\* connections and of the daemon, the report shows those of its earlier
\* requests which have taken effect, and no other one of them ever will.
ReportsSettle ==
    \A k \in Calls :
        /\ answer[k].kind = "success" => \E c \in Mutating : k \in applied[c]
        /\ answer[k].kind = "report" =>
              answer[k].shown = {m \in applied[answer[k].of] : m[1] = k[1] /\ m[2] < k[2]}

\* A request which its client has given up on may still take effect, but not
\* after it or a later one of that client has been answered: a release which
\* was confirmed is not followed by the grant that timed out before it.
NoLateEffect ==
    [][\A c \in Mutating : \A k \in applied'[c] \ applied[c], n \in 1..MaxTries :
           n >= k[2] => answer[<< k[1], n >>].kind = "none"
      ]_vars

\* The client of k waits for an answer; it has nothing more to do.
Waiting(k) == k \in open /\ sent[k] # Nothing

Silent(k) == k \in open /\ sent[k] = Nothing

\* Unless a client stays connected and silent for good, everybody who has
\* sent a request gets an answer, or finds the connection closed.
Served == (\A k \in Calls : []<>~Silent(k)) => \A k \in Calls : Waiting(k) ~> ~Waiting(k)

\* Unless the state file stays corrupt, there is always a daemon which
\* listens again, whatever the one before has died of and left behind.
ComesBack == <>[]intact => []<>Listening

\* handle_daemon_request: "Let corruption crash the daemon so the charm can
\* block/alert".
CorruptionCrashes == [][FindCorrupt => at' = "down"]_vars
=============================================================================
