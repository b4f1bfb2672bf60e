----------------------------- MODULE MCSelection -----------------------------
(***************************************************************************)
(* Checks the pure algorithms of modules CpuSelection and CpuRanges against*)
(* what they promise.  A state is a question to them, the next one has the *)
(* answer:                                                                 *)
(*  - the SMT-aware and the stable selector, on every candidate set, owner,*)
(*    count and sibling map of a small host, failed sysfs reads included;  *)
(*  - the count arithmetic, with the constants of cpu_pinning.py, for      *)
(*    candidate sets on both sides of the large-system threshold;          *)
(*  - the range lists of every set of a few CPUs, and the strict parser on *)
(*    every list of a few components for every present topology.           *)
(***************************************************************************)
EXTENDS CpuSelection, CpuRanges

CONSTANTS
    Host,        \* the CPUs from which the selectors choose
    MaxTotal,    \* bound: the largest candidate set of the count arithmetic
    Requested,   \* the num_of_cores values considered
    MaxCpu,      \* bound: the largest CPU id in a range list
    MaxParts     \* bound: how many components a list has which is read

ASSUME HostAssumption == IsFiniteSet(Host) /\ Host \subseteq Nat
ASSUME BoundsAssumption ==
    /\ MaxTotal \in Nat /\ Requested \subseteq Int
    /\ MAX_CPU_ID \in Nat /\ MaxCpu \in 0..MAX_CPU_ID
    /\ MaxParts \in Nat

VARIABLES question, answer

vars == << question, answer >>

\* A host's cores partition its CPUs.  Labelling each CPU with a member of
\* its core gives every partition.
Topologies == { [c \in Host |-> {d \in Host : label[d] = label[c]}]
                : label \in [Host -> Host] }

\* sysfs may fail for some CPUs, which then look like cores of their own.
SiblingMaps == { [c \in Host |-> IF c \in unread THEN {c} ELSE topology[c]]
                 : topology \in Topologies, unread \in SUBSET Host }

SelectorCases == { q \in [ asks       : {"selection"},
                     own        : SUBSET Host,
                     candidates : SUBSET Host,
                     count      : 1..Cardinality(Host),
                     siblings   : SiblingMaps ]
             : q.count <= Cardinality(q.candidates) }

\* Both readings of "the default", small counts, and counts at the limits.
RequestedCounts == {-1, 0, 1, 2, 64, 128, 130, 131}

Counts   == [ asks : {"count"}, total : 1..MaxTotal, requested : Requested ]
Percents == [ asks : {"percent"}, total : 1..MaxTotal, percent : 1..100 ]

\* Sets with gaps of every kind, adjacent CPUs and none.
Writings == [ asks : {"writing"}, cpus : SUBSET (0..MaxCpu) ]

Components == {Blank, Junk}
                  \cup {Cpu(n) : n \in 0..MaxCpu}
                  \cup {Span(lo, hi) : lo \in 0..MaxCpu, hi \in 0..MaxCpu}

Readings == [ asks : {"reading"}, text : UNION {[1..n -> Components] : n \in 1..MaxParts},
              present : SUBSET Host ]

Unanswered == [of |-> "nothing"]

Init ==
    /\ \/ question \in SelectorCases
       \/ question \in Counts \cup Percents
       \/ question \in Writings
       \/ question \in Readings
    /\ answer = Unanswered

Select ==
    /\ answer = Unanswered
    /\ question.asks = "selection"
    /\ answer' = [ of     |-> "selection",
                   smt    |-> SelectSmtAware(question.candidates, question.count,
                                             question.siblings),
                   stable |-> SelectStable(question.own, question.candidates,
                                           question.count, question.siblings) ]
    /\ UNCHANGED question

Pin ==
    /\ answer = Unanswered
    /\ question.asks = "count"
    /\ LET pinning == CalculateCpuPinning(0..question.total - 1, question.requested)
       IN  answer' = [ of        |-> "count",
                       dedicated |-> pinning.dedicated,
                       shared    |-> pinning.shared ]
    /\ UNCHANGED question

Share ==
    /\ answer = Unanswered
    /\ question.asks = "percent"
    /\ answer' = [ of    |-> "percent",
                   share |-> CeilPercent(question.total, question.percent) ]
    /\ UNCHANGED question

Write ==
    /\ answer = Unanswered
    /\ question.asks = "writing"
    /\ answer' = [of |-> "writing", text |-> ToRanges(question.cpus)]
    /\ UNCHANGED question

Read ==
    /\ answer = Unanswered
    /\ question.asks = "reading"
    /\ answer' = [ of     |-> "reading",
                   result |-> ParsePresentCpus(question.text, question.present) ]
    /\ UNCHANGED question

Next == Select \/ Pin \/ Share \/ Write \/ Read

Spec == Init /\ [][Next]_vars

-----------------------------------------------------------------------------
(* The selectors                                                           *)

\* Whenever the candidates suffice, both selectors return exactly the
\* requested number of them, whatever sysfs says of the siblings: the check
\* in _validate_selection never fires on a selector's own mistake.
ExactSelection ==
    answer.of = "selection" =>
        /\ answer.smt \subseteq question.candidates
        /\ answer.stable \subseteq question.candidates
        /\ Cardinality(answer.smt) = question.count
        /\ Cardinality(answer.stable) = question.count

WholeCores(S) == {core \in {question.siblings[c] : c \in Host} :
                     Cardinality(core) = 2 /\ core \subseteq S}

\* On a host with at most two threads per core, all of them readable, no
\* choice of as many candidates holds more whole cores (README: allocation
\* prefers full physical cores).
WholeCoresFirst ==
    /\ answer.of = "selection"
    /\ question.siblings \in Topologies
    /\ \A c \in Host : Cardinality(question.siblings[c]) <= 2
    => \A other \in kSubset(question.count, question.candidates) :
           Cardinality(WholeCores(other)) <= Cardinality(WholeCores(answer.smt))

\* A protected owner which retries, grows or shrinks never trades a CPU it
\* may keep for another one.
StableRetention ==
    answer.of = "selection" =>
        LET own == question.own \cap question.candidates
        IN  own \subseteq answer.stable \/ answer.stable \subseteq own

-----------------------------------------------------------------------------
(* The count arithmetic                                                    *)

\* A request too large gets nothing; any other divides the candidates without
\* remainder.  The default always leaves a CPU to share, and a host with more
\* CPUs never gets fewer by default: there is no drop at the large-system
\* threshold.
DefaultReservesMonotonically ==
    answer.of = "count" =>
        /\ Cardinality(answer.dedicated) + Cardinality(answer.shared) =
               IF question.requested > question.total THEN 0 ELSE question.total
        /\ question.requested <= 0 =>
               /\ answer.shared # {}
               /\ DefaultCores(question.total) <= DefaultCores(question.total + 1)

\* A percentage stands for the least number of CPUs which is at least that
\* share of the pool: at least one, never the 0 which would mean the default
\* (the docstring of handle_allocate_cores_percent), and never above the pool.
PercentIsLeastShare ==
    answer.of = "percent" =>
        /\ answer.share \in 1..question.total
        /\ 100 * answer.share >= question.total * question.percent
        /\ 100 * (answer.share - 1) < question.total * question.percent

-----------------------------------------------------------------------------
(* The range lists                                                         *)

\* What is written to the state file, or recorded as the accepted pool, is
\* read back as the same set by either parser: no claim grows, shrinks or
\* vanishes by being saved, and the hook recognises its own record.
RangesRoundTrip ==
    answer.of = "writing" =>
        /\ ParseCpuRanges(answer.text) = Parsed(question.cpus)
        /\ question.cpus # {} => ParseCpuList(answer.text) = Parsed(question.cpus)

\* The checks which keep a range from being expanded refuse no list of present
\* CPUs and admit no other; what the hook accepts a daemon can load again,
\* when CPUs have gone.
PresentListsExact ==
    answer.of = "reading" =>
        LET lenient == ParseCpuRanges(question.text)
            meant   == lenient.ok /\ Blank \notin {question.text[i] : i \in DOMAIN question.text}
        IN  answer.result = IF meant /\ lenient.cpus \subseteq question.present
                            THEN ParseCpuList(question.text)
                            ELSE ValueError
=============================================================================
