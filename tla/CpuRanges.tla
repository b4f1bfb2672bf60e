------------------------------ MODULE CpuRanges ------------------------------
(***************************************************************************)
(* utils.py and cpu_pool.py: the range lists in which the state file, sysfs*)
(* and the option cpu-pool name sets of CPUs.  Two parsers read them: a    *)
(* lenient one for sysfs and the state file, and a strict one for what     *)
(* operators write.  A list is the sequence of its components, between the *)
(* commas; the empty string is one blank component.                        *)
(***************************************************************************)
EXTENDS Integers, FiniteSets, SequencesExt

CONSTANT MAX_CPU_ID   \* bound on what is expanded without a topology

Blank         == [kind |-> "blank"]
Junk          == [kind |-> "junk"]
Cpu(n)        == [kind |-> "cpu", start |-> n, end |-> n]
Span(lo, hi)  == [kind |-> "span", start |-> lo, end |-> hi]

Parsed(cpus) == [ok |-> TRUE, cpus |-> cpus]
ValueError   == [ok |-> FALSE, cpus |-> {}]

Expand(component) == component.start .. component.end

Expanded(text) == Parsed(UNION {Expand(component) : component \in text})

WellFormed(component) ==
    component.kind \in {"cpu", "span"} /\ component.start <= component.end

\* parse_cpu_ranges: blank components are skipped.
ParseCpuRanges(text) ==
    LET components == ToSet(text) \ {Blank}
    IN  IF \A component \in components : WellFormed(component)
        THEN Expanded(components)
        ELSE ValueError

\* parse_cpu_list without a topology.
ParseCpuList(text) ==
    IF \A component \in ToSet(text) : WellFormed(component) /\ component.end <= MAX_CPU_ID
    THEN Expanded(ToSet(text))
    ELSE ValueError

\* Faulty variant: the bound on the size is off by one.
ParsePresentCpusNarrow(text, present) ==
    IF \A component \in ToSet(text) :
           /\ WellFormed(component)
           /\ component.start \in present /\ component.end \in present
           /\ component.end - component.start + 1 < Cardinality(present)
           /\ Expand(component) \subseteq present
    THEN Expanded(ToSet(text))
    ELSE ValueError

\* parse_cpu_list with one: bounds are checked before a range is expanded.
ParsePresentCpus(text, present) ==
    IF \A component \in ToSet(text) :
           /\ WellFormed(component)
           /\ component.start \in present /\ component.end \in present
           /\ component.end - component.start + 1 <= Cardinality(present)
           /\ Expand(component) \subseteq present
    THEN Expanded(ToSet(text))
    ELSE ValueError

Component(start, prev) == IF start = prev THEN Cpu(start) ELSE Span(start, prev)

\* The range which ends before cpu is finished, unless cpu goes on with it.
Continue(work, cpu) ==
    IF cpu = work.prev + 1
    THEN [work EXCEPT !.prev = cpu]
    ELSE [ done  |-> Append(work.done, Component(work.start, work.prev)),
           start |-> cpu,
           prev  |-> cpu ]

\* The CPUs are visited from the least to the greatest.
Walk(cpus) ==
    LET first == Min(cpus)
    IN  MapThenFoldSet(LAMBDA cpu, work : Continue(work, cpu),
                       [done |-> << >>, start |-> first, prev |-> first],
                       LAMBDA cpu : cpu, Max, cpus \ {first})

\* Faulty variant: the last range is not finished.
ToRangesUnfinished(cpus) ==
    IF Cardinality(cpus) < 2 THEN << Blank >> ELSE Walk(cpus).done

\* to_ranges of a sorted set.
ToRanges(cpus) ==
    IF cpus = {}
    THEN << Blank >>
    ELSE Append(Walk(cpus).done, Component(Walk(cpus).start, Walk(cpus).prev))
=============================================================================
