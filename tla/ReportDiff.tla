------------------------------ MODULE ReportDiff ------------------------------
(***************************************************************************)
(* What `usereport diff` tells of two reports (diff.rs). A report is given *)
(* by its signals, [id, value], and its findings, [id, severity], both as  *)
(* sequences in which an id may stand several times. Sections that the     *)
(* code sorts by id are sets here.                                         *)
(***************************************************************************)
EXTENDS Integers, Sequences, SequencesExt, Functions, Positions

(* Mutant: the first of an id stays.                                         *)
FirstById(s) ==
    [id \in {e.id : e \in ToSet(s)} |-> s[SelectInSeq(s, LAMBDA e : e.id = id)]]

(* Collected into a HashMap by id: the last of an id stays.                  *)
LastById(s) ==
    [id \in {e.id : e \in ToSet(s)} |-> s[SelectLastInSeq(s, LAMBDA e : e.id = id)]]

(* Booleans and texts are not compared: for the diff they are not there.     *)
Numbers(signals) ==
    LET last == LastById(Pick(signals, {i \in DOMAIN signals : signals[i].value.type = "number"}))
    IN  [id \in DOMAIN last |-> last[id].value.v]

Severities(findings) ==
    LET last == LastById(findings) IN [id \in DOMAIN last |-> last[id].severity]

OnlyIn(a, b) == DOMAIN a \ DOMAIN b
Changed(a, b) == {id \in DOMAIN a \cap DOMAIN b : a[id] # b[id]}

Diff(a, b) ==
    LET na == Numbers(a.signals)    nb == Numbers(b.signals)
        sa == Severities(a.findings)  sb == Severities(b.findings)
    IN  [signalsOnlyInA |-> OnlyIn(na, nb),
         signalsOnlyInB |-> OnlyIn(nb, na),
         signalDeltas |-> [id \in Changed(na, nb) |-> nb[id] - na[id]],
         findingsOnlyInA |-> OnlyIn(sa, sb),
         findingsOnlyInB |-> OnlyIn(sb, sa),
         severityChanged |-> [id \in Changed(sa, sb) |-> <<sa[id], sb[id]>>]]

===============================================================================
