------------------------------ MODULE Conversion ------------------------------
(***************************************************************************)
(* A report as JSON and what `usereport convert` makes of it: the JSON     *)
(* that serde writes and reads (analysis.rs:231-254, signal.rs:13-31), the *)
(* document for language models (llm.rs) and its redaction (redact.rs).    *)
(*                                                                         *)
(* A report has its host [name, uname], signals [id, value, samples],      *)
(* findings [summary, observed] and the results of its repetitions         *)
(* [command, status, stdout].                                              *)
(* A value is [type, v], where the v of a float may be Infinite, which     *)
(* stands for what JSON has no number for. A text is a sequence of         *)
(* characters, of which the name of a host, an address or a hash is one.   *)
(* Not every address is in Addresses: those are the ones that the patterns *)
(* of redact.rs match. An IPv6 address with "::" is one that they do not   *)
(* match, nor what is left of an address where an excerpt was cut.         *)
(***************************************************************************)
EXTENDS Integers, Sequences, SequencesExt, Positions

CONSTANTS Infinite, Null,     \* no number; the null of JSON
          NoReport,           \* JSON that is no report
          Unsampled,          \* a signal without samples
          Addresses,          \* what the patterns of redact.rs match
          HashOf,             \* redact_value: what stands for an address or a host
          Remains,            \* what remains of a name or an address that is cut
          MaxExcerpt          \* MAX_EXCERPT_CHARS

ASSUME NullAssumption == Null \notin Seq({Null} \cup Int) \cup Int
ASSUME ExcerptAssumption == MaxExcerpt \in Nat \ {0}

Marked(x) == <<"[redacted:", HashOf[x], "]">>

(* 32 hexadecimal digits in brackets have in them none of the names they hide: *)
(* no pattern matches them, and no host is named like a part of them.         *)
Hides(names) == \A x \in names : ToSet(Marked(x)) \cap names = {}
ASSUME HashAssumption == Hides(Addresses)

Value(type, v) == [type |-> type, v |-> v]
IsNumber(value) == value.type \in {"int", "float"}

(* What a report is; only a float can be no number.                          *)
IsValue(value) ==
    /\ value = Value(value.type, value.v)
    /\ value.type \in {"int", "float", "bool", "text"}
    /\ value.type = "int" => value.v \in Int
    /\ value.type = "float" => value.v \in {Infinite} \cup Int
    /\ value.type = "bool" => value.v \in BOOLEAN
    /\ value.type = "text" => IsVector(value.v)
    /\ value.type \in {"bool", "text"} => value.v # Infinite

IsReport(report) ==
    /\ report = [host |-> report.host, signals |-> report.signals,
                 findings |-> report.findings, results |-> report.results]
    /\ report.host = [name |-> report.host.name, uname |-> report.host.uname]
    /\ IsVector(report.signals)
    /\ \A s \in ToSet(report.signals) :
          /\ s = [id |-> s.id, value |-> s.value, samples |-> s.samples]
          /\ IsValue(s.value)
          /\ s.samples = Unsampled \/ s.samples \in Seq({Infinite} \cup Int)
    /\ IsVector(report.findings)
    /\ \A f \in ToSet(report.findings) :
          /\ f = [summary |-> f.summary, observed |-> f.observed]
          /\ IsVector(f.summary) /\ IsValue(f.observed)
    /\ IsVector(report.results)
    /\ \A ran \in ToSet(report.results) :
          IsVector(ran) /\ \A c \in ToSet(ran) : IsVector(c.stdout)

-------------------------------------------------------------------------------
(* serde                                                                     *)

WrittenNumber(v) == IF v = Infinite THEN Null ELSE v

(* Values are untagged: a number does not say whether it was an integer.      *)
Written(value) == IF IsNumber(value) THEN Value("number", WrittenNumber(value.v)) ELSE value
WrittenSignal(s) ==
    [s EXCEPT !.value = Written(@),
              !.samples = IF @ = Unsampled THEN Null ELSE [i \in DOMAIN @ |-> WrittenNumber(@[i])]]
WrittenFinding(f) == [f EXCEPT !.observed = Written(@)]

Serialized(report) ==
    [report EXCEPT !.signals = [i \in DOMAIN @ |-> WrittenSignal(@[i])],
                   !.findings = [i \in DOMAIN @ |-> WrittenFinding(@[i])]]

(* F64 is tried first: it takes every number.                                 *)
Read(value) == IF value.type = "number" THEN Value("float", value.v) ELSE value
ReadSignal(s) == [s EXCEPT !.value = Read(@), !.samples = IF @ = Null THEN Unsampled ELSE @]
ReadFinding(f) == [f EXCEPT !.observed = Read(@)]

ReadReport(doc) ==
    [doc EXCEPT !.signals = [i \in DOMAIN @ |-> ReadSignal(@[i])],
                !.findings = [i \in DOMAIN @ |-> ReadFinding(@[i])]]

(* Mutant: where there is no number there is zero.                           *)
DeserializedNulls(doc) ==
    LET Zero(v) == IF v = Null THEN 0 ELSE v
        Zeroed(s) ==
            [s EXCEPT !.value = IF @.type = "number" THEN Value("number", Zero(@.v)) ELSE @,
                      !.samples = IF @ = Null THEN @ ELSE [i \in DOMAIN @ |-> Zero(@[i])]]
    IN  IF doc = NoReport THEN NoReport
        ELSE ReadReport([doc EXCEPT !.signals = [i \in DOMAIN @ |-> Zeroed(@[i])]])

(* No kind of value takes null, nor does a list of samples.                   *)
Deserialized(doc) ==
    LET nulled == Value("number", Null)
        Unreadable(s) == s.value = nulled \/ (s.samples # Null /\ Contains(s.samples, Null))
    IN  IF \/ doc = NoReport
           \/ \E s \in ToSet(doc.signals) : Unreadable(s)
           \/ \E f \in ToSet(doc.findings) : f.observed = nulled
        THEN NoReport ELSE ReadReport(doc)

-------------------------------------------------------------------------------
(* LlmOutput::from_report                                                    *)

(* The first signal of the id counts, if it is a number.                      *)
HostNumber(report, id) ==
    LET i == SelectInSeq(report.signals, LAMBDA s : s.id = id)
    IN  IF i # 0 /\ IsNumber(report.signals[i].value) THEN report.signals[i].value.v ELSE 0

Squeezed(text) ==
    Pick(text, {i \in DOMAIN text :
                   text[i] # " " \/ (i > 1 /\ text[i - 1] # " " /\ \E k \in i..Len(text) : text[k] # " ")})

(* What a limit leaves of a character: all of it, but of a name less.          *)
CutOf(x) == IF x \in DOMAIN Remains THEN Remains[x] ELSE x

(* split_whitespace and join, then the first characters: a limit inside a name  *)
(* or an address leaves what remains of it.                                   *)
Excerpt(stdout) ==
    LET text == Squeezed(stdout)
    IN  IF Len(text) <= MaxExcerpt THEN text
        ELSE [SubSeq(text, 1, MaxExcerpt) EXCEPT ![MaxExcerpt] = CutOf(@)]

Excerpts(report) ==
    LET first == IF report.results = <<>> THEN <<>> ELSE report.results[1]
        well == Pick(first, {i \in DOMAIN first : first[i].status = "success"})
    IN  [i \in DOMAIN well |-> [command |-> well[i].command, output |-> Excerpt(well[i].stdout)]]

(* Every address that is found in a text, and in excerpts the host, is replaced *)
(* by its hash, which is longer. Excerpts have been cut before.               *)
RedactText(text, names) ==
    FlattenSeq([i \in DOMAIN text |-> IF text[i] \in names THEN Marked(text[i]) ELSE <<text[i]>>])

RedactValue(value) ==
    IF value.type = "text" THEN [value EXCEPT !.v = RedactText(@, Addresses)] ELSE value

RedactExcerpt(e, host) == [e EXCEPT !.output = RedactText(@, Addresses \cup {host})]
RedactFinding(f) == [f EXCEPT !.summary = RedactText(@, Addresses), !.observed = RedactValue(@)]
RedactSignal(s) == [s EXCEPT !.value = RedactValue(@)]

Redact(out) ==
    [out EXCEPT !.host.name = HashOf[@],
                !.excerpts = [i \in DOMAIN @ |-> RedactExcerpt(@[i], out.host.name)],
                !.findings = [i \in DOMAIN @ |-> RedactFinding(@[i])],
                !.signals = [i \in DOMAIN @ |-> RedactSignal(@[i])]]

LlmOutput(report, redact) ==
    LET out == [host |-> [name |-> report.host.name, kernel |-> report.host.uname,
                          cpus |-> HostNumber(report, "cpu_count")],
                signals |-> [i \in DOMAIN report.signals |->
                                [id |-> report.signals[i].id, value |-> report.signals[i].value]],
                findings |-> report.findings,
                excerpts |-> Excerpts(report)]
    IN  IF redact THEN Redact(out) ELSE out

(* What an output shows of a report. A template is given all of it, and        *)
(* --redact has no effect on any but the document for language models.         *)
Rendered(report, output, redact) ==
    IF output = "llm" THEN LlmOutput(report, redact) ELSE report
===============================================================================
