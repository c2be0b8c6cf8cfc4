------------------------------- MODULE Predicates -------------------------------
(***************************************************************************)
(* How the `when` of a rule or pattern is read (the parser of rule/mod.rs) *)
(* and how a file of rules or patterns is read with it.                    *)
(*                                                                         *)
(* A text is a sequence of tokens: words, whole numbers and strings,       *)
(* comparison operators, the dot, " " for white space of any length, and   *)
(* "-" for every other character. No two of them that stand side by side   *)
(* would make a longer one. The words AND, OR, TRUE and FALSE stand for    *)
(* themselves in any mixture of cases.                                     *)
(***************************************************************************)
EXTENDS Rules

CONSTANT Malformed    \* A file that is no TOML, or lacks a field.

Names == {"cpu", "irq"}
Figures == {"1", "20"}
Strings == {"'x'"}
Ops == {">", "<", ">=", "<=", "==", "!="}
Joints == {"AND", "OR"}
Truths == {"TRUE", "FALSE"}

(* Words with which the parser of floats is content, or with the beginning of *)
(* which: what is left of them.                                              *)
AfterFloat == [inf |-> <<>>, infra |-> <<"ra">>, nan |-> <<>>]
Floats == DOMAIN AfterFloat

Idents == Names \cup Floats \cup {"ra"}
Words == Idents \cup Joints \cup Truths
Tokens == Words \cup Figures \cup Strings \cup Ops \cup {".", " ", "-"}

(* Two tokens that stand side by side remain two.                            *)
Apart(a, b) ==
    /\ ~(a \in Words \cup Figures /\ b \in Words \cup Figures)
    /\ ~({a, b} \cap Figures # {} /\ "." \in {a, b})
    /\ ~(a \in Ops /\ b \in Ops)
    /\ ~(a = "-" /\ b \in Figures \cup Floats)
    /\ ~(a = " " /\ b = " ")
IsText(s) == \A i \in 1..(Len(s) - 1) : Apart(s[i], s[i + 1])

-------------------------------------------------------------------------------
(* The parser. A parser takes tokens off the front: what it made of them and  *)
(* what it left, or nothing. An alternative that succeeded is not taken back. *)

Fails == [ok |-> FALSE]
Gives(out, rest) == [ok |-> TRUE, out |-> out, rest |-> rest]

Begins(s, tokens) == s # <<>> /\ Head(s) \in tokens
SkipSpace(s) == IF Begins(s, {" "}) THEN Tail(s) ELSE s

Trim(s) ==
    LET t == SkipSpace(s)
    IN  IF t # <<>> /\ Last(t) = " " THEN Front(t) ELSE t

(* path: words joined by dots, as many as there are; a dot that no word        *)
(* follows is left. The reserved words are none.                              *)
Path(s) ==
    LET Takes(n) == \A k \in 1..n : s[k] \in IF k % 2 = 1 THEN Idents ELSE {"."}
        lengths == {n \in 1..Len(s) : n % 2 = 1 /\ Takes(n)}
        n == Max(lengths)
    IN  IF lengths = {} THEN Fails
        ELSE Gives([k \in 1..((n + 1) \div 2) |-> s[2 * k - 1]], SubSeq(s, n + 1, Len(s)))

(* Mutant: the path is tried before the number.                             *)
RhsPathFirst(s) ==
    LET p == Path(s)
        side(value, to) == [value |-> value, to |-> to]
    IN  CASE p.ok -> Gives(side(Absent, p.out), p.rest)
          [] Begins(s, Truths) -> Gives(side(Boolean(Head(s) = "TRUE"), <<>>), Tail(s))
          [] Begins(s, Figures) -> Gives(side(Number(Head(s)), <<>>), Tail(s))
          [] Begins(s, Strings) -> Gives(side(Text(Head(s)), <<>>), Tail(s))
          [] OTHER -> Fails

(* rhs: a truth, a number, a string or a path, in this order.                *)
Rhs(s) ==
    LET side(value, to) == [value |-> value, to |-> to]
    IN  CASE Begins(s, Truths) -> Gives(side(Boolean(Head(s) = "TRUE"), <<>>), Tail(s))
          [] Begins(s, Figures) -> Gives(side(Number(Head(s)), <<>>), Tail(s))
          [] Begins(s, Floats) ->
                 Gives(side(Number(Head(s)), <<>>), AfterFloat[Head(s)] \o Tail(s))
          [] Begins(s, Strings) -> Gives(side(Text(Head(s)), <<>>), Tail(s))
          [] OTHER -> LET p == Path(s)
                      IN  IF p.ok THEN Gives(side(Absent, p.out), p.rest) ELSE Fails

(* term: white space is free around the operator, and nowhere else.           *)
AfterOp(path, op, rhs) ==
    IF rhs.ok THEN Gives([path |-> path, op |-> op, value |-> rhs.out.value, to |-> rhs.out.to], rhs.rest)
    ELSE Fails

AfterPath(lhs) ==
    LET s == SkipSpace(lhs.rest)
    IN  IF lhs.ok /\ Begins(s, Ops) THEN AfterOp(lhs.out, Head(s), Rhs(SkipSpace(Tail(s)))) ELSE Fails

ParseTerm(s) == AfterPath(Path(s))

(* One more (infix_op, term); where there is none nothing is taken.           *)
JoinTerm(e, op, term) ==
    IF term.ok THEN Gives([e.out EXCEPT !.rest = Append(@, [and |-> op = "AND", term |-> term.out])],
                          term.rest)
    ELSE e

ParseJoined(e) ==
    LET s == e.rest
    IN  IF Len(s) > 3 /\ s[1] = " " /\ s[2] \in Joints /\ s[3] = " "
        THEN JoinTerm(e, s[2], ParseTerm(SubSeq(s, 4, Len(s))))
        ELSE e

Expr(s) ==
    LET first == ParseTerm(s)
        After[n \in 0..Len(s)] ==
            IF n = 0 THEN Gives(Only(first.out), first.rest) ELSE ParseJoined(After[n - 1])
    IN  IF first.ok THEN After[Len(s)] ELSE Fails

(* Predicate::parse: nothing may be left.                                    *)
AllTaken(e) == IF e.ok /\ e.rest = <<>> THEN e ELSE Fails
Parse(text) == AllTaken(Expr(Trim(text)))

-------------------------------------------------------------------------------
(* Files. One that is not Malformed is the sequence of its tables, each with   *)
(* the id, the text and the severity.                                        *)

SeverityOf == [info |-> Info, Warn |-> Warn, CRIT |-> Crit]

Refusal(id) == [ok |-> FALSE, at |-> id]

(* RuleToml::into_rule                                                       *)
RuleOf(t, when) ==
    IF ~when.ok \/ t.severity \notin DOMAIN SeverityOf THEN Refusal(t.id)
    ELSE Gives([id |-> t.id, when |-> when.out, severity |-> SeverityOf[t.severity]], <<>>)

IntoRule(t) == RuleOf(t, Parse(t.when))

(* parse_rules_toml: the first rule that cannot be read refuses the file.      *)
ParseRules(file) ==
    IF file = Malformed THEN Refusal(Malformed)
    ELSE LET bad == SelectInSeq(file, LAMBDA t : ~IntoRule(t).ok)
         IN  IF bad # 0 THEN IntoRule(file[bad])
             ELSE Gives([i \in DOMAIN file |-> IntoRule(file[i]).out], <<>>)

(* PatternEngine::from_toml: the same, but a file without a pattern lacks one. *)
ParsePatterns(file) == IF file = <<>> THEN Refusal(Malformed) ELSE ParseRules(file)
===============================================================================
