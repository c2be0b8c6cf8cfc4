-------------------------- MODULE NamedBaselineProofs --------------------------
(***************************************************************************)
(* Proofs about NamedBaseline, for any number of processes and any size of *)
(* their records: what is loaded was recorded as a whole or is the mixture *)
(* that a failed write left, a torn file needs two writers that met or one *)
(* that failed, and an unforced record replaces nothing that it could have *)
(* seen.                                                                   *)
(***************************************************************************)
EXTENDS NamedBaseline, SequenceTheorems, TLAPS

-------------------------------------------------------------------------------
(* The inductive invariant.                                                   *)

Block == Writers \X Nat
Results == Writers \cup {"none", "missing", "error", "mixed", "exists", "recorded", "deleted"}

TypeInv ==
    /\ pc \in [Procs -> {"start", "look", "read", "create", "write", "delete", "done"}]
    /\ op \in [Procs -> {"none", "record", "force", "show", "delete"}]
    /\ content \in Seq(Seq(Block))
    /\ entry \in 0 .. Len(content)
    /\ fd \in [Procs -> Nat]
    /\ buf \in [Procs -> Seq(Block)]
    /\ result \in [Procs -> Results]
    /\ fresh \in [Procs -> SUBSET Procs]
    /\ overlapped \in BOOLEAN

(* Which command can be where, and when it has a file and a result.           *)
Places(p) ==
    /\ pc[p] # "done" => result[p] = "none"
    /\ pc[p] \in {"create", "write"} => op[p] \in {"record", "force"}
    /\ pc[p] \in {"look", "read"} => op[p] \in {"record", "show"}
    /\ pc[p] = "delete" => op[p] = "delete"
    /\ pc[p] \in {"read", "write"} => fd[p] \in 1 .. Len(content)

Recorded(w) == w = Earlier \/ (w \in Procs /\ result[w] = "recorded")
SomeWriteFailed == \E q \in Procs : op[q] \in {"record", "force"} /\ result[q] = "error"

(* Whose last block is in c.                                                  *)
Ends(c) == {w \in Writers : \E i \in DOMAIN c : c[i] = <<w, Size[w]>>}

(* c begins with a whole record, if with anything.                            *)
Begins(c) ==
    c = <<>> \/ \E w \in Writers : Size[w] <= Len(c) /\ \A i \in 1 .. Size[w] : c[i] = <<w, i>>

(* A last block was written by a write that was told to be complete, and only *)
(* a failed write leaves a beginning that is not a record.                    *)
Sourced(c) == (\A w \in Ends(c) : Recorded(w)) /\ (Begins(c) \/ SomeWriteFailed)

(* Each file has one writer at most, for whom it is empty, and is whole when  *)
(* it has none.                                                               *)
Apart ==
    /\ \A p, q \in Writing : fd[p] = fd[q] => p = q
    /\ \A p \in Writing : content[fd[p]] = <<>>
    /\ \A f \in 1 .. Len(content) : (\A p \in Writing : fd[p] # f) => IsWhole(content[f])

(* All that was completed in the file since p looked for it in vain, p knows  *)
(* to be fresh.                                                               *)
Seen(p) == pc[p] = "create" /\ op[p] = "record" /\ entry # 0 => Ends(content[entry]) \subseteq fresh[p]

Shown(p) ==
    op[p] = "show" /\ pc[p] = "done" =>
        \/ result[p] \in {"missing", "error"}
        \/ result[p] = Earlier
        \/ result[p] \in {q \in Procs : result[q] = "recorded"}
        \/ result[p] = "mixed" /\ SomeWriteFailed

IInv ==
    /\ TypeInv
    /\ \A p \in Procs : Places(p) /\ Sourced(buf[p]) /\ Seen(p) /\ Shown(p)
    /\ \A f \in 1 .. Len(content) : Sourced(content[f])
    /\ ~overlapped => Apart

-------------------------------------------------------------------------------
(* Blocks.                                                                    *)

(* A whole record: not empty, and its last block is its writer's.             *)
LEMMA FullBlocks ==
    ASSUME NEW w \in Writers
    PROVE  /\ Full(w) \in Seq(Block) /\ Len(Full(w)) = Size[w]
           /\ Size[w] \in Nat /\ Size[w] > 0
           /\ \A i \in 1 .. Size[w] : Full(w)[i] = <<w, i>>
           /\ Full(w) # <<>> /\ Ends(Full(w)) = {w}
<1>1. Size[w] \in Nat /\ Size[w] > 0 /\ Size[w] \in 1 .. Size[w]
  BY SizeAssumption DEF Writers
<1>2. \A i \in 1 .. Size[w] : <<w, i>> \in Block
  BY <1>1 DEF Block
<1>3. /\ Full(w) \in Seq(Block) /\ Len(Full(w)) = Size[w] /\ DOMAIN Full(w) = 1 .. Size[w]
      /\ \A i \in 1 .. Size[w] : Full(w)[i] = <<w, i>>
  BY <1>1, <1>2 DEF Full
<1>4. ASSUME NEW v \in Ends(Full(w)) PROVE v = w
  BY <1>3 DEF Ends
<1>5. w \in Ends(Full(w))
  BY <1>1, <1>3 DEF Ends
<1>. QED  BY <1>1, <1>3, <1>4, <1>5

(* A record that breaks off has no last block.                                *)
LEMMA BrokenBlocks ==
    ASSUME NEW w \in Writers, NEW n \in 0 .. Size[w] - 1
    PROVE  /\ SubSeq(Full(w), 1, n) \in Seq(Block)
           /\ Ends(SubSeq(Full(w), 1, n)) = {}
<1>1. /\ Full(w) \in Seq(Block) /\ Len(Full(w)) = Size[w] /\ Size[w] \in Nat /\ Size[w] > 0
      /\ \A i \in 1 .. Size[w] : Full(w)[i] = <<w, i>>
  BY FullBlocks
<1> DEFINE s == SubSeq(Full(w), 1, n)
<1>2. n \in Nat /\ n < Size[w]
  BY <1>1
<1>3. s \in Seq(Block) /\ DOMAIN s = 1 .. n /\ \A i \in 1 .. n : s[i] = Full(w)[i]
  BY <1>1, <1>2
<1>. HIDE DEF s
<1>4. ASSUME NEW v \in Writers, NEW i \in DOMAIN s, s[i] = <<v, Size[v]>> PROVE FALSE
  <2>1. i \in 1 .. Size[w] /\ i < Size[w]
    BY <1>1, <1>2, <1>3
  <2>2. <<w, i>> = <<v, Size[v]>>
    BY <1>1, <1>3, <1>4, <2>1
  <2>. QED  BY <2>1, <2>2
<1>. QED  BY <1>3, <1>4 DEF Ends, s

(* Blocks that are put over others.                                           *)
LEMMA OverBlocks ==
    ASSUME NEW s \in Seq(Block), NEW c \in Seq(Block)
    PROVE  /\ Over(s, c) \in Seq(Block) /\ Len(s) <= Len(Over(s, c))
           /\ \A i \in 1 .. Len(s) : Over(s, c)[i] = s[i]
           /\ Ends(Over(s, c)) \subseteq Ends(s) \cup Ends(c)
           /\ c = <<>> => Over(s, c) = s
           /\ s = <<>> => Over(s, c) = c
<1> DEFINE rest == SubSeq(c, Len(s) + 1, Len(c))
<1>1. /\ rest \in Seq(Block) /\ Len(s) \in Nat /\ Len(c) \in Nat
      /\ Len(rest) = IF Len(s) < Len(c) THEN Len(c) - Len(s) ELSE 0
      /\ \A i \in 1 .. Len(rest) : rest[i] = c[Len(s) + i]
  OBVIOUS
<1>2. Over(s, c) = s \o rest
  BY DEF Over
<1>3. c = <<>> => rest = <<>>
  BY <1>1
<1>4. s = <<>> => rest = c
  BY <1>1
<1>. HIDE DEF rest
<1>5. /\ Over(s, c) \in Seq(Block) /\ Len(Over(s, c)) = Len(s) + Len(rest) /\ Len(rest) \in Nat
      /\ \A i \in 1 .. Len(s) : Over(s, c)[i] = s[i]
      /\ \A i \in 1 .. Len(rest) : Over(s, c)[Len(s) + i] = rest[i]
  <2>1. /\ s \o rest \in Seq(Block) /\ Len(s \o rest) = Len(s) + Len(rest)
        /\ \A i \in 1 .. Len(s) + Len(rest) :
              (s \o rest)[i] = IF i <= Len(s) THEN s[i] ELSE rest[i - Len(s)]
    BY <1>1, ConcatProperties
  <2>2. Len(rest) \in Nat
    BY <1>1
  <2>3. \A i \in 1 .. Len(s) : i \in 1 .. Len(s) + Len(rest) /\ i <= Len(s)
    BY <1>1, <2>2
  <2>4. \A i \in 1 .. Len(rest) : /\ Len(s) + i \in 1 .. Len(s) + Len(rest)
                                  /\ ~(Len(s) + i <= Len(s)) /\ (Len(s) + i) - Len(s) = i
    BY <1>1, <2>2
  <2>. QED  BY <1>2, <2>1, <2>2, <2>3, <2>4
<1>6. ASSUME NEW w \in Ends(Over(s, c)) PROVE w \in Ends(s) \cup Ends(c)
  <2>1. PICK i \in 1 .. Len(Over(s, c)) : Over(s, c)[i] = <<w, Size[w]>>
    BY <1>5, <1>6 DEF Ends
  <2>2. CASE i <= Len(s)
    <3>1. i \in 1 .. Len(s) /\ s[i] = <<w, Size[w]>> /\ w \in Writers
      BY <1>1, <1>5, <1>6, <2>1, <2>2 DEF Ends
    <3>. QED  BY <3>1 DEF Ends
  <2>3. CASE i > Len(s)
    <3>1. i - Len(s) \in 1 .. Len(rest) /\ Len(s) + (i - Len(s)) = i
      BY <1>1, <1>5, <2>1, <2>3
    <3>2. i \in 1 .. Len(c) /\ Over(s, c)[i] = c[i]
      <4>1. Over(s, c)[i] = rest[i - Len(s)] /\ rest[i - Len(s)] = c[i]
        BY <1>1, <1>5, <3>1
      <4>2. i \in 1 .. Len(c)
        BY <1>1, <1>5, <2>1, <2>3
      <4>. QED  BY <4>1, <4>2
    <3>. QED  BY <1>6, <2>1, <3>2 DEF Ends
  <2>. QED  BY <1>1, <1>5, <2>1, <2>2, <2>3
<1>. QED  BY <1>1, <1>2, <1>3, <1>4, <1>5, <1>6

(* What parsing may say.                                                      *)
LEMMA ParseSays ==
    ASSUME NEW c \in Seq(Block), NEW r \in Parse(c)
    PROVE  \/ r = "error"
           \/ r \in Writers /\ c = Full(r)
           \/ r = "mixed" /\ ~Begins(c)
<1>1. CASE IsWhole(c)
  BY <1>1 DEF Parse, IsWhole
<1>2. CASE ~IsWhole(c)
  <2>1. SUFFICES ASSUME r = "mixed", r # "error", Begins(c) PROVE FALSE
    BY <1>2 DEF Parse
  <2>2. c # <<>> /\ ~(\E w \in Writers : IsStrictPrefix(Full(w), c))
    BY <1>2, <2>1 DEF Parse
  <2>3. PICK w \in Writers : Size[w] <= Len(c) /\ \A i \in 1 .. Size[w] : c[i] = <<w, i>>
    BY <2>1, <2>2 DEF Begins
  <2>4. /\ Full(w) \in Seq(Block) /\ Len(Full(w)) = Size[w] /\ Size[w] \in Nat
        /\ \A i \in 1 .. Size[w] : Full(w)[i] = <<w, i>>
    BY FullBlocks
  <2>5. SubSeq(Full(w), 1, Size[w]) = SubSeq(c, 1, Size[w])
    <3>1. /\ SubSeq(Full(w), 1, Size[w]) = [i \in 1 .. Size[w] |-> Full(w)[i]]
          /\ SubSeq(c, 1, Size[w]) = [i \in 1 .. Size[w] |-> c[i]]
      BY <2>3, <2>4
    <3>. QED  BY <2>3, <2>4, <3>1
  <2>6. IsPrefix(Full(w), c)
    BY <2>3, <2>4, <2>5 DEF IsPrefix
  <2>7. Full(w) # c
    BY <1>2 DEF IsWhole
  <2>. QED  BY <2>2, <2>6, <2>7 DEF IsStrictPrefix
<1>. QED  BY <1>1, <1>2

-------------------------------------------------------------------------------
(* The steps.                                                                 *)

(* At first there is no record or one that is whole.                          *)
LEMMA InitInvariant == Init => IInv
<1>. SUFFICES ASSUME Init PROVE IInv
  OBVIOUS
<1>1. Earlier \in Writers
  BY DEF Writers
<1>2. /\ Full(Earlier) \in Seq(Block) /\ Ends(Full(Earlier)) = {Earlier}
      /\ Begins(Full(Earlier)) /\ IsWhole(Full(Earlier))
  BY <1>1, FullBlocks DEF Begins, IsWhole
<1>3. Ends(<<>>) = {} /\ Begins(<<>>)
  BY DEF Ends, Begins
<1>4. /\ entry \in 0 .. Len(content) /\ content \in Seq(Seq(Block))
      /\ \A f \in 1 .. Len(content) : content[f] = Full(Earlier)
  <2> DEFINE c == Full(Earlier)
  <2>1. c \in Seq(Block)
    BY <1>2
  <2>. HIDE DEF c
  <2>2. (entry = 0 /\ content = <<>>) \/ (entry = 1 /\ content = <<c>>)
    BY DEF Init, c
  <2>3. /\ <<c>> \in Seq(Seq(Block)) /\ Len(<<c>>) = 1 /\ <<c>>[1] = c
        /\ <<>> \in Seq(Seq(Block)) /\ Len(<<>>) = 0
    BY <2>1
  <2>4. CASE entry = 0 /\ content = <<>>
    BY <2>3, <2>4
  <2>5. CASE entry = 1 /\ content = <<c>>
    <3>1. /\ Len(content) = 1 /\ content \in Seq(Seq(Block)) /\ content[1] = c
          /\ \A f \in 1 .. Len(content) : f = 1
      BY <2>3, <2>5
    <3>. QED  BY <2>5, <3>1 DEF c
  <2>. QED  BY <2>2, <2>4, <2>5 DEF c
<1>5. TypeInv
  <2>1. pc \in [Procs -> {"start"}] /\ op \in [Procs -> {"none"}] /\ result \in [Procs -> {"none"}]
    BY DEF Init
  <2>2. fd \in [Procs -> Nat] /\ buf \in [Procs -> Seq(Block)] /\ fresh \in [Procs -> SUBSET Procs]
    BY DEF Init
  <2>. QED  BY <1>4, <2>1, <2>2 DEF Init, TypeInv, Results
<1>6. \A f \in 1 .. Len(content) : Sourced(content[f])
  BY <1>2, <1>4 DEF Sourced, Recorded
<1>7. Writing = {} /\ Apart
  BY <1>2, <1>4 DEF Init, Writing, Apart
<1>8. \A p \in Procs : Places(p) /\ Sourced(buf[p]) /\ Seen(p) /\ Shown(p)
  BY <1>3 DEF Init, Places, Sourced, Seen, Shown
<1>. QED  BY <1>5, <1>6, <1>7, <1>8 DEF IInv

(* Until its command ends, p is in nobody's account.                          *)
LEMMA AccountsGrow ==
    ASSUME IInv, NEW p \in Procs, pc[p] # "done",
           \A q \in Procs : q # p => op'[q] = op[q] /\ result'[q] = result[q]
    PROVE  /\ \A w \in Writers : Recorded(w) => Recorded(w)'
           /\ SomeWriteFailed => SomeWriteFailed'
           /\ \A q \in Procs : result[q] \in {"recorded", "error"} => q # p
<1>1. result[p] = "none"
  BY DEF IInv, Places
<1>. QED  BY <1>1 DEF Recorded, SomeWriteFailed

(* What a step of p owes to the invariant.                                    *)
LEMMA StepOwes ==
    ASSUME IInv, NEW p \in Procs, pc[p] # "done", TypeInv',
           \A q \in Procs : q # p =>
               /\ pc'[q] = pc[q] /\ op'[q] = op[q] /\ fd'[q] = fd[q]
               /\ buf'[q] = buf[q] /\ result'[q] = result[q],
           Len(content) <= Len(content'),
           Places(p)', Sourced(buf[p])', Shown(p)',
           \A f \in 1 .. Len(content') : Sourced(content[f])',
           \A q \in Procs : Seen(q)',
           ~overlapped' => Apart'
    PROVE  IInv'
<1>1. /\ \A w \in Writers : Recorded(w) => Recorded(w)'
      /\ SomeWriteFailed => SomeWriteFailed'
      /\ \A q \in Procs : result[q] \in {"recorded", "error"} => q # p
  BY AccountsGrow
<1>2. Len(content) \in Nat /\ Len(content') \in Nat
  BY DEF IInv, TypeInv
<1>3. ASSUME NEW q \in Procs, q # p
      PROVE  Places(q)' /\ Sourced(buf[q])' /\ Shown(q)'
  <2>1. Places(q)'
    BY <1>2, <1>3 DEF IInv, Places
  <2>2. Sourced(buf[q])'
    BY <1>1, <1>3 DEF IInv, Sourced, Ends
  <2>3. Shown(q)'
    BY <1>1, <1>3 DEF IInv, Shown
  <2>. QED  BY <2>1, <2>2, <2>3
<1>. QED  BY <1>3 DEF IInv

(* A file that a step leaves alone keeps its sources.                         *)
LEMMA FilesRest ==
    ASSUME IInv, NEW p \in Procs, pc[p] # "done", content' = content,
           \A q \in Procs : q # p => op'[q] = op[q] /\ result'[q] = result[q]
    PROVE  \A f \in 1 .. Len(content') : Sourced(content[f])'
<1>1. /\ \A w \in Writers : Recorded(w) => Recorded(w)'
      /\ SomeWriteFailed => SomeWriteFailed'
  BY AccountsGrow
<1>. QED  BY <1>1 DEF IInv, Sourced, Ends

(* The steps that neither write nor open for writing.                         *)
LEMMA WritersRest ==
    ASSUME IInv, NEW p \in Procs, pc[p] # "write", pc'[p] # "write",
           content' = content, overlapped' = overlapped,
           \A q \in Procs : q # p => pc'[q] = pc[q] /\ fd'[q] = fd[q]
    PROVE  ~overlapped' => Apart'
<1>1. Writing' = Writing /\ \A q \in Writing : fd'[q] = fd[q]
  BY DEF Writing
<1>. QED  BY <1>1 DEF IInv, Apart

(* start                                                                      *)
LEMMA StartStep ==
    ASSUME IInv, NEW p \in Procs, Start(p)
    PROVE  IInv'
<1>1. PICK o \in {"record", "force", "show", "delete"} :
         /\ op' = [op EXCEPT ![p] = o]
         /\ Goto(p, CASE o \in {"record", "show"} -> "look" [] o = "force" -> "create" [] o = "delete" -> "delete")
  BY DEF Start
<1>2. /\ TypeInv /\ pc[p] = "start"
      /\ UNCHANGED <<entry, content, fd, buf, result, fresh, overlapped>>
  BY DEF IInv, Start
<1>3. \/ op'[p] = "record" /\ pc' = [pc EXCEPT ![p] = "look"]
      \/ op'[p] = "show" /\ pc' = [pc EXCEPT ![p] = "look"]
      \/ op'[p] = "force" /\ pc' = [pc EXCEPT ![p] = "create"]
      \/ op'[p] = "delete" /\ pc' = [pc EXCEPT ![p] = "delete"]
  BY <1>1, <1>2 DEF Goto, TypeInv
<1>4. \A q \in Procs : q # p => pc'[q] = pc[q] /\ op'[q] = op[q]
  BY <1>1, <1>2, <1>3 DEF TypeInv
<1>5. TypeInv'
  BY <1>1, <1>2, <1>3 DEF TypeInv
<1>6. Places(p)' /\ Shown(p)'
  BY <1>2, <1>3 DEF IInv, TypeInv, Places, Shown
<1>7. Sourced(buf[p])'
  BY <1>2, <1>4, AccountsGrow DEF IInv, Sourced, Ends
<1>8. \A q \in Procs : Seen(q)'
  BY <1>2, <1>3, <1>4 DEF IInv, TypeInv, Seen
<1>9. ~overlapped' => Apart'
  BY <1>2, <1>3, <1>4, WritersRest DEF TypeInv
<1>10. \A f \in 1 .. Len(content') : Sourced(content[f])'
  BY <1>2, <1>4, FilesRest
<1>11. Len(content) <= Len(content')
  BY <1>2 DEF TypeInv
<1>. QED  BY <1>2, <1>4, <1>5, <1>6, <1>7, <1>8, <1>9, <1>10, <1>11, StepOwes

(* load: the file is opened, or is not there.                                 *)
LEMMA LookStep ==
    ASSUME IInv, NEW p \in Procs, Look(p)
    PROVE  IInv'
<1>1. /\ TypeInv /\ pc[p] = "look" /\ op[p] \in {"record", "show"}
      /\ fresh' = [fresh EXCEPT ![p] = {}]
      /\ UNCHANGED <<op, entry, content, buf, overlapped>>
  BY DEF IInv, Places, Look
<1>2. \/ /\ entry = 0 /\ op[p] = "record" /\ pc' = [pc EXCEPT ![p] = "create"]
         /\ UNCHANGED <<result, fd>>
      \/ /\ entry = 0 /\ op[p] = "show" /\ pc' = [pc EXCEPT ![p] = "done"]
         /\ result' = [result EXCEPT ![p] = "missing"] /\ UNCHANGED fd
      \/ /\ entry # 0 /\ fd' = [fd EXCEPT ![p] = entry] /\ pc' = [pc EXCEPT ![p] = "read"]
         /\ UNCHANGED result
  BY <1>1 DEF Look, Goto, End
<1>3. \A q \in Procs : q # p =>
         pc'[q] = pc[q] /\ fd'[q] = fd[q] /\ result'[q] = result[q] /\ fresh'[q] = fresh[q]
  BY <1>1, <1>2 DEF TypeInv
<1>4. TypeInv'
  <2>1. entry \in Nat
    BY <1>1 DEF TypeInv
  <2>2. pc' \in [Procs -> {"start", "look", "read", "create", "write", "delete", "done"}]
    BY <1>1, <1>2 DEF TypeInv
  <2>3. fd' \in [Procs -> Nat] /\ result' \in [Procs -> Results]
    BY <1>1, <1>2, <2>1 DEF TypeInv, Results
  <2>. QED  BY <1>1, <2>2, <2>3 DEF TypeInv
<1>5. Places(p)' /\ Shown(p)'
  BY <1>1, <1>2 DEF IInv, TypeInv, Places, Shown
<1>6. Sourced(buf[p])'
  BY <1>1, <1>3, AccountsGrow DEF IInv, Sourced, Ends
<1>7. \A q \in Procs : Seen(q)'
  <2>1. Seen(p)'
    BY <1>1, <1>2 DEF TypeInv, Seen
  <2>. QED  BY <1>1, <1>3, <2>1 DEF IInv, Seen
<1>8. ~overlapped' => Apart'
  BY <1>1, <1>2, <1>3, WritersRest DEF TypeInv
<1>9. \A f \in 1 .. Len(content') : Sourced(content[f])'
  BY <1>1, <1>3, FilesRest
<1>10. Len(content) <= Len(content')
  BY <1>1 DEF TypeInv
<1>. QED  BY <1>1, <1>3, <1>4, <1>5, <1>6, <1>7, <1>8, <1>9, <1>10, StepOwes

(* A read puts what it finds behind what was read.                            *)
LEMMA ReadStep ==
    ASSUME IInv, NEW p \in Procs, Read(p)
    PROVE  IInv'
<1> DEFINE b == buf[p]
           c == content[fd[p]]
<1>1. /\ TypeInv /\ pc[p] = "read" /\ Places(p)
      /\ buf' = [buf EXCEPT ![p] = Over(b, c)]
      /\ UNCHANGED <<pc, op, entry, content, fd, result, fresh, overlapped>>
  BY DEF IInv, Read, Unread, Over
<1>2. /\ b \in Seq(Block) /\ c \in Seq(Block) /\ fd[p] \in 1 .. Len(content)
      /\ Sourced(b) /\ Sourced(c)
  BY <1>1 DEF IInv, TypeInv, Places
<1>. HIDE DEF b, c
<1>3. /\ Over(b, c) \in Seq(Block) /\ Len(b) <= Len(Over(b, c))
      /\ \A i \in 1 .. Len(b) : Over(b, c)[i] = b[i]
      /\ Ends(Over(b, c)) \subseteq Ends(b) \cup Ends(c)
      /\ b = <<>> => Over(b, c) = c
  BY <1>2, OverBlocks
<1>4. Begins(b) /\ Begins(c) => Begins(Over(b, c))
  <2>1. SUFFICES ASSUME Begins(b), b # <<>> PROVE Begins(Over(b, c))
    BY <1>3
  <2>2. PICK w \in Writers : Size[w] <= Len(b) /\ \A i \in 1 .. Size[w] : b[i] = <<w, i>>
    BY <2>1 DEF Begins
  <2>3. Size[w] \in Nat /\ Len(b) \in Nat /\ Len(Over(b, c)) \in Nat
    BY <1>2, <1>3, FullBlocks
  <2>4. Size[w] <= Len(Over(b, c)) /\ \A i \in 1 .. Size[w] : Over(b, c)[i] = <<w, i>>
    BY <1>3, <2>2, <2>3
  <2>. QED  BY <2>4 DEF Begins
<1>5. Sourced(Over(b, c))
  BY <1>2, <1>3, <1>4 DEF Sourced
<1>6. /\ buf'[p] = Over(b, c) /\ \A q \in Procs : q # p => buf'[q] = buf[q]
      /\ buf' \in [Procs -> Seq(Block)]
  BY <1>1, <1>3 DEF TypeInv
<1>7. Sourced(buf[p])'
  BY <1>1, <1>5, <1>6 DEF Sourced, Ends, Begins, Recorded, SomeWriteFailed
<1>8. TypeInv' /\ Places(p)' /\ Shown(p)'
  BY <1>1, <1>6 DEF IInv, TypeInv, Places, Shown, SomeWriteFailed
<1>9. \A q \in Procs : Seen(q)'
  BY <1>1 DEF IInv, Seen
<1>10. ~overlapped' => Apart'
  BY <1>1, WritersRest
<1>11. \A f \in 1 .. Len(content') : Sourced(content[f])'
  BY <1>1, FilesRest
<1>12. Len(content) <= Len(content')
  BY <1>1 DEF TypeInv
<1>. QED  BY <1>1, <1>6, <1>7, <1>8, <1>9, <1>10, <1>11, <1>12, StepOwes

(* The end of the file is reached.                                            *)
LEMMA LoadedStep ==
    ASSUME IInv, NEW p \in Procs, Loaded(p)
    PROVE  IInv'
<1>1. /\ TypeInv /\ pc[p] = "read" /\ op[p] \in {"record", "show"} /\ result[p] = "none"
      /\ UNCHANGED <<op, entry, content, fd, buf, fresh, overlapped>>
  BY DEF IInv, Places, Loaded
<1>2. PICK r \in Parse(buf[p]) :
         IF op[p] = "show" THEN End(p, r) ELSE End(p, IF r = "error" THEN "error" ELSE "exists")
  BY DEF Loaded
<1>3. buf[p] \in Seq(Block) /\ Sourced(buf[p])
  BY <1>1 DEF IInv, TypeInv
<1>4. \/ r = "error"
      \/ r \in Writers /\ buf[p] = Full(r)
      \/ r = "mixed" /\ ~Begins(buf[p])
  BY <1>3, ParseSays
<1>5. PICK how \in Results :
         /\ pc' = [pc EXCEPT ![p] = "done"] /\ result' = [result EXCEPT ![p] = how]
         /\ op[p] = "show" => how = r
  <2>1. r \in Results /\ {"error", "exists"} \subseteq Results
    BY <1>4 DEF Results
  <2>. QED  BY <1>2, <2>1 DEF End, Goto
<1>6. /\ \A q \in Procs : q # p => pc'[q] = pc[q] /\ result'[q] = result[q]
      /\ pc'[p] = "done" /\ result'[p] = how
  BY <1>1, <1>5 DEF TypeInv
<1>7. TypeInv' /\ Places(p)'
  BY <1>1, <1>5, <1>6 DEF TypeInv, Places
<1>8. /\ \A w \in Writers : Recorded(w) => Recorded(w)'
      /\ SomeWriteFailed => SomeWriteFailed'
  BY <1>1, <1>6, AccountsGrow
<1>9. Shown(p)'
  <2>1. SUFFICES ASSUME op[p] = "show"
                 PROVE  \/ r = "error" \/ r = Earlier
                        \/ r \in {q \in Procs : result'[q] = "recorded"}
                        \/ r = "mixed" /\ SomeWriteFailed'
    BY <1>1, <1>5, <1>6 DEF Shown
  <2>2. CASE r \in Writers /\ buf[p] = Full(r)
    <3>1. Recorded(r)
      BY <1>3, <2>2, FullBlocks DEF Sourced
    <3>. QED  BY <1>8, <2>2, <3>1 DEF Recorded
  <2>3. CASE r = "mixed" /\ ~Begins(buf[p])
    BY <1>3, <1>8, <2>3 DEF Sourced
  <2>. QED  BY <1>4, <2>2, <2>3
<1>10. Sourced(buf[p])'
  BY <1>1, <1>3, <1>8 DEF Sourced, Ends
<1>11. \A q \in Procs : Seen(q)'
  BY <1>1, <1>6 DEF IInv, Seen
<1>12. ~overlapped' => Apart'
  BY <1>1, <1>6, WritersRest
<1>13. \A f \in 1 .. Len(content') : Sourced(content[f])'
  BY <1>1, <1>6, FilesRest
<1>14. Len(content) <= Len(content')
  BY <1>1 DEF TypeInv
<1>. QED  BY <1>1, <1>6, <1>7, <1>9, <1>10, <1>11, <1>12, <1>13, <1>14, StepOwes

(* The name goes.                                                             *)
LEMMA DeleteStep ==
    ASSUME IInv, NEW p \in Procs, Delete(p)
    PROVE  IInv'
<1>1. /\ TypeInv /\ pc[p] = "delete" /\ op[p] = "delete" /\ entry' = 0
      /\ UNCHANGED <<op, content, fd, buf, fresh, overlapped>>
  BY DEF IInv, Places, Delete
<1>2. PICK how \in Results : pc' = [pc EXCEPT ![p] = "done"] /\ result' = [result EXCEPT ![p] = how]
  <2>1. {"missing", "deleted"} \subseteq Results
    BY DEF Results
  <2>. QED  BY <2>1 DEF Delete, End, Goto
<1>3. /\ \A q \in Procs : q # p => pc'[q] = pc[q] /\ result'[q] = result[q]
      /\ pc'[p] = "done"
  BY <1>1, <1>2 DEF TypeInv
<1>4. TypeInv'
  BY <1>1, <1>2 DEF TypeInv
<1>5. Places(p)' /\ Shown(p)' /\ \A q \in Procs : Seen(q)'
  BY <1>1, <1>3 DEF IInv, Places, Shown, Seen
<1>6. Sourced(buf[p])'
  BY <1>1, <1>3, AccountsGrow DEF IInv, Sourced, Ends
<1>7. ~overlapped' => Apart'
  BY <1>1, <1>3, WritersRest
<1>8. \A f \in 1 .. Len(content') : Sourced(content[f])'
  BY <1>1, <1>3, FilesRest
<1>9. Len(content) <= Len(content')
  BY <1>1 DEF TypeInv
<1>. QED  BY <1>1, <1>3, <1>4, <1>5, <1>6, <1>7, <1>8, <1>9, StepOwes

(* fs::write creates the file or empties it.                                  *)
LEMMA CreateStep ==
    ASSUME IInv, NEW p \in Procs, Create(p)
    PROVE  IInv'
<1>1. /\ TypeInv /\ pc[p] = "create" /\ op[p] \in {"record", "force"} /\ result[p] = "none"
      /\ fd' = [fd EXCEPT ![p] = entry']
      /\ overlapped' = (overlapped \/ \E q \in Writing : fd[q] = entry')
      /\ pc' = [pc EXCEPT ![p] = "write"]
      /\ UNCHANGED <<op, buf, result, fresh>>
  BY DEF IInv, Places, Create, Goto
<1>2. /\ content' \in Seq(Seq(Block)) /\ Len(content) \in Nat /\ Len(content') \in Nat
      /\ entry' \in 1 .. Len(content') /\ content'[entry'] = <<>>
      /\ Len(content) <= Len(content')
      /\ \A f \in 1 .. Len(content') : f # entry' => f \in 1 .. Len(content) /\ content'[f] = content[f]
  <2>1. content \in Seq(Seq(Block)) /\ entry \in 0 .. Len(content) /\ <<>> \in Seq(Block)
    BY <1>1 DEF TypeInv
  <2>2. CASE entry = 0
    <3>1. entry' = Len(content) + 1 /\ content' = Append(content, <<>>)
      BY <2>2 DEF Create
    <3>2. /\ content' \in Seq(Seq(Block)) /\ Len(content') = Len(content) + 1
          /\ content'[Len(content) + 1] = <<>>
          /\ \A f \in 1 .. Len(content) : content'[f] = content[f]
      BY <2>1, <3>1
    <3>. QED  BY <2>1, <3>1, <3>2
  <2>3. CASE entry # 0
    <3>1. entry' = entry /\ content' = [content EXCEPT ![entry] = <<>>] /\ entry \in 1 .. Len(content)
      BY <2>1, <2>3 DEF Create
    <3>. QED  BY <2>1, <3>1
  <2>. QED  BY <2>2, <2>3
<1>3. /\ \A q \in Procs : q # p => pc'[q] = pc[q] /\ fd'[q] = fd[q]
      /\ pc'[p] = "write" /\ fd'[p] = entry'
  BY <1>1 DEF TypeInv
<1>4. TypeInv'
  <2>1. fd' \in [Procs -> Nat] /\ overlapped' \in BOOLEAN
    BY <1>1, <1>2 DEF TypeInv
  <2>. QED  BY <1>1, <1>2, <2>1 DEF TypeInv
<1>5. Places(p)' /\ Shown(p)'
  BY <1>1, <1>2, <1>3 DEF IInv, Places, Shown
<1>6. /\ \A w \in Writers : Recorded(w)' = Recorded(w)
      /\ SomeWriteFailed' = SomeWriteFailed
  BY <1>1 DEF Recorded, SomeWriteFailed
<1>7. Sourced(buf[p])'
  BY <1>1, <1>6 DEF IInv, Sourced, Ends
<1>8. ASSUME NEW f \in 1 .. Len(content') PROVE Sourced(content[f])'
  <2>1. CASE f = entry'
    <3>1. content'[f] = <<>>
      BY <1>2, <2>1
    <3>. QED  BY <3>1 DEF Sourced, Ends, Begins
  <2>2. CASE f # entry'
    <3>1. Sourced(content[f]) /\ content'[f] = content[f]
      BY <1>2, <2>2 DEF IInv
    <3>. QED  BY <1>6, <3>1 DEF Sourced, Ends
  <2>. QED  BY <2>1, <2>2
<1>9. ASSUME NEW q \in Procs PROVE Seen(q)'
  BY <1>2 DEF Seen, Ends
<1>10. ASSUME ~overlapped' PROVE Apart'
  <2>1. Apart /\ \A q \in Writing : fd[q] # entry'
    BY <1>1, <1>10 DEF IInv
  <2>2. Writing' = Writing \cup {p} /\ p \notin Writing
    BY <1>1, <1>3 DEF Writing
  <2>3. \A q \in Writing : fd'[q] = fd[q] /\ fd[q] \in 1 .. Len(content)
    BY <1>3, <2>2 DEF IInv, Writing, Places
  <2>4. \A q, r \in Writing' : fd'[q] = fd'[r] => q = r
    BY <1>3, <2>1, <2>2, <2>3 DEF Apart
  <2>5. \A q \in Writing' : content'[fd'[q]] = <<>>
    <3>1. \A q \in Writing : content'[fd[q]] = content[fd[q]]
      <4>1. \A f \in 1 .. Len(content) : f \in 1 .. Len(content')
        BY <1>2
      <4>. QED  BY <1>2, <2>1, <2>3, <4>1
    <3>. QED  BY <1>2, <1>3, <2>1, <2>2, <2>3, <3>1 DEF Apart
  <2>6. ASSUME NEW f \in 1 .. Len(content'), \A q \in Writing' : fd'[q] # f
        PROVE  IsWhole(content'[f])
    <3>1. f # entry'
      BY <1>3, <2>2, <2>6
    <3>2. \A q \in Writing : fd[q] # f
      BY <2>2, <2>3, <2>6
    <3>. QED  BY <1>2, <2>1, <3>1, <3>2 DEF Apart
  <2>. QED  BY <2>4, <2>5, <2>6 DEF Apart, IsWhole
<1>. QED  BY <1>1, <1>2, <1>3, <1>4, <1>5, <1>7, <1>8, <1>9, <1>10, StepOwes

(* A write that puts the blocks of s, the record or a beginning of it.        *)
LEMMA WriteSteps ==
    ASSUME IInv, NEW p \in Procs, Write(p) \/ WriteFails(p)
    PROVE  IInv'
<1> DEFINE c == content[fd[p]]
<1>1. /\ TypeInv /\ pc[p] = "write" /\ op[p] \in {"record", "force"} /\ result[p] = "none"
      /\ fd[p] \in 1 .. Len(content) /\ p \in Writers
      /\ fresh' = [q \in Procs |-> fresh[q] \cup {p}]
      /\ UNCHANGED <<op, entry, fd, buf>>
  BY DEF IInv, Places, Write, WriteFails, Writers
<1>2. c \in Seq(Block) /\ Sourced(c)
  BY <1>1 DEF IInv, TypeInv
<1>3. PICK s \in Seq(Block) :
         /\ content' = [content EXCEPT ![fd[p]] = Over(s, c)]
         /\ Ends(s) \subseteq {p}
         /\ \/ s = Full(p) /\ overlapped' = overlapped
               /\ pc' = [pc EXCEPT ![p] = "done"] /\ result' = [result EXCEPT ![p] = "recorded"]
            \/ Ends(s) = {} /\ overlapped' = TRUE
               /\ pc' = [pc EXCEPT ![p] = "done"] /\ result' = [result EXCEPT ![p] = "error"]
  <2>1. CASE Write(p)
    BY <1>1, <2>1, FullBlocks DEF Write, End, Goto
  <2>2. CASE WriteFails(p)
    <3>1. PICK n \in 0 .. Size[p] - 1 :
             content' = [content EXCEPT ![fd[p]] = Over(SubSeq(Full(p), 1, n), c)]
      BY <2>2 DEF WriteFails
    <3>2. /\ SubSeq(Full(p), 1, n) \in Seq(Block)
          /\ Ends(SubSeq(Full(p), 1, n)) = {}
      BY <1>1, BrokenBlocks
    <3>. QED  BY <2>2, <3>1, <3>2 DEF WriteFails, End, Goto
  <2>. QED  BY <2>1, <2>2
<1>. HIDE DEF c
<1>4. /\ Over(s, c) \in Seq(Block) /\ Len(s) <= Len(Over(s, c))
      /\ \A i \in 1 .. Len(s) : Over(s, c)[i] = s[i]
      /\ Ends(Over(s, c)) \subseteq Ends(s) \cup Ends(c)
      /\ c = <<>> => Over(s, c) = s
  BY <1>2, <1>3, OverBlocks
<1>5. /\ \A q \in Procs : q # p => pc'[q] = pc[q] /\ result'[q] = result[q]
      /\ pc'[p] = "done" /\ pc' \in [Procs -> {"start", "look", "read", "create", "write", "delete", "done"}]
      /\ result' \in [Procs -> Results]
      /\ \/ s = Full(p) /\ result'[p] = "recorded"
         \/ Ends(s) = {} /\ result'[p] = "error"
  <2>1. result \in [Procs -> Results] /\ {"recorded", "error"} \subseteq Results
    BY <1>1 DEF TypeInv, Results
  <2>2. \/ s = Full(p) /\ result' = [result EXCEPT ![p] = "recorded"]
        \/ Ends(s) = {} /\ result' = [result EXCEPT ![p] = "error"]
    BY <1>3
  <2>3. pc \in [Procs -> {"start", "look", "read", "create", "write", "delete", "done"}]
        /\ pc' = [pc EXCEPT ![p] = "done"]
    BY <1>1, <1>3 DEF TypeInv
  <2>. QED  BY <2>1, <2>2, <2>3
<1>6. /\ content' \in Seq(Seq(Block)) /\ Len(content') = Len(content)
      /\ content'[fd[p]] = Over(s, c)
      /\ \A f \in 1 .. Len(content) : f # fd[p] => content'[f] = content[f]
  BY <1>1, <1>3, <1>4 DEF TypeInv
<1>7. TypeInv'
  BY <1>1, <1>3, <1>5, <1>6 DEF TypeInv
<1>8. Places(p)' /\ Shown(p)'
  BY <1>1, <1>5 DEF Places, Shown
<1>9. /\ \A w \in Writers : Recorded(w) => Recorded(w)'
      /\ SomeWriteFailed => SomeWriteFailed'
  BY <1>1, <1>5, AccountsGrow
<1>10. Sourced(buf[p])'
  BY <1>1, <1>9 DEF IInv, Sourced, Ends
<1>11. /\ \A w \in Ends(Over(s, c)) : Recorded(w)'
       /\ Begins(Over(s, c)) \/ SomeWriteFailed'
  <2>1. CASE s = Full(p) /\ result'[p] = "recorded"
    <3>1. Recorded(p)'
      BY <2>1 DEF Recorded
    <3>2. \A w \in Ends(Over(s, c)) : Recorded(w)'
      BY <1>2, <1>3, <1>4, <1>9, <3>1 DEF Sourced, Ends
    <3>3. /\ Len(s) = Size[p] /\ \A i \in 1 .. Size[p] : s[i] = <<p, i>>
      BY <1>1, <2>1, FullBlocks
    <3>4. Begins(Over(s, c))
      <4>1. Size[p] <= Len(Over(s, c)) /\ \A i \in 1 .. Size[p] : Over(s, c)[i] = <<p, i>>
        BY <1>4, <3>3
      <4>. QED  BY <1>1, <4>1 DEF Begins
    <3>. QED  BY <3>2, <3>4
  <2>2. CASE Ends(s) = {} /\ result'[p] = "error"
    <3>1. SomeWriteFailed'
      BY <1>1, <2>2 DEF SomeWriteFailed
    <3>2. \A w \in Ends(Over(s, c)) : Recorded(w)'
      BY <1>2, <1>4, <1>9, <2>2 DEF Sourced, Ends
    <3>. QED  BY <3>1, <3>2
  <2>. QED  BY <1>5, <2>1, <2>2
<1>12. ASSUME NEW f \in 1 .. Len(content') PROVE Sourced(content[f])'
  <2>1. CASE f = fd[p]
    <3> DEFINE d == content'[fd[p]]
    <3>1. (\A w \in Ends(d) : Recorded(w)') /\ (Begins(d) \/ SomeWriteFailed')
      BY <1>6, <1>11
    <3>. QED  BY <1>1, <2>1, <3>1 DEF Sourced, Ends, Begins
  <2>2. CASE f # fd[p]
    <3>1. Sourced(content[f]) /\ content'[f] = content[f]
      BY <1>6, <2>2 DEF IInv
    <3>. QED  BY <1>9, <3>1 DEF Sourced, Ends
  <2>. QED  BY <2>1, <2>2
<1>13. ASSUME NEW q \in Procs PROVE Seen(q)'
  <2>1. SUFFICES ASSUME pc'[q] = "create", op[q] = "record", entry # 0
                 PROVE  Ends(content'[entry]) \subseteq fresh'[q]
    BY <1>1 DEF Seen, Ends
  <2>2. Ends(content[entry]) \subseteq fresh[q] /\ q # p
    BY <1>5, <2>1 DEF IInv, Seen
  <2>3. fresh'[q] = fresh[q] \cup {p} /\ entry \in 1 .. Len(content)
    BY <1>1, <2>1 DEF TypeInv
  <2>4. CASE entry = fd[p]
    BY <1>3, <1>4, <1>6, <2>2, <2>3, <2>4 DEF c
  <2>5. CASE entry # fd[p]
    BY <1>6, <2>2, <2>3, <2>5
  <2>. QED  BY <2>4, <2>5
<1>14. ASSUME ~overlapped' PROVE Apart'
  <2>1. Apart /\ s = Full(p) /\ Writing' = Writing \ {p} /\ p \in Writing
    BY <1>1, <1>3, <1>5, <1>14 DEF IInv, Writing
  <2>2. \A q \in Writing' : fd[q] # fd[p]
    BY <2>1 DEF Apart
  <2>3. c = <<>> /\ content'[fd[p]] = Full(p)
    BY <1>4, <1>6, <2>1 DEF Apart, c
  <2>4. \A q \in Writing' : content'[fd[q]] = <<>>
    <3>1. \A q \in Writing' : fd[q] \in 1 .. Len(content)
      BY <2>1 DEF IInv, Writing, Places
    <3>. QED  BY <1>6, <2>1, <2>2, <3>1 DEF Apart
  <2>5. ASSUME NEW f \in 1 .. Len(content'), \A q \in Writing' : fd[q] # f
        PROVE  IsWhole(content'[f])
    <3>1. CASE f = fd[p]
      BY <1>1, <2>3, <3>1 DEF IsWhole
    <3>2. CASE f # fd[p]
      BY <1>6, <2>1, <2>5, <3>2 DEF Apart
    <3>. QED  BY <3>1, <3>2
  <2>6. \A q, r \in Writing' : fd[q] = fd[r] => q = r
    BY <2>1 DEF Apart
  <2>. QED  BY <1>1, <2>4, <2>5, <2>6 DEF Apart, IsWhole
<1>15. Len(content) <= Len(content')
  BY <1>6 DEF IInv, TypeInv
<1>. QED  BY <1>1, <1>5, <1>7, <1>8, <1>10, <1>12, <1>13, <1>14, <1>15, StepOwes

-------------------------------------------------------------------------------

(* Every step keeps the inductive invariant.                                  *)
LEMMA NextInvariant == IInv /\ [Next]_vars => IInv'
<1>. SUFFICES ASSUME IInv, [Next]_vars PROVE IInv'
  OBVIOUS
<1>1. ASSUME NEW p \in Procs, Command(p) PROVE IInv'
  BY <1>1, StartStep, LookStep, ReadStep, LoadedStep, CreateStep, WriteSteps, DeleteStep
     DEF Command
<1>2. CASE UNCHANGED vars
  <2>1. TypeInv' /\ \A p \in Procs : Places(p)' /\ Shown(p)'
    BY <1>2 DEF vars, process, IInv, TypeInv, Places, Shown, SomeWriteFailed
  <2>2. \A p \in Procs : Seen(p)'
    BY <1>2 DEF vars, process, IInv, Seen, Ends
  <2>3. \A p \in Procs : Sourced(buf[p])'
    BY <1>2 DEF vars, process, IInv, Sourced, Recorded, SomeWriteFailed, Ends, Begins
  <2>4. \A f \in 1 .. Len(content') : Sourced(content[f])'
    BY <1>2 DEF vars, process, IInv, Sourced, Recorded, SomeWriteFailed, Ends, Begins
  <2>5. ~overlapped' => Apart'
    <3>1. Writing' = Writing
      BY <1>2 DEF vars, process, Writing
    <3>. QED  BY <1>2, <3>1 DEF vars, process, IInv, Apart, IsWhole
  <2>. QED  BY <2>1, <2>2, <2>3, <2>4, <2>5 DEF IInv
<1>. QED  BY <1>1, <1>2 DEF Next, AllDone

(* The inductive invariant holds in every reachable state.                    *)
LEMMA InvariantHolds == Spec => []IInv
<1>. QED  BY InitInvariant, NextInvariant, PTL DEF Spec

(* What load returns as a record was recorded as a whole, also while the file *)
(* is emptied, written, deleted and made anew; a mixture of two needs a write *)
(* that failed (store.rs, record and load).                                   *)
THEOREM LoadedIsWhole == Spec => []LoadsAreWhole
<1>1. IInv => LoadsAreWhole
  BY DEF IInv, Shown, SomeWriteFailed, LoadsAreWhole
<1>. QED  BY <1>1, InvariantHolds, PTL

(* A baseline that cannot be parsed when nobody writes it is left by a write  *)
(* that failed or by two that overlapped (store.rs, record).                  *)
THEOREM TornOnlyThen == Spec => []TornOnlyByOverlap
<1>1. IInv => TornOnlyByOverlap
  BY DEF IInv, TypeInv, Apart, TornOnlyByOverlap
<1>. QED  BY <1>1, InvariantHolds, PTL

(* Without --force a record that is there is given up only for one that was   *)
(* made after the look at the name (cli/mod.rs, run_baseline).                *)
THEOREM UnforcedSpares == Spec => UnforcedSparesWhatItSaw
<1>1. ASSUME IInv, NEW p \in Procs, pc[p] = "create", op[p] = "record", entry # 0,
             IsWhole(content[entry])
      PROVE  \E w \in fresh[p] : content[entry] = Full(w)
  <2>1. PICK w \in Writers : content[entry] = Full(w)
    BY <1>1 DEF IsWhole
  <2>2. w \in Ends(content[entry])
    BY <2>1, FullBlocks
  <2>. QED  BY <1>1, <2>1, <2>2 DEF IInv, Seen
<1>2. IInv => [\A p \in Procs :
                  pc[p] = "create" /\ pc'[p] = "write" /\ op[p] = "record" /\ entry # 0 /\ IsWhole(content[entry])
                      => \E w \in fresh[p] : content[entry] = Full(w)]_vars
  BY <1>1
<1>. QED  BY <1>2, InvariantHolds, PTL DEF Spec, UnforcedSparesWhatItSaw
===============================================================================
