---------------------------- MODULE DaemonProofs ----------------------------
(***************************************************************************)
(* Proofs about Daemon.tla: for any card, any commands and any sizes of    *)
(* the segment and the buffers, what the daemon lays out is what the calls *)
(* read, what it reports is what happened, and cwd follows the cds.        *)
(*                                                                         *)
(* First what is written to cells and read from them, then the commands    *)
(* one by one, then how SdFat reads paths: a path is a walk over its       *)
(* characters, and the names of two paths, one behind the other, are those *)
(* of the first and then those of the second if a slash is between them.   *)
(***************************************************************************)
EXTENDS Daemon, SequenceTheorems, WellFoundedInduction, TLAPS

\* What a cell of the heap or a byte of cwd holds.
Cell == Char \cup {Nul, Failed, Foreign, "/", ".", "@", "x"}

\* The segment is in the heap, and both operands have room for a full buffer.
LEMMA Sizes ==
  /\ STR \in Nat /\ STR > 0 /\ ARG_AT \in Nat /\ STR + 1 < ARG_AT
  /\ COMM_HEAP_SIZE \in Nat /\ ARG_AT + STR + 1 < COMM_HEAP_SIZE
  /\ GLOBAL_HEAP_SIZE \in Nat /\ COMM_HEAP_SIZE <= GLOBAL_HEAP_SIZE
BY DaemonAssumption

LEMMA Characters ==
  ASSUME NEW c \in Char
  PROVE  c # Nul /\ c # Failed /\ c \in Cell
BY DaemonAssumption DEF Cell

-----------------------------------------------------------------------------
(* Numbers: the least one, and induction.                                    *)

LEMMA Least ==
  ASSUME NEW T \in SUBSET Nat, T # {}
  PROVE  \E x \in T : \A y \in T : x <= y
<1> DEFINE R == OpToRel(<, Nat)
<1>1. IsWellFoundedOn(R, Nat)
  BY NatLessThanWellFounded, Zenon
<1>2. \A x, y \in Nat : x < y => <<x, y>> \in R
  BY DEF OpToRel
<1> HIDE DEF R
<1>3. PICK x \in T : \A y \in T : ~ (<<y, x>> \in R)
  BY <1>1, WFMin
<1>4. \A y \in T : ~ (y < x)
  BY <1>2, <1>3
<1> QED BY <1>4

LEMMA Induction ==
  ASSUME NEW S \in SUBSET Nat, 0 \in S, \A n \in S : n + 1 \in S
  PROVE  S = Nat
<1> SUFFICES ASSUME Nat \ S # {} PROVE FALSE
  OBVIOUS
<1>1. PICK x \in Nat \ S : \A y \in Nat \ S : x <= y
  BY Least
<1>2. x # 0 /\ x - 1 \in Nat
  BY <1>1
<1>3. x - 1 \in S
  BY <1>1, <1>2
<1> QED BY <1>1, <1>2, <1>3

-----------------------------------------------------------------------------
(* Strings in the heap.                                                      *)

Heaps == [0 .. GLOBAL_HEAP_SIZE - 1 -> Cell]

LEMMA UptoIs ==
  ASSUME NEW S, NEW s \in Seq(S), NEW n \in Nat
  PROVE  /\ Upto(s, n) \in Seq(S)
         /\ Len(Upto(s, n)) = IF Len(s) < n THEN Len(s) ELSE n
         /\ \A i \in 1 .. Len(Upto(s, n)) : Upto(s, n)[i] = s[i]
         /\ Len(s) <= n => Upto(s, n) = s
BY DEF Upto

\* A string read from the heap ends at the first end, or with the buffer or the
\* heap.
LEMMA StringAtIs ==
  ASSUME NEW h \in Heaps, NEW a \in Nat, NEW ends
  PROVE  \E n \in 0 .. STR :
           /\ StringAt(h, a, ends) = [k \in 1 .. n |-> h[a + k - 1]]
           /\ n = STR \/ a + n \notin DOMAIN h \/ h[a + n] \in ends
           /\ \A j \in 0 .. n - 1 : h[a + j] \notin ends
<1> DEFINE Ends(k) == k = STR \/ a + k \notin DOMAIN h \/ h[a + k] \in ends
           Good(k) == Ends(k) /\ \A j \in 0 .. k - 1 : h[a + j] \notin ends
           n == CHOOSE k \in 0 .. STR : Good(k)
<1>1. PICK k \in {j \in 0 .. STR : Ends(j)} : \A j \in {i \in 0 .. STR : Ends(i)} : k <= j
  <2> DEFINE T == {j \in 0 .. STR : Ends(j)}
  <2>1. T \in SUBSET Nat /\ STR \in T
    BY Sizes
  <2> HIDE DEF T
  <2>2. \E x \in T : \A y \in T : x <= y
    BY <2>1, Least
  <2> QED BY <2>2 DEF T
<1>2. Good(k)
  <2>1. \A j \in 0 .. k - 1 : j \in 0 .. STR /\ ~Ends(j)
    BY <1>1, Sizes
  <2> QED BY <1>1, <2>1
<1>3. n \in 0 .. STR /\ Good(n)
  <2> HIDE DEF Good
  <2> QED BY <1>1, <1>2
<1>4. StringAt(h, a, ends) = [j \in 1 .. n |-> h[a + j - 1]]
  BY Zenon DEF StringAt
<1> HIDE DEF n
<1> QED BY <1>3, <1>4

\* A string that lies in the heap and ends there is read up to its end or to the
\* buffer's.
LEMMA StringAtReads ==
  ASSUME NEW h \in Heaps, NEW a \in Nat, NEW ends, NEW S, NEW s \in Seq(S),
         a + STR < GLOBAL_HEAP_SIZE,
         \A i \in 1 .. Len(s) : i <= STR => h[a + i - 1] = s[i] /\ s[i] \notin ends,
         Len(s) < STR => h[a + Len(s)] \in ends
  PROVE  StringAt(h, a, ends) = Upto(s, STR)
<1>1. PICK n \in 0 .. STR :
        /\ StringAt(h, a, ends) = [k \in 1 .. n |-> h[a + k - 1]]
        /\ n = STR \/ a + n \notin DOMAIN h \/ h[a + n] \in ends
        /\ \A j \in 0 .. n - 1 : h[a + j] \notin ends
  BY StringAtIs
<1>2. a + n \in DOMAIN h
  BY Sizes DEF Heaps
<1>3. n <= Len(s)
  <2> SUFFICES ASSUME Len(s) < n PROVE FALSE
    BY Sizes
  <2>1. Len(s) < STR /\ Len(s) \in 0 .. n - 1
    BY Sizes
  <2> QED BY <1>1, <2>1
<1>4. n = IF Len(s) < STR THEN Len(s) ELSE STR
  <2> SUFFICES ASSUME n < Len(s), n < STR PROVE FALSE
    BY <1>3, Sizes
  <2>1. n + 1 \in 1 .. Len(s) /\ n + 1 <= STR /\ a + (n + 1) - 1 = a + n
    BY Sizes
  <2>2. h[a + n] \notin ends
    BY <2>1
  <2> QED BY <1>1, <1>2, <2>2
<1>5. Upto(s, STR) = [k \in 1 .. n |-> s[k]]
  BY <1>4, Sizes DEF Upto
<1>6. \A k \in 1 .. n : h[a + k - 1] = s[k]
  BY <1>3, Sizes
<1> QED BY <1>1, <1>5, <1>6

LEMMA WrittenIs ==
  ASSUME NEW h \in Heaps, NEW a \in Nat, NEW s \in Seq(Cell)
  PROVE  /\ Written(h, a, s) \in Heaps
         /\ \A b \in 0 .. GLOBAL_HEAP_SIZE - 1 :
              /\ b < a \/ b > a + Len(s) => Written(h, a, s)[b] = h[b]
              /\ b = a + Len(s) => Written(h, a, s)[b] = Nul
         /\ \A i \in 1 .. Len(s) :
              a + i - 1 < GLOBAL_HEAP_SIZE => Written(h, a, s)[a + i - 1] = s[i]
<1>1. DOMAIN h = 0 .. GLOBAL_HEAP_SIZE - 1
  BY DEF Heaps
<1>2. Nul \in Cell
  BY DEF Cell
<1>3. \A b \in 0 .. GLOBAL_HEAP_SIZE - 1 : b \in a .. a + Len(s) - 1 => s[b - a + 1] \in Cell
  BY Sizes
<1>4. Written(h, a, s) \in Heaps
  BY <1>1, <1>2, <1>3 DEF Written, Heaps
<1>5. \A b \in 0 .. GLOBAL_HEAP_SIZE - 1 :
        Written(h, a, s)[b] = IF b \in a .. a + Len(s) - 1 THEN s[b - a + 1]
                              ELSE IF b = a + Len(s) THEN Nul ELSE h[b]
  BY <1>1 DEF Written
<1>6. \A b \in 0 .. GLOBAL_HEAP_SIZE - 1 :
        /\ b < a \/ b > a + Len(s) => Written(h, a, s)[b] = h[b]
        /\ b = a + Len(s) => Written(h, a, s)[b] = Nul
  BY <1>5, Sizes
<1>7. \A i \in 1 .. Len(s) :
        a + i - 1 < GLOBAL_HEAP_SIZE => Written(h, a, s)[a + i - 1] = s[i]
  <2> SUFFICES ASSUME NEW i \in 1 .. Len(s), a + i - 1 < GLOBAL_HEAP_SIZE
               PROVE  Written(h, a, s)[a + i - 1] = s[i]
    OBVIOUS
  <2>1. a + i - 1 \in 0 .. GLOBAL_HEAP_SIZE - 1 /\ a + i - 1 \in a .. a + Len(s) - 1
        /\ (a + i - 1) - a + 1 = i
    BY Sizes
  <2> QED BY <1>5, <2>1
<1> QED BY <1>4, <1>6, <1>7

-----------------------------------------------------------------------------
(* Comm_process lays out the payload.                                        *)

\* No failure is reported in cells of others.
NoFailureOutside(h) ==
  \A b \in COMM_HEAP_SIZE .. GLOBAL_HEAP_SIZE - 1 : h[b] # Failed

\* h holds data from cell 1 on, as far as it fits, and otherwise what g holds.
LaidOver(h, g, data) ==
  /\ h \in Heaps
  /\ NoFailureOutside(g) => NoFailureOutside(h)
  /\ \A b \in 0 .. GLOBAL_HEAP_SIZE - 1 : b = 0 \/ b > Len(data) + 1 => h[b] = g[b]
  /\ Len(data) <= COMM_HEAP_SIZE - 2 =>
       /\ \A i \in 1 .. Len(data) : h[i] = data[i]
       /\ h[Len(data) + 1] = Nul

LEMMA CopyIs ==
  ASSUME NEW g \in Heaps, NEW data \in Seq(Char)
  PROVE  LaidOver(Comm_copyToHeap(g, data), g, data)
<1> DEFINE max == COMM_HEAP_SIZE * INT_SIZE
           len == IF Len(data) >= max - 1 THEN max - 2 ELSE Len(data)
           s == SubSeq(data, 1, len)
           h == Comm_copyToHeap(g, data)
<1>1. max \in Nat /\ max >= COMM_HEAP_SIZE
  <2>1. \A m, n \in Nat : n > 0 => m * n \in Nat /\ m * n >= m
    <3> SUFFICES ASSUME NEW m \in Nat, NEW n \in Nat, n > 0 PROVE m * n \in Nat /\ m * n >= m
      OBVIOUS
    <3>1. m * n = m * (n - 1) + m /\ m * (n - 1) \in Nat
      OBVIOUS
    <3> QED BY <3>1
  <2> QED BY <2>1, DaemonAssumption
<1>2. len \in 0 .. Len(data) /\ (Len(data) <= COMM_HEAP_SIZE - 2 => len = Len(data))
  <2> HIDE DEF max
  <2> QED BY <1>1, Sizes
<1> HIDE DEF max, len
<1>3. /\ s \in Seq(Cell) /\ Len(s) = len
      /\ \A i \in 1 .. len : s[i] = data[i] /\ s[i] \in Char
  <2>1. data \in Seq(Cell)
    BY Characters, SeqMonotonic DEF Cell
  <2> QED BY <1>2, <2>1
<1>4. h = Written(g, 1, s)
  BY Zenon DEF Comm_copyToHeap, len, max
<1> HIDE DEF s, h
<1>5. /\ h \in Heaps
      /\ \A b \in 0 .. GLOBAL_HEAP_SIZE - 1 :
           /\ b < 1 \/ b > 1 + len => h[b] = g[b]
           /\ b = 1 + len => h[b] = Nul
      /\ \A i \in 1 .. len : 1 + i - 1 < GLOBAL_HEAP_SIZE => h[1 + i - 1] = s[i]
  <2>1. /\ Written(g, 1, s) \in Heaps
        /\ \A b \in 0 .. GLOBAL_HEAP_SIZE - 1 :
             /\ b < 1 \/ b > 1 + Len(s) => Written(g, 1, s)[b] = g[b]
             /\ b = 1 + Len(s) => Written(g, 1, s)[b] = Nul
        /\ \A i \in 1 .. Len(s) :
             1 + i - 1 < GLOBAL_HEAP_SIZE => Written(g, 1, s)[1 + i - 1] = s[i]
    <3>1. s \in Seq(Cell)
      BY <1>3
    <3> QED BY <3>1, WrittenIs
  <2> QED BY <1>3, <1>4, <2>1
<1>6. \A i \in 1 .. len : i < GLOBAL_HEAP_SIZE => h[i] = data[i] /\ h[i] \in Char
  BY <1>2, <1>3, <1>5
<1>7. ASSUME NoFailureOutside(g) PROVE NoFailureOutside(h)
  <2> SUFFICES ASSUME NEW b \in COMM_HEAP_SIZE .. GLOBAL_HEAP_SIZE - 1
               PROVE  h[b] # Failed
    BY DEF NoFailureOutside
  <2>1. b \in 0 .. GLOBAL_HEAP_SIZE - 1 /\ b > 0
    BY Sizes
  <2>2. CASE b > 1 + len
    BY <1>5, <1>7, <2>1, <2>2 DEF NoFailureOutside
  <2>3. CASE b = 1 + len
    <3>1. Nul # Failed
      BY DEF Nul, Failed
    <3> QED BY <1>5, <2>1, <2>3, <3>1
  <2>4. CASE b < 1 + len
    <3>1. b \in 1 .. len
      BY <1>2, <2>1, <2>4
    <3>2. h[b] \in Char
      BY <1>6, <2>1, <3>1, Sizes
    <3> QED BY <3>2, Characters
  <2> QED BY <1>2, <2>1, <2>2, <2>3, <2>4
<1>8. \A b \in 0 .. GLOBAL_HEAP_SIZE - 1 : b = 0 \/ b > Len(data) + 1 => h[b] = g[b]
  BY <1>2, <1>5
<1>9. ASSUME Len(data) <= COMM_HEAP_SIZE - 2
      PROVE  /\ \A i \in 1 .. Len(data) : h[i] = data[i]
             /\ h[Len(data) + 1] = Nul
  BY <1>2, <1>5, <1>6, <1>9, Sizes
<1> QED BY <1>5, <1>7, <1>8, <1>9 DEF LaidOver, h

LEMMA LaidIs ==
  ASSUME global_heap \in Heaps, NEW data \in Seq(Char)
  PROVE  LaidOver(Laid(data), global_heap, data)
<1>1. CASE data = <<>>
  <2>1. Laid(data) = [global_heap EXCEPT ![1] = Nul]
    BY <1>1 DEF Laid
  <2>2. Nul \in Cell /\ Nul # Failed /\ 1 \in 0 .. GLOBAL_HEAP_SIZE - 1
    BY Sizes DEF Cell, Nul, Failed
  <2>3. Laid(data) \in Heaps /\ Laid(data)[1] = Nul
        /\ \A b \in 0 .. GLOBAL_HEAP_SIZE - 1 : b # 1 => Laid(data)[b] = global_heap[b]
    BY <2>1, <2>2 DEF Heaps
  <2>4. COMM_HEAP_SIZE > 1
    BY Sizes
  <2> QED BY <1>1, <2>2, <2>3, <2>4, Sizes DEF LaidOver, NoFailureOutside
<1>2. CASE data # <<>>
  BY <1>2, CopyIs DEF Laid
<1> QED BY <1>1, <1>2

-----------------------------------------------------------------------------
(* Paths.                                                                    *)

LEMMA Greatest ==
  ASSUME NEW n \in Nat, NEW T \in SUBSET (0 .. n), T # {}
  PROVE  \E x \in T : \A y \in T : x >= y
<1> DEFINE U == {x \in 0 .. n : n - x \in T}
<1>1. U \in SUBSET Nat
  OBVIOUS
<1>2. \A x \in T : n - x \in U
  OBVIOUS
<1>3. U # {}
  BY <1>2
<1> HIDE DEF U
<1>4. PICK u \in U : \A v \in U : u <= v
  BY <1>1, <1>3, Least
<1>5. u \in 0 .. n /\ n - u \in T
  BY DEF U
<1>6. \A y \in T : n - u >= y
  BY <1>2, <1>4, <1>5
<1> QED BY <1>5, <1>6

LastSlash(s) == SelectLastInSeq(s, LAMBDA c : c = "/")

LEMMA LastSlashIs ==
  ASSUME NEW S, NEW s \in Seq(S)
  PROVE  /\ LastSlash(s) \in 0 .. Len(s)
         /\ LastSlash(s) # 0 => s[LastSlash(s)] = "/"
         /\ \A i \in 1 .. Len(s) : s[i] = "/" => i <= LastSlash(s)
<1> DEFINE I == {i \in 1 .. Len(s) : s[i] = "/"}
<1>1. LastSlash(s) = IF I # {} THEN Max(I) ELSE 0
  BY Zenon DEF LastSlash, SelectLastInSeq
<1>2. CASE I = {}
  BY <1>1, <1>2
<1>3. CASE I # {}
  <2>1. Len(s) \in Nat /\ I \in SUBSET (0 .. Len(s)) /\ I \in SUBSET (1 .. Len(s))
    OBVIOUS
  <2>2. Max(I) = CHOOSE x \in I : \A y \in I : x >= y
    BY Zenon DEF Max
  <2> HIDE DEF I
  <2>3. \E x \in I : \A y \in I : x >= y
    BY <1>3, <2>1, Greatest
  <2>4. Max(I) \in I /\ \A y \in I : Max(I) >= y
    BY <2>2, <2>3
  <2> QED BY <1>1, <1>3, <2>1, <2>4 DEF I
<1> QED BY <1>2, <1>3

\* An absolute path.
Absolute(s) == s \in Seq(Cell) /\ s # <<>> /\ s[1] = "/"

LEMMA ParentIsAbsolute ==
  ASSUME NEW here, Absolute(here)
  PROVE  Absolute(Parent(here))
<1> DEFINE path == IF Len(here) > 1 /\ Last(here) = "/" THEN Front(here) ELSE here
           m == LastSlash(path)
<1>1. path \in Seq(Cell) /\ path # <<>> /\ path[1] = "/"
  <2>1. here \in Seq(Cell) /\ here # <<>> /\ here[1] = "/"
    BY DEF Absolute
  <2>2. CASE Len(here) > 1 /\ Last(here) = "/"
    <3>1. path = SubSeq(here, 1, Len(here) - 1)
      BY <2>2 DEF Front
    <3> HIDE DEF path
    <3>2. Len(here) > 1 /\ Len(here) - 1 \in 0 .. Len(here)
      BY <2>1, <2>2
    <3>3. /\ SubSeq(here, 1, Len(here) - 1) \in Seq(Cell)
          /\ Len(SubSeq(here, 1, Len(here) - 1)) = Len(here) - 1
          /\ SubSeq(here, 1, Len(here) - 1)[1] = here[1]
      BY <2>1, <3>2
    <3>4. path \in Seq(Cell) /\ Len(path) > 0 /\ path[1] = "/"
      BY <2>1, <3>1, <3>2, <3>3
    <3> QED BY <3>4
  <2> QED BY <2>1, <2>2
<1>2. Parent(here) = IF m <= 1 THEN <<"/">> ELSE SubSeq(path, 1, m - 1)
  BY Zenon DEF Parent, LastSlash
<1> HIDE DEF path
<1>3. m \in 0 .. Len(path)
  BY <1>1, LastSlashIs
<1> HIDE DEF m
<1>4. CASE m <= 1
  BY <1>2, <1>4 DEF Absolute, Cell
<1>5. CASE m > 1
  <2>1. SubSeq(path, 1, m - 1) \in Seq(Cell) /\ Len(SubSeq(path, 1, m - 1)) = m - 1
        /\ SubSeq(path, 1, m - 1)[1] = path[1]
    BY <1>1, <1>3, <1>5
  <2>2. ~(m <= 1)
    BY <1>3, <1>5
  <2>3. SubSeq(path, 1, m - 1) # <<>>
    BY <1>3, <1>5, <2>1
  <2> QED BY <1>1, <1>2, <2>1, <2>2, <2>3 DEF Absolute
<1> QED BY <1>3, <1>4, <1>5

LEMMA TargetIsAbsolute ==
  ASSUME NEW here, Absolute(here), NEW path \in Seq(Cell)
  PROVE  Absolute(Target(here, path)) /\ Absolute(resolve_path(here, path))
<1>1. Absolute(resolve_path(here, path))
  BY DEF Absolute, resolve_path, Cell
<1>2. Absolute(Parent(here))
  BY ParentIsAbsolute
<1> QED BY <1>1, <1>2, Zenon DEF Target

LEMMA StoredIsAbsolute ==
  ASSUME NEW target, Absolute(target)
  PROVE  Absolute(Stored(target)) /\ Len(Stored(target)) <= STR + 1
<1> DEFINE s == Upto(target, STR)
<1>1. s \in Seq(Cell) /\ Len(s) <= STR /\ Len(s) > 0 /\ s[1] = "/"
  <2>1. target \in Seq(Cell) /\ Len(target) > 0 /\ target[1] = "/"
    BY DEF Absolute
  <2> QED BY <2>1, Sizes DEF Upto
<1>2. Stored(target) = IF Len(s) > 1 /\ Last(s) # "/" THEN Append(s, "/") ELSE s
  BY Zenon DEF Stored
<1> HIDE DEF s
<1>3. "/" \in Cell
  BY DEF Cell
<1> QED BY <1>1, <1>2, <1>3, Sizes DEF Absolute

-----------------------------------------------------------------------------
(* What each command does to the heap and to cwd, and what it reports.       *)

HeapOK == global_heap \in Heaps /\ NoFailureOutside(global_heap)
CwdOK == Absolute(cwd) /\ Len(cwd) <= STR + 1 /\ behind \in {<<>>, <<"@">>}

\* No cell of others changes.
Kept(h, g) ==
  \A b \in COMM_HEAP_SIZE .. GLOBAL_HEAP_SIZE - 1 : h[b] = g[b]

LEMMA Strings ==
  /\ \A s \in Paths \cup Commands \cup Listings :
       s \in Seq(Char) /\ s \in Seq(Cell) /\ Len(s) \in Nat
  /\ \A l \in Listings \cup {<<>>} : l \in Seq(Char) /\ Len(l) < COMM_HEAP_SIZE
<1>1. Seq(Char) \subseteq Seq(Cell)
  BY SeqMonotonic DEF Cell
<1>2. <<>> \in Seq(Char) /\ Len(<<>>) < COMM_HEAP_SIZE
  BY Sizes
<1>3. Paths \cup Commands \cup Listings \subseteq Seq(Char)
      /\ \A l \in Listings : Len(l) < COMM_HEAP_SIZE
  BY DaemonAssumption
<1>4. ASSUME NEW s \in Paths \cup Commands \cup Listings
      PROVE  s \in Seq(Char) /\ s \in Seq(Cell) /\ Len(s) \in Nat
  <2>1. s \in Seq(Char)
    BY <1>3
  <2> QED BY <1>1, <2>1
<1>5. ASSUME NEW l \in Listings \cup {<<>>}
      PROVE  l \in Seq(Char) /\ Len(l) < COMM_HEAP_SIZE
  BY <1>2, <1>3
<1> QED BY <1>4, <1>5

LEMMA LaidKeeps ==
  ASSUME HeapOK, NEW data \in Paths \cup Commands \cup {<<>>}
  PROVE  /\ Laid(data) \in Heaps /\ NoFailureOutside(Laid(data))
         /\ Len(data) <= COMM_HEAP_SIZE - ARG_AT => Kept(Laid(data), global_heap)
<1>1. data \in Seq(Char)
  BY Strings
<1>2. LaidOver(Laid(data), global_heap, data)
  BY <1>1, LaidIs DEF HeapOK
<1>3. ASSUME Len(data) <= COMM_HEAP_SIZE - ARG_AT,
             NEW b \in COMM_HEAP_SIZE .. GLOBAL_HEAP_SIZE - 1
      PROVE  Laid(data)[b] = global_heap[b]
  <2>1. b \in 0 .. GLOBAL_HEAP_SIZE - 1 /\ b > Len(data) + 1
    BY <1>1, <1>3, Sizes
  <2> QED BY <1>2, <2>1 DEF LaidOver
<1> QED BY <1>2, <1>3 DEF LaidOver, HeapOK, Kept

LEMMA ListedIs ==
  ASSUME NEW h \in Heaps, NoFailureOutside(h), NEW listing \in Listings \cup {<<>>}
  PROVE  /\ Listed(h, listing) \in Heaps /\ NoFailureOutside(Listed(h, listing))
         /\ Kept(Listed(h, listing), h) /\ Listed(h, listing)[0] # Failed
<1> DEFINE g == [a \in DOMAIN h |-> IF a < COMM_HEAP_SIZE THEN Nul ELSE h[a]]
           w == Written(g, 0, listing)
<1>1. g \in Heaps /\ Kept(g, h)
  <2>1. Nul \in Cell
    BY DEF Cell
  <2>2. DOMAIN h = 0 .. GLOBAL_HEAP_SIZE - 1
    BY DEF Heaps
  <2>3. g \in Heaps
    BY <2>1, <2>2 DEF Heaps
  <2>4. \A b \in COMM_HEAP_SIZE .. GLOBAL_HEAP_SIZE - 1 : g[b] = h[b]
    BY <2>2, Sizes
  <2> QED BY <2>3, <2>4 DEF Kept
<1>2. listing \in Seq(Char) /\ listing \in Seq(Cell) /\ Len(listing) < COMM_HEAP_SIZE
      /\ Len(listing) \in Nat
  <2>1. Seq(Char) \subseteq Seq(Cell)
    BY SeqMonotonic DEF Cell
  <2> QED BY <2>1, Strings
<1> HIDE DEF g
<1>3. /\ w \in Heaps
      /\ \A b \in 0 .. GLOBAL_HEAP_SIZE - 1 :
           /\ b < 0 \/ b > 0 + Len(listing) => w[b] = g[b]
           /\ b = 0 + Len(listing) => w[b] = Nul
      /\ \A i \in 1 .. Len(listing) :
           0 + i - 1 < GLOBAL_HEAP_SIZE => w[0 + i - 1] = listing[i]
  BY <1>1, <1>2, WrittenIs
<1>4. Listed(h, listing) = w
  BY Zenon DEF Listed, g
<1> HIDE DEF w
<1>5. Kept(w, h)
  <2>1. \A b \in COMM_HEAP_SIZE .. GLOBAL_HEAP_SIZE - 1 :
          b \in 0 .. GLOBAL_HEAP_SIZE - 1 /\ b > 0 + Len(listing)
    BY <1>2, Sizes
  <2> QED BY <1>1, <1>3, <2>1 DEF Kept
<1>6. w[0] # Failed
  <2>1. CASE Len(listing) = 0
    <3>1. w[0] = Nul
      BY <1>3, <2>1, Sizes
    <3> QED BY <3>1 DEF Nul, Failed
  <2>2. CASE Len(listing) > 0
    <3>1. w[0] = listing[1] /\ listing[1] \in Char
      BY <1>2, <1>3, <2>2, Sizes
    <3> QED BY <3>1, Characters
  <2> QED BY <1>2, <2>1, <2>2
<1>7. NoFailureOutside(w)
  BY <1>5 DEF Kept, NoFailureOutside
<1> QED BY <1>3, <1>4, <1>5, <1>6, <1>7

LEMMA LsKeeps ==
  ASSUME HeapOK, CwdOK, NEW data \in Paths, Comm_ls(data)
  PROVE  /\ HeapOK' /\ CwdOK' /\ UNCHANGED <<cwd, dir, odd>>
         /\ last'.kind = "ls" /\ last'.payload = data /\ last'.error = last'.failed
         /\ Len(data) <= COMM_HEAP_SIZE - ARG_AT => Kept(global_heap', global_heap)
<1> DEFINE h == Laid(data)
<1>1. /\ h \in Heaps /\ NoFailureOutside(h)
      /\ Len(data) <= COMM_HEAP_SIZE - ARG_AT => Kept(h, global_heap)
  BY LaidKeeps
<1>2. PICK opens \in BOOLEAN :
        /\ \E listing \in Listings \cup {<<>>} :
             global_heap' = IF ~opens THEN [h EXCEPT ![0] = Failed] ELSE Listed(h, listing)
        /\ last' = [kind |-> "ls", payload |-> data, failed |-> ~opens,
                    error |-> global_heap'[0] = Failed]
  <2> DEFINE args == Upto(data, STR)
             path == IF data = <<>> THEN Text(<<>>) ELSE resolve_path(Text(<<>>), args)
             names == Names(path)
             op == IsDirectory(path) \/ names \in PlainFiles
  <2>1. /\ \E listing \in IF names \in PlainFiles THEN {<<>>} ELSE Listings :
             global_heap' = IF ~op THEN [h EXCEPT ![0] = Failed] ELSE Listed(h, listing)
        /\ last' = [kind |-> "ls", payload |-> data, failed |-> ~op,
                    error |-> global_heap'[0] = Failed]
    BY Zenon DEF Comm_ls
  <2>2. op \in BOOLEAN
    OBVIOUS
  <2> HIDE DEF op, names
  <2>3. PICK listing \in Listings \cup {<<>>} :
          global_heap' = IF ~op THEN [h EXCEPT ![0] = Failed] ELSE Listed(h, listing)
    BY <2>1
  <2> QED BY <2>1, <2>2, <2>3, Zenon
<1>3. PICK listing \in Listings \cup {<<>>} :
        global_heap' = IF ~opens THEN [h EXCEPT ![0] = Failed] ELSE Listed(h, listing)
  BY <1>2
<1> HIDE DEF h
<1>4. /\ global_heap' \in Heaps /\ NoFailureOutside(global_heap') /\ Kept(global_heap', h)
      /\ (global_heap'[0] = Failed) = ~opens
  <2>1. CASE opens
    BY <1>1, <1>3, <2>1, ListedIs
  <2>2. CASE ~opens
    <3>1. 0 \in 0 .. GLOBAL_HEAP_SIZE - 1 /\ Failed \in Cell
      BY Sizes DEF Cell
    <3>2. global_heap' = [h EXCEPT ![0] = Failed]
      BY <1>3, <2>2
    <3>3. \A b \in COMM_HEAP_SIZE .. GLOBAL_HEAP_SIZE - 1 : global_heap'[b] = h[b]
      BY <1>1, <3>2, Sizes DEF Heaps
    <3>4. global_heap' \in Heaps /\ global_heap'[0] = Failed
      BY <1>1, <3>1, <3>2 DEF Heaps
    <3> QED BY <1>1, <2>2, <3>3, <3>4 DEF Kept, NoFailureOutside
  <2> QED BY <2>1, <2>2
<1>5. UNCHANGED <<cwd, dir, odd>> /\ behind' = <<>>
  BY DEF Comm_ls
<1>6. HeapOK' /\ CwdOK'
  BY <1>4, <1>5 DEF HeapOK, CwdOK, Absolute, NoFailureOutside
<1>7. last'.kind = "ls" /\ last'.payload = data /\ last'.error = last'.failed
  BY <1>2, <1>4
<1>8. Len(data) <= COMM_HEAP_SIZE - ARG_AT => Kept(global_heap', global_heap)
  BY <1>1, <1>4 DEF Kept
<1> QED BY <1>5, <1>6, <1>7, <1>8

LEMMA WrittenKeeps ==
  ASSUME NEW h \in Heaps, NoFailureOutside(h), NEW a \in Nat, NEW s \in Seq(Char)
  PROVE  /\ Written(h, a, s) \in Heaps /\ NoFailureOutside(Written(h, a, s))
         /\ a + Len(s) < COMM_HEAP_SIZE => Kept(Written(h, a, s), h)
<1> DEFINE w == Written(h, a, s)
<1>1. s \in Seq(Cell) /\ Len(s) \in Nat /\ \A i \in 1 .. Len(s) : s[i] \in Char
  <2>1. Seq(Char) \subseteq Seq(Cell)
    BY SeqMonotonic DEF Cell
  <2> QED BY <2>1
<1>2. /\ w \in Heaps
      /\ \A b \in 0 .. GLOBAL_HEAP_SIZE - 1 :
           /\ b < a \/ b > a + Len(s) => w[b] = h[b]
           /\ b = a + Len(s) => w[b] = Nul
      /\ \A i \in 1 .. Len(s) : a + i - 1 < GLOBAL_HEAP_SIZE => w[a + i - 1] = s[i]
  BY <1>1, WrittenIs
<1> HIDE DEF w
<1>3. ASSUME NEW b \in COMM_HEAP_SIZE .. GLOBAL_HEAP_SIZE - 1
      PROVE  w[b] # Failed /\ (a + Len(s) < COMM_HEAP_SIZE => w[b] = h[b])
  <2>1. b \in 0 .. GLOBAL_HEAP_SIZE - 1 /\ b >= COMM_HEAP_SIZE /\ b \in Nat
        /\ COMM_HEAP_SIZE \in Nat /\ GLOBAL_HEAP_SIZE \in Nat
    BY Sizes
  <2>2. CASE b < a \/ b > a + Len(s)
    BY <1>2, <2>1, <2>2 DEF NoFailureOutside
  <2>3. CASE b = a + Len(s)
    BY <1>2, <2>1, <2>3 DEF Nul, Failed
  <2>4. CASE b >= a /\ b < a + Len(s)
    <3>1. b - a + 1 \in 1 .. Len(s) /\ a + (b - a + 1) - 1 = b
      BY <1>1, <2>1, <2>4
    <3>2. w[b] = s[b - a + 1] /\ s[b - a + 1] \in Char
      <4>1. a + (b - a + 1) - 1 < GLOBAL_HEAP_SIZE
        BY <2>1, <3>1
      <4> QED BY <1>1, <1>2, <3>1, <4>1
    <3> QED BY <1>1, <2>1, <2>4, <3>2, Characters
  <2> QED BY <1>1, <2>1, <2>2, <2>3, <2>4
<1> QED BY <1>2, <1>3 DEF w, NoFailureOutside, Kept

\* The first blank from a position on, if there is one.
LEMMA BlankIs ==
  ASSUME NEW data \in Seq(Char), NEW from \in Nat \ {0}
  PROVE  \/ /\ Blank(data, from) = 0
            /\ \A i \in from .. Len(data) : data[i] # " "
         \/ /\ Blank(data, from) \in from .. Len(data)
            /\ data[Blank(data, from)] = " "
            /\ \A i \in from .. Blank(data, from) - 1 : data[i] # " "
<1> DEFINE t == [i \in 1 .. Len(data) |-> IF i < from THEN "x" ELSE data[i]]
           I == {i \in 1 .. Len(t) : t[i] = " "}
           J == {i \in from .. Len(data) : data[i] = " "}
<1>0. Len(data) \in Nat /\ from \in Nat /\ from > 0
  OBVIOUS
<1>1. Blank(data, from) = IF I # {} THEN Min(I) ELSE 0
  BY Zenon DEF Blank, SelectInSeq
<1>2. I = J
  <2>1. Len(t) = Len(data)
    <3>1. t \in Seq(Char \cup {"x"}) /\ DOMAIN t = 1 .. Len(data)
      BY <1>0, IsASeq
    <3> HIDE DEF t
    <3> QED BY <1>0, <3>1, LenProperties
  <2>2. \A i \in 1 .. Len(data) : t[i] = IF i < from THEN "x" ELSE data[i]
    OBVIOUS
  <2> HIDE DEF t
  <2>3. ASSUME NEW i PROVE i \in I <=> i \in J
    <3>1. CASE i \in 1 .. Len(data) /\ i < from
      <4>1. t[i] = "x" /\ ~(i >= from)
        BY <1>0, <2>2, <3>1
      <4>2. t[i] # " "
        BY <4>1
      <4>3. i \notin from .. Len(data)
        BY <1>0, <4>1
      <4> QED BY <2>1, <4>2, <4>3
    <3>2. CASE i \in 1 .. Len(data) /\ ~(i < from)
      <4>1. t[i] = data[i] /\ i \in from .. Len(data)
        BY <1>0, <2>2, <3>2
      <4> QED BY <2>1, <3>2, <4>1
    <3>3. CASE i \notin 1 .. Len(data)
      <4>1. i \notin from .. Len(data)
        BY <1>0, <3>3
      <4> QED BY <2>1, <3>3, <4>1
    <3> QED BY <3>1, <3>2, <3>3
  <2> HIDE DEF I, J
  <2> QED BY <2>3
<1>3. CASE J = {}
  BY <1>1, <1>2, <1>3
<1>4. CASE J # {}
  <2>1. Min(J) = CHOOSE x \in J : \A y \in J : x <= y
    BY Zenon DEF Min
  <2>2. J \in SUBSET Nat /\ J \in SUBSET (from .. Len(data))
    <3>1. \A x \in J : x \in from .. Len(data)
      OBVIOUS
    <3> HIDE DEF J
    <3> QED BY <1>0, <3>1
  <2> DEFINE m == Min(J)
  <2>3. m \in J /\ \A y \in J : m <= y
    <3> HIDE DEF J
    <3>1. \E x \in J : \A y \in J : x <= y
      BY <1>4, <2>2, Least
    <3> QED BY <2>1, <3>1
  <2> HIDE DEF m
  <2>4. \A i \in from .. m - 1 : i \in from .. Len(data) /\ ~(m <= i)
    <3> SUFFICES ASSUME NEW i \in from .. m - 1
                 PROVE  i \in from .. Len(data) /\ ~(m <= i)
      OBVIOUS
    <3>1. m \in from .. Len(data)
      BY <2>2, <2>3
    <3> QED BY <1>0, <3>1
  <2>5. Blank(data, from) = m
    BY <1>1, <1>2, <1>4 DEF m
  <2> QED BY <2>2, <2>3, <2>4, <2>5
<1> QED BY <1>3, <1>4

BlankAt(data, from, b) ==
  /\ b \in from .. Len(data) /\ data[b] = " "
  /\ \A i \in from .. b - 1 : data[i] # " "

LEMMA FirstBlank ==
  ASSUME NEW data \in Seq(Char), NEW from \in Nat \ {0}, NEW b, BlankAt(data, from, b)
  PROVE  Blank(data, from) = b
<1> DEFINE c == Blank(data, from)
<1>1. Len(data) \in Nat /\ from \in Nat
  OBVIOUS
<1>2. BlankAt(data, from, c)
  <2>1. (\A i \in from .. Len(data) : data[i] # " ") \/ BlankAt(data, from, c)
    BY BlankIs DEF BlankAt
  <2> HIDE DEF c
  <2>2. ~(\A i \in from .. Len(data) : data[i] # " ")
    BY DEF BlankAt
  <2> QED BY <2>1, <2>2
<1> HIDE DEF c
<1>3. \A x, y : BlankAt(data, from, x) /\ BlankAt(data, from, y) => y \notin from .. x - 1
  BY Zenon DEF BlankAt
<1>4. \A x : BlankAt(data, from, x) => x \in from .. Len(data)
  BY Zenon DEF BlankAt
<1>5. b \in Int /\ c \in Int /\ b >= from /\ c >= from
  BY <1>1, <1>2, <1>4
<1>6. ~(b < c) /\ ~(c < b)
  <2>1. b \notin from .. c - 1 /\ c \notin from .. b - 1
    BY <1>2, <1>3, Zenon
  <2> QED BY <1>1, <1>5, <2>1
<1>7. b = c
  BY <1>5, <1>6
<1> QED BY <1>7 DEF c

\* The name and the argument of an exec, by the code's definitions.
Parts(data, first, second, name, arg) ==
  /\ first = Blank(data, 1) /\ second = Blank(data, first + 1)
  /\ name = Name(data, first, second)
  /\ arg = IF second = 0 THEN <<>> ELSE From(data, second + 1)

LEMMA PartsAre ==
  ASSUME NEW data \in Seq(Char), NEW first, NEW second, NEW name, NEW arg,
         Parts(data, first, second, name, arg), first # 0
  PROVE  /\ first \in 1 .. Len(data) /\ data # <<>>
         /\ name \in Seq(Char) /\ Len(name) < Len(data)
         /\ arg \in Seq(Char) /\ Len(arg) < Len(data)
<1>1. /\ first = Blank(data, 1) /\ second = Blank(data, first + 1)
      /\ name = IF second = 0 THEN SubSeq(data, first + 1, Len(data))
                ELSE SubSeq(data, first + 1, second - 1)
      /\ arg = IF second = 0 THEN <<>> ELSE SubSeq(data, second + 1, Len(data))
  BY Zenon DEF Parts, Name, From
<1>2. first \in 1 .. Len(data) /\ Len(data) \in Nat
  <2>1. 1 \in Nat \ {0}
    OBVIOUS
  <2>2. Blank(data, 1) = 0 \/ Blank(data, 1) \in 1 .. Len(data)
    BY <2>1, BlankIs
  <2> QED BY <1>1, <2>2
<1>3. second = 0 \/ second \in first + 1 .. Len(data)
  <2>1. first + 1 \in Nat \ {0}
    BY <1>2
  <2> QED BY <1>1, <2>1, BlankIs
<1>4. \A m, n \in Nat : m > 1 /\ n <= Len(data) =>
        /\ SubSeq(data, m, n) \in Seq(Char) /\ Len(SubSeq(data, m, n)) < Len(data)
  <2> SUFFICES ASSUME NEW m \in Nat, NEW n \in Nat, m > 1, n <= Len(data)
               PROVE  SubSeq(data, m, n) \in Seq(Char) /\ Len(SubSeq(data, m, n)) < Len(data)
    OBVIOUS
  <2>1. CASE m <= n
    BY <1>2, <2>1
  <2>2. CASE m > n
    <3>1. SubSeq(data, m, n) = <<>>
      BY <2>2, SubSeqEmpty
    <3> QED BY <1>2, <3>1
  <2> QED BY <2>1, <2>2
<1>5. name \in Seq(Char) /\ Len(name) < Len(data)
  <2>1. CASE second = 0
    BY <1>1, <1>2, <1>4, <2>1
  <2>2. CASE second # 0
    BY <1>1, <1>2, <1>3, <1>4, <2>2
  <2> QED BY <2>1, <2>2
<1>6. arg \in Seq(Char) /\ Len(arg) < Len(data)
  <2>1. CASE second = 0
    BY <1>1, <1>2, <2>1
  <2>2. CASE second # 0
    <3>1. second + 1 \in Nat /\ second + 1 > 1
      BY <1>2, <1>3, <2>2
    <3>2. arg = SubSeq(data, second + 1, Len(data))
      BY <1>1, <2>2, Zenon
    <3>3. Len(data) <= Len(data)
      BY <1>2
    <3> QED BY <1>2, <1>4, <3>1, <3>2, <3>3, Zenon
  <2> QED BY <2>1, <2>2
<1>7. data # <<>>
  BY <1>2
<1> QED BY <1>2, <1>5, <1>6, <1>7

\* s and its Nul lie in h from cell a on, as far as a buffer holds them.
Lies(h, a, s) ==
  /\ \A i \in 1 .. Len(s) : i <= STR => h[a + i - 1] = s[i]
  /\ Len(s) < STR => h[a + Len(s)] = Nul

LEMMA WrittenLies ==
  ASSUME NEW h \in Heaps, NEW a \in Nat, NEW s \in Seq(Char), a + STR < GLOBAL_HEAP_SIZE
  PROVE  Lies(Written(h, a, s), a, s)
<1> DEFINE w == Written(h, a, s)
<1>1. s \in Seq(Cell) /\ Len(s) \in Nat
  <2>1. Seq(Char) \subseteq Seq(Cell)
    BY SeqMonotonic DEF Cell
  <2> QED BY <2>1
<1>2. /\ \A b \in 0 .. GLOBAL_HEAP_SIZE - 1 : b = a + Len(s) => w[b] = Nul
      /\ \A i \in 1 .. Len(s) : a + i - 1 < GLOBAL_HEAP_SIZE => w[a + i - 1] = s[i]
  BY <1>1, WrittenIs
<1> HIDE DEF w
<1>3. \A i \in 1 .. Len(s) : i <= STR => a + i - 1 < GLOBAL_HEAP_SIZE
  BY <1>1, Sizes
<1>4. Len(s) < STR => a + Len(s) \in 0 .. GLOBAL_HEAP_SIZE - 1
  BY <1>1, Sizes
<1> QED BY <1>2, <1>3, <1>4 DEF Lies, w

LEMMA ExecLaidIs ==
  ASSUME HeapOK, NEW data \in Commands,
         NEW first, NEW second, NEW name, NEW arg, Parts(data, first, second, name, arg)
  PROVE  LET laid == ExecLaid(data) IN
         /\ laid.heap \in Heaps /\ NoFailureOutside(laid.heap)
         /\ Len(data) <= COMM_HEAP_SIZE - ARG_AT => Kept(laid.heap, global_heap)
         /\ first # 0 => /\ laid.wait = (Head(data) = "1")
                         /\ laid.arg_addr = IF arg = <<>> THEN 0 ELSE ARG_AT
                         /\ name # <<>> => Lies(laid.heap, 1, name)
                         /\ arg # <<>> => Lies(laid.heap, ARG_AT, arg)
<1> DEFINE named == IF name = <<>> THEN Laid(data) ELSE Written(Laid(data), 1, name)
           heap == IF arg = <<>> THEN named ELSE Written(named, ARG_AT, arg)
<1>1. ExecLaid(data) =
        IF first = 0
        THEN [heap |-> Comm_copyToHeap(Laid(data), data), wait |-> FALSE, arg_addr |-> 0]
        ELSE [heap |-> heap, wait |-> Head(data) = "1",
              arg_addr |-> IF arg = <<>> THEN 0 ELSE ARG_AT]
  BY Zenon DEF ExecLaid, Parts
<1>2. data \in Seq(Char) /\ Len(data) \in Nat
  BY Strings
<1>3. /\ Laid(data) \in Heaps /\ NoFailureOutside(Laid(data))
      /\ Len(data) <= COMM_HEAP_SIZE - ARG_AT => Kept(Laid(data), global_heap)
  BY LaidKeeps
<1>4. CASE first = 0
  <2> DEFINE h == Comm_copyToHeap(Laid(data), data)
  <2>1. LaidOver(h, Laid(data), data)
    BY <1>2, <1>3, CopyIs
  <2> HIDE DEF h
  <2>2. h \in Heaps /\ NoFailureOutside(h)
    BY <1>3, <2>1 DEF LaidOver
  <2>3. ASSUME Len(data) <= COMM_HEAP_SIZE - ARG_AT PROVE Kept(h, global_heap)
    <3>1. \A b \in COMM_HEAP_SIZE .. GLOBAL_HEAP_SIZE - 1 :
            b \in 0 .. GLOBAL_HEAP_SIZE - 1 /\ b > Len(data) + 1
      BY <1>2, <2>3, Sizes
    <3> QED BY <1>3, <2>1, <2>3, <3>1 DEF LaidOver, Kept
  <2>4. ExecLaid(data).heap = h
    BY <1>1, <1>4 DEF h
  <2> QED BY <1>4, <2>2, <2>3, <2>4
<1>5. CASE first # 0
  <2>1. /\ name \in Seq(Char) /\ Len(name) < Len(data) /\ Len(name) \in Nat
        /\ arg \in Seq(Char) /\ Len(arg) < Len(data) /\ Len(arg) \in Nat
    BY <1>2, <1>5, PartsAre
  <2>2. /\ named \in Heaps /\ NoFailureOutside(named)
        /\ Len(data) <= COMM_HEAP_SIZE - ARG_AT => Kept(named, global_heap)
        /\ name # <<>> => Lies(named, 1, name)
    <3>1. CASE name = <<>>
      BY <1>3, <3>1
    <3>2. CASE name # <<>>
      <4> DEFINE w == Written(Laid(data), 1, name)
      <4>1. /\ w \in Heaps /\ NoFailureOutside(w)
            /\ 1 + Len(name) < COMM_HEAP_SIZE => Kept(w, Laid(data))
        BY <1>3, <2>1, WrittenKeeps
      <4>2. Lies(w, 1, name)
        BY <1>3, <2>1, WrittenLies, Sizes
      <4> HIDE DEF w
      <4>3. Len(data) <= COMM_HEAP_SIZE - ARG_AT => Kept(w, global_heap)
        <5>1. Len(data) <= COMM_HEAP_SIZE - ARG_AT => 1 + Len(name) < COMM_HEAP_SIZE
          BY <1>2, <2>1, Sizes
        <5> QED BY <1>3, <4>1, <5>1 DEF Kept
      <4>4. named = w
        BY <3>2 DEF w
      <4> QED BY <4>1, <4>2, <4>3, <4>4
    <3> QED BY <3>1, <3>2
  <2> HIDE DEF named
  <2>3. /\ heap \in Heaps /\ NoFailureOutside(heap)
        /\ Len(data) <= COMM_HEAP_SIZE - ARG_AT => Kept(heap, global_heap)
        /\ name # <<>> => Lies(heap, 1, name)
        /\ arg # <<>> => Lies(heap, ARG_AT, arg)
    <3>1. CASE arg = <<>>
      BY <2>2, <3>1
    <3>2. CASE arg # <<>>
      <4> DEFINE w == Written(named, ARG_AT, arg)
      <4>1. /\ w \in Heaps /\ NoFailureOutside(w)
            /\ ARG_AT + Len(arg) < COMM_HEAP_SIZE => Kept(w, named)
        BY <2>1, <2>2, WrittenKeeps, Sizes
      <4>2. Lies(w, ARG_AT, arg)
        BY <2>1, <2>2, WrittenLies, Sizes
      <4>3. \A b \in 0 .. GLOBAL_HEAP_SIZE - 1 : b < ARG_AT => w[b] = named[b]
        <5>1. arg \in Seq(Cell)
          <6>1. Seq(Char) \subseteq Seq(Cell)
            BY SeqMonotonic DEF Cell
          <6> QED BY <2>1, <6>1
        <5> QED BY <2>2, <5>1, WrittenIs, Sizes
      <4> HIDE DEF w
      <4>4. Len(data) <= COMM_HEAP_SIZE - ARG_AT => Kept(w, global_heap)
        <5>1. Len(data) <= COMM_HEAP_SIZE - ARG_AT => ARG_AT + Len(arg) < COMM_HEAP_SIZE
          BY <1>2, <2>1, Sizes
        <5> QED BY <2>2, <4>1, <5>1 DEF Kept
      <4>5. name # <<>> => Lies(w, 1, name)
        <5>1. \A i \in 1 .. Len(name) : i <= STR =>
                1 + i - 1 \in 0 .. GLOBAL_HEAP_SIZE - 1 /\ 1 + i - 1 < ARG_AT
          BY <2>1, Sizes
        <5>2. Len(name) < STR =>
                1 + Len(name) \in 0 .. GLOBAL_HEAP_SIZE - 1 /\ 1 + Len(name) < ARG_AT
          BY <2>1, Sizes
        <5> QED BY <2>2, <4>3, <5>1, <5>2 DEF Lies
      <4>6. heap = w
        BY <3>2 DEF w
      <4> QED BY <4>1, <4>2, <4>4, <4>5, <4>6
    <3> QED BY <3>1, <3>2
  <2> HIDE DEF heap
  <2> QED BY <1>1, <1>5, <2>3
<1> QED BY <1>4, <1>5

\* A payload "0" or "1", blank, a name of n characters and nothing or a blank
\* behind it.
WellSent(data, n) ==
  /\ data[1] \in {"0", "1"} /\ data[2] = " "
  /\ \A i \in 1 .. n : SubSeq(data, 3, n + 2)[i] # " "
  /\ From(data, n + 3) = <<>> \/ Head(From(data, n + 3)) = " "

LEMMA PartsAsSent ==
  ASSUME NEW data \in Seq(Char), NEW n \in 1 .. Len(data) - 2, WellSent(data, n),
         NEW first, NEW second, NEW name, NEW arg, Parts(data, first, second, name, arg)
  PROVE  first # 0 /\ name = SubSeq(data, 3, n + 2) /\ arg = From(From(data, n + 3), 2)
<1>1. /\ first = Blank(data, 1) /\ second = Blank(data, first + 1)
      /\ name = IF second = 0 THEN SubSeq(data, first + 1, Len(data))
                ELSE SubSeq(data, first + 1, second - 1)
      /\ arg = IF second = 0 THEN <<>> ELSE SubSeq(data, second + 1, Len(data))
  BY Zenon DEF Parts, Name, From
<1>2. Len(data) \in Nat /\ n \in Nat /\ n > 0 /\ n + 2 <= Len(data)
  OBVIOUS
<1> DEFINE rest == SubSeq(data, n + 3, Len(data))
<1>0. From(data, n + 3) = rest
  BY Zenon DEF From
<1>3. /\ data[1] # " " /\ data[2] = " " /\ \A i \in 3 .. n + 2 : data[i] # " "
      /\ rest = <<>> \/ rest[1] = " "
  <2>1. data[1] # " " /\ data[2] = " "
    BY DEF WellSent
  <2>2. ASSUME NEW i \in 3 .. n + 2 PROVE data[i] # " "
    <3>1. i - 2 \in 1 .. n /\ SubSeq(data, 3, n + 2)[i - 2] = data[i]
      BY <1>2
    <3> QED BY <3>1 DEF WellSent
  <2>3. rest = <<>> \/ rest[1] = " "
    <3>1. From(data, n + 3) = <<>> \/ Head(From(data, n + 3)) = " "
      BY DEF WellSent
    <3>2. rest \in Seq(Char)
      BY <1>2
    <3> HIDE DEF rest
    <3>3. rest = <<>> \/ Head(rest) = " "
      BY <1>0, <3>1
    <3>4. rest # <<>> => Head(rest) = rest[1]
      BY <3>2, HeadTailProperties
    <3> QED BY <3>3, <3>4
  <2> QED BY <2>1, <2>2, <2>3
<1>4. first = 2
  <2>1. 1 \in Nat \ {0} /\ 2 \in 1 .. Len(data) /\ \A i \in 1 .. 2 - 1 : i = 1
    BY <1>2
  <2>2. BlankAt(data, 1, 2)
    BY <1>3, <2>1 DEF BlankAt
  <2>3. Blank(data, 1) = 2
    BY <2>1, <2>2, FirstBlank
  <2> QED BY <1>1, <2>3
<1> DEFINE c == Blank(data, 3)
<1>5. second = c
  BY <1>1, <1>4
<1>6. \/ c = 0 /\ \A i \in 3 .. Len(data) : data[i] # " "
      \/ c \in 3 .. Len(data) /\ data[c] = " " /\ \A i \in 3 .. c - 1 : data[i] # " "
  <2>1. 3 \in Nat \ {0}
    OBVIOUS
  <2> QED BY <2>1, BlankIs
<1> HIDE DEF c
<1>7. CASE n + 2 = Len(data)
  <2>1. c = 0
    BY <1>2, <1>3, <1>6, <1>7
  <2>2. rest = <<>>
    BY <1>2, <1>7, SubSeqEmpty
  <2>3. SubSeq(<<>>, 2, Len(<<>>)) = <<>>
    BY SubSeqEmpty
  <2>4. From(From(data, n + 3), 2) = <<>>
    BY <2>2, <2>3, Zenon DEF From
  <2> QED BY <1>1, <1>4, <1>5, <1>7, <2>1, <2>4
<1>8. CASE n + 2 < Len(data)
  <2>1. /\ rest \in Seq(Char) /\ Len(rest) = Len(data) - n - 2
        /\ \A i \in 1 .. Len(rest) : rest[i] = data[n + 2 + i]
    BY <1>2, <1>8
  <2> HIDE DEF rest
  <2>2. data[n + 3] = " "
    <3>1. Len(rest) > 0
      BY <1>2, <1>8, <2>1
    <3>2. rest # <<>> /\ rest[1] = data[n + 2 + 1]
      BY <2>1, <3>1
    <3>3. n + 2 + 1 = n + 3
      BY <1>2
    <3> QED BY <1>3, <3>2, <3>3
  <2>3. c = n + 3
    <3>1. 3 \in Nat \ {0} /\ n + 3 \in 3 .. Len(data)
      BY <1>2, <1>8
    <3>2. Blank(data, 3) = n + 3
      <4>1. BlankAt(data, 3, n + 3)
        <5>1. \A i \in 3 .. (n + 3) - 1 : i \in 3 .. n + 2
          BY <1>2
        <5>2. \A i \in 3 .. (n + 3) - 1 : data[i] # " "
          BY <1>3, <5>1
        <5> QED BY <2>2, <3>1, <5>2, Zenon DEF BlankAt
      <4> QED BY <3>1, <4>1, FirstBlank
    <3> QED BY <3>2 DEF c
  <2>4. name = SubSeq(data, 3, n + 2)
    BY <1>1, <1>2, <1>4, <1>5, <2>3
  <2>5. arg = SubSeq(data, n + 4, Len(data))
    BY <1>1, <1>2, <1>5, <2>3
  <2>6. SubSeq(rest, 2, Len(rest)) = SubSeq(data, n + 4, Len(data))
    <3> DEFINE s == SubSeq(rest, 2, Len(rest))
               t == SubSeq(data, n + 4, Len(data))
    <3>1. /\ s \in Seq(Char) /\ Len(s) = Len(rest) - 1
          /\ \A i \in 1 .. Len(s) : s[i] = rest[i + 1]
      BY <1>2, <1>8, <2>1
    <3>2. /\ t \in Seq(Char) /\ Len(t) = Len(data) - n - 3
          /\ \A i \in 1 .. Len(t) : t[i] = data[n + 3 + i]
      BY <1>2, <1>8
    <3> HIDE DEF s, t
    <3>3. Len(s) = Len(t) /\ \A i \in 1 .. Len(s) : s[i] = t[i]
      BY <1>2, <1>8, <2>1, <3>1, <3>2
    <3>4. s = t
      BY <3>1, <3>2, <3>3, SeqEqual
    <3> QED BY <3>4 DEF s, t
  <2>7. From(From(data, n + 3), 2) = SubSeq(rest, 2, Len(rest))
    <3>1. From(rest, 2) = SubSeq(rest, 2, Len(rest))
      BY Zenon DEF From
    <3>2. From(From(data, n + 3), 2) = From(rest, 2)
      BY <1>0
    <3> QED BY <3>1, <3>2
  <2>8. first # 0
    BY <1>4
  <2> QED BY <2>4, <2>5, <2>6, <2>7, <2>8, Zenon
<1> QED BY <1>2, <1>7, <1>8

LEMMA ExecReads ==
  ASSUME HeapOK, NEW data \in Commands, NEW n \in 1 .. Len(data) - 2, WellSent(data, n)
  PROVE  LET laid == ExecLaid(data) IN
         /\ laid.wait = (data[1] = "1")
         /\ StringAt(laid.heap, 1, {Nul, " "}) = Upto(SubSeq(data, 3, n + 2), STR)
         /\ (IF laid.arg_addr = 0 THEN <<>> ELSE StringAt(laid.heap, laid.arg_addr, {Nul}))
            = Upto(From(From(data, n + 3), 2), STR)
<1> DEFINE laid == ExecLaid(data)
           first == Blank(data, 1)
           second == Blank(data, first + 1)
           name == SubSeq(data, 3, n + 2)
           arg == From(From(data, n + 3), 2)
<1>1. data \in Seq(Char) /\ Len(data) \in Nat /\ n \in Nat /\ n > 0 /\ n + 2 <= Len(data)
  <2>1. data \in Seq(Char)
    BY Strings
  <2> QED BY <2>1
<1>2. PICK name0, arg0 : Parts(data, first, second, name0, arg0)
  BY Zenon DEF Parts
<1>3. first # 0 /\ name0 = name /\ arg0 = arg
  BY <1>1, <1>2, PartsAsSent
<1>4. Parts(data, first, second, name, arg)
  BY <1>2, <1>3
<1>5. /\ name \in Seq(Char) /\ Len(name) = n /\ arg \in Seq(Char) /\ name # <<>>
      /\ \A i \in 1 .. n : name[i] # " "
  <2>1. name \in Seq(Char) /\ Len(name) = n
    BY <1>1
  <2>2. arg \in Seq(Char)
    <3> HIDE DEF name, arg, first, second
    <3> QED BY <1>1, <1>3, <1>4, PartsAre
  <2>3. \A i \in 1 .. n : name[i] # " "
    BY DEF WellSent
  <2> HIDE DEF name
  <2>4. name # <<>>
    BY <1>1, <2>1
  <2> QED BY <2>1, <2>2, <2>3, <2>4, Zenon
<1> HIDE DEF first, second, name, arg, laid
<1>6. /\ laid.heap \in Heaps /\ laid.wait = (Head(data) = "1")
      /\ laid.arg_addr = IF arg = <<>> THEN 0 ELSE ARG_AT
      /\ Lies(laid.heap, 1, name)
      /\ arg # <<>> => Lies(laid.heap, ARG_AT, arg)
  <2>1. /\ laid.heap \in Heaps /\ NoFailureOutside(laid.heap)
        /\ Len(data) <= COMM_HEAP_SIZE - ARG_AT => Kept(laid.heap, global_heap)
        /\ first # 0 => /\ laid.wait = (Head(data) = "1")
                        /\ laid.arg_addr = IF arg = <<>> THEN 0 ELSE ARG_AT
                        /\ name # <<>> => Lies(laid.heap, 1, name)
                        /\ arg # <<>> => Lies(laid.heap, ARG_AT, arg)
    BY <1>4, ExecLaidIs, Zenon DEF laid
  <2> QED BY <1>3, <1>5, <2>1, Zenon
<1>11. laid.heap \in Heaps /\ name \in Seq(Char) /\ arg \in Seq(Char)
  BY <1>5, <1>6, Zenon
<1>7. laid.wait = (data[1] = "1")
  <2>1. Head(data) = data[1]
    BY <1>1
  <2> QED BY <1>6, <2>1
<1>8. \A s \in Seq(Char) : \A i \in 1 .. Len(s) : s[i] # Nul
  <2> SUFFICES ASSUME NEW s \in Seq(Char), NEW i \in 1 .. Len(s) PROVE s[i] # Nul
    OBVIOUS
  <2>1. s[i] \in Char
    OBVIOUS
  <2> QED BY <2>1, Characters
<1>9. StringAt(laid.heap, 1, {Nul, " "}) = Upto(name, STR)
  <2> DEFINE ends == {Nul, " "}
  <2>1. \A i \in 1 .. Len(name) :
          i <= STR => laid.heap[1 + i - 1] = name[i] /\ name[i] \notin ends
    <3>1. \A i \in 1 .. Len(name) : i <= STR => laid.heap[1 + i - 1] = name[i]
      BY <1>6, Zenon DEF Lies
    <3>2. \A i \in 1 .. Len(name) : name[i] # " "
      BY <1>5, Zenon
    <3> QED BY <1>8, <1>11, <3>1, <3>2, Zenon
  <2>2. Len(name) < STR => laid.heap[1 + Len(name)] \in ends
    BY <1>6, Zenon DEF Lies
  <2> HIDE DEF ends
  <2>3. 1 \in Nat /\ 1 + STR < GLOBAL_HEAP_SIZE
    BY Sizes
  <2>4. StringAt(laid.heap, 1, ends) = Upto(name, STR)
    BY <1>11, <2>1, <2>2, <2>3, StringAtReads
  <2> QED BY <2>4 DEF ends
<1>10. (IF laid.arg_addr = 0 THEN <<>> ELSE StringAt(laid.heap, laid.arg_addr, {Nul}))
       = Upto(arg, STR)
  <2>1. CASE arg = <<>>
    <3>1. Upto(<<>>, STR) = <<>>
      BY Sizes DEF Upto
    <3> QED BY <1>6, <2>1, <3>1
  <2>2. CASE arg # <<>>
    <3>1. \A i \in 1 .. Len(arg) :
            i <= STR => laid.heap[ARG_AT + i - 1] = arg[i] /\ arg[i] \notin {Nul}
      BY <1>5, <1>6, <1>8, <2>2 DEF Lies
    <3>2. Len(arg) < STR => laid.heap[ARG_AT + Len(arg)] \in {Nul}
      BY <1>6, <2>2 DEF Lies
    <3>3. StringAt(laid.heap, ARG_AT, {Nul}) = Upto(arg, STR)
      <4>1. ARG_AT \in Nat /\ ARG_AT + STR < GLOBAL_HEAP_SIZE /\ arg \in Seq(Char)
            /\ laid.heap \in Heaps
        BY <1>11, Sizes
      <4> DEFINE ends == {Nul}
      <4>2. \A i \in 1 .. Len(arg) :
              i <= STR => laid.heap[ARG_AT + i - 1] = arg[i] /\ arg[i] \notin ends
        BY <3>1, Zenon
      <4>3. Len(arg) < STR => laid.heap[ARG_AT + Len(arg)] \in ends
        BY <3>2, Zenon
      <4> HIDE DEF ends
      <4>4. StringAt(laid.heap, ARG_AT, ends) = Upto(arg, STR)
        BY <4>1, <4>2, <4>3, StringAtReads
      <4> QED BY <4>4, Zenon DEF ends
    <3>4. laid.arg_addr = ARG_AT /\ ARG_AT # 0
      BY <1>6, <2>2, Sizes
    <3> QED BY <3>3, <3>4
  <2> QED BY <2>1, <2>2
<1> QED BY <1>7, <1>9, <1>10 DEF laid, name, arg

\* ExecAsSent of one command.
AsSent(l) ==
  l.kind = "exec" =>
    \A n \in 1 .. Len(l.payload) - 2 :
      WellSent(l.payload, n) =>
        /\ l.wait = (l.payload[1] = "1")
        /\ l.name = Upto(SubSeq(l.payload, 3, n + 2), STR)
        /\ l.arg = Upto(From(From(l.payload, n + 3), 2), STR)

LEMMA ExecKeeps ==
  ASSUME HeapOK, CwdOK, NEW data \in Commands, Comm_exec(data)
  PROVE  /\ HeapOK' /\ CwdOK' /\ UNCHANGED <<cwd, dir, odd>>
         /\ last'.kind = "exec" /\ last'.payload = data /\ AsSent(last')
         /\ Len(data) <= COMM_HEAP_SIZE - ARG_AT => Kept(global_heap', global_heap)
<1> DEFINE laid == ExecLaid(data)
<1>1. /\ global_heap' = laid.heap
      /\ behind' = IF laid.arg_addr = 0 THEN <<>> ELSE <<"@">>
      /\ last' = [kind |-> "exec", payload |-> data, wait |-> laid.wait,
                  name |-> StringAt(laid.heap, 1, {Nul, " "}),
                  arg |-> IF laid.arg_addr = 0 THEN <<>>
                          ELSE StringAt(laid.heap, laid.arg_addr, {Nul})]
      /\ UNCHANGED <<cwd, dir, odd>>
  BY Zenon DEF Comm_exec
<1>2. PICK first, second, name, arg : Parts(data, first, second, name, arg)
  BY Zenon DEF Parts
<1>3. /\ laid.heap \in Heaps /\ NoFailureOutside(laid.heap)
      /\ Len(data) <= COMM_HEAP_SIZE - ARG_AT => Kept(laid.heap, global_heap)
  BY <1>2, ExecLaidIs, Zenon
<1>4. AsSent(last')
  <2> SUFFICES ASSUME NEW n \in 1 .. Len(data) - 2, WellSent(data, n)
               PROVE  /\ laid.wait = (data[1] = "1")
                      /\ StringAt(laid.heap, 1, {Nul, " "}) = Upto(SubSeq(data, 3, n + 2), STR)
                      /\ (IF laid.arg_addr = 0 THEN <<>>
                          ELSE StringAt(laid.heap, laid.arg_addr, {Nul}))
                         = Upto(From(From(data, n + 3), 2), STR)
    <3> HIDE DEF laid
    <3> QED BY <1>1 DEF AsSent
  <2> QED BY ExecReads, Zenon
<1> HIDE DEF laid
<1>5. HeapOK' /\ CwdOK'
  BY <1>1, <1>3 DEF HeapOK, CwdOK, Absolute, NoFailureOutside
<1> QED BY <1>1, <1>3, <1>4, <1>5

\* The path cd reads and where it leads.
CdPath(data) == StringAt(Laid(data), 1, {Nul})
CdTarget(data) == Target(Text(<<"@">>), CdPath(data))

LEMMA CdPathIs ==
  ASSUME HeapOK, NEW data \in Paths
  PROVE  CdPath(data) \in Seq(Cell) /\ (Len(data) <= STR => CdPath(data) = data)
<1> DEFINE h == Laid(data)
<1>1. data \in Seq(Char) /\ Len(data) \in Nat
  BY Strings
<1>2. LaidOver(h, global_heap, data)
  BY <1>1, LaidIs DEF HeapOK
<1> HIDE DEF h
<1>3. h \in Heaps
  BY <1>2 DEF LaidOver
<1>4. StringAt(h, 1, {Nul}) \in Seq(Cell)
  <2>1. PICK n \in 0 .. STR :
          /\ StringAt(h, 1, {Nul}) = [k \in 1 .. n |-> h[1 + k - 1]]
          /\ n = STR \/ 1 + n \notin DOMAIN h \/ h[1 + n] \in {Nul}
          /\ \A j \in 0 .. n - 1 : h[1 + j] \notin {Nul}
    <3>1. 1 \in Nat
      OBVIOUS
    <3> QED BY <1>3, <3>1, StringAtIs, Zenon
  <2>2. \A k \in 1 .. n : h[1 + k - 1] \in Cell
    <3>1. \A k \in 1 .. n : 1 + k - 1 \in 0 .. GLOBAL_HEAP_SIZE - 1
      BY Sizes
    <3> QED BY <1>3, <3>1 DEF Heaps
  <2>3. n \in Nat
    BY Sizes
  <2>4. [k \in 1 .. n |-> h[1 + k - 1]] \in Seq(Cell)
    BY <2>2, <2>3, IsASeq
  <2> QED BY <2>1, <2>4
<1>5. ASSUME Len(data) <= STR PROVE StringAt(h, 1, {Nul}) = data
  <2>1. /\ \A i \in 1 .. Len(data) : h[i] = data[i]
        /\ h[Len(data) + 1] = Nul
    <3>1. Len(data) <= COMM_HEAP_SIZE - 2
      BY <1>1, <1>5, Sizes
    <3> QED BY <1>2, <3>1 DEF LaidOver
  <2>2. \A i \in 1 .. Len(data) : i <= STR => h[1 + i - 1] = data[i] /\ data[i] \notin {Nul}
    <3> SUFFICES ASSUME NEW i \in 1 .. Len(data)
                 PROVE  h[1 + i - 1] = data[i] /\ data[i] \notin {Nul}
      OBVIOUS
    <3>1. 1 + i - 1 = i /\ data[i] \in Char
      BY <1>1
    <3> QED BY <2>1, <3>1, Characters
  <2>3. Len(data) < STR => h[1 + Len(data)] \in {Nul}
    BY <1>1, <2>1
  <2>4. 1 \in Nat /\ 1 + STR < GLOBAL_HEAP_SIZE
    BY Sizes
  <2>5. StringAt(h, 1, {Nul}) = Upto(data, STR)
    BY <1>1, <1>3, <2>2, <2>3, <2>4, StringAtReads
  <2> QED BY <1>1, <1>5, <2>5, UptoIs, Sizes
<1> QED BY <1>4, <1>5 DEF CdPath, h

LEMMA TextIs ==
  ASSUME CwdOK, NEW b \in {<<>>, <<"@">>}
  PROVE  Absolute(Text(b)) /\ (Len(cwd) <= STR => Text(b) = cwd)
<1>1. b \in Seq(Cell)
  <2>1. "@" \in Cell
    BY DEF Cell
  <2>2. <<>> \in Seq(Cell) /\ <<"@">> \in Seq(Cell)
    BY <2>1
  <2> QED BY <2>2
<1>2. cwd \in Seq(Cell) /\ cwd # <<>> /\ cwd[1] = "/"
  BY DEF CwdOK, Absolute
<1>3. cwd \o b \in Seq(Cell) /\ cwd \o b # <<>> /\ (cwd \o b)[1] = "/"
  BY <1>1, <1>2
<1>4. Len(cwd) <= STR => ~(Len(cwd) > STR)
  BY <1>2, Sizes
<1> QED BY <1>2, <1>3, <1>4 DEF Text, Absolute

LEMMA CdTargetIs ==
  ASSUME HeapOK, CwdOK, NEW data \in Paths
  PROVE  Absolute(CdTarget(data))
<1>1. Absolute(Text(<<"@">>))
  BY TextIs
<1> QED BY <1>1, CdPathIs, TargetIsAbsolute DEF CdTarget

\* The two outcomes of cd.
CdGoes(data) ==
  LET target == CdTarget(data)
      absolute == data # <<>> /\ Head(data) = "/"
      plain == /\ Len(data) <= STR /\ Len(Stored(target)) <= STR /\ Len(target) <= STR
               /\ \A i \in 1 .. Len(data) - 1 : data[i] # "/" \/ data[i + 1] # "/"
  IN /\ IsDirectory(target)
     /\ cwd' = Stored(target)
     /\ behind' = IF Len(cwd') > STR THEN <<>> ELSE <<"@">>
     /\ global_heap' = Written(Laid(data), ARG_AT, Stored(target))
     /\ dir' = CASE data = <<".", ".">> -> IF dir = <<>> THEN dir ELSE Front(dir)
                 [] data = <<".">> -> dir
                 [] absolute -> Names(data)
                 [] OTHER -> dir \o Names(data)
     /\ odd' = (~plain \/ (~absolute /\ odd))
     /\ last' = [kind |-> "cd", payload |-> data, failed |-> FALSE,
                 error |-> global_heap'[ARG_AT] = Failed]

CdFails(data) ==
  /\ behind' = <<"@">>
  /\ global_heap' = [Laid(data) EXCEPT ![ARG_AT] = Failed]
  /\ last' = [kind |-> "cd", payload |-> data, failed |-> TRUE,
              error |-> global_heap'[ARG_AT] = Failed]
  /\ UNCHANGED <<cwd, dir, odd>>

LEMMA CdOutcomes ==
  ASSUME NEW data \in Paths, Comm_chdir(data)
  PROVE  CdGoes(data) \/ CdFails(data)
BY Zenon DEF Comm_chdir, CdGoes, CdFails, CdTarget, CdPath

LEMMA CdKeeps ==
  ASSUME HeapOK, CwdOK, NEW data \in Paths, CdGoes(data) \/ CdFails(data)
  PROVE  /\ HeapOK' /\ CwdOK'
         /\ last'.kind = "cd" /\ last'.payload = data /\ last'.error = last'.failed
         /\ Len(data) <= COMM_HEAP_SIZE - ARG_AT => Kept(global_heap', global_heap)
<1> DEFINE h == Laid(data)
           s == Stored(CdTarget(data))
<1>1. /\ h \in Heaps /\ NoFailureOutside(h)
      /\ Len(data) <= COMM_HEAP_SIZE - ARG_AT => Kept(h, global_heap)
  BY LaidKeeps
<1>2. Absolute(s) /\ Len(s) <= STR + 1
  BY CdTargetIs, StoredIsAbsolute
<1>3. CASE CdGoes(data)
  <2>1. /\ cwd' = s /\ behind' = IF Len(cwd') > STR THEN <<>> ELSE <<"@">>
        /\ global_heap' = Written(h, ARG_AT, s)
        /\ last' = [kind |-> "cd", payload |-> data, failed |-> FALSE,
                    error |-> global_heap'[ARG_AT] = Failed]
    BY <1>3, Zenon DEF CdGoes
  <2> HIDE DEF s, h
  <2>2. s \in Seq(Cell) /\ Len(s) \in 1 .. STR + 1 /\ s[1] = "/"
    BY <1>2, Sizes DEF Absolute
  <2> DEFINE w == Written(h, ARG_AT, s)
  <2>3. /\ w \in Heaps
        /\ \A b \in 0 .. GLOBAL_HEAP_SIZE - 1 :
             /\ b < ARG_AT \/ b > ARG_AT + Len(s) => w[b] = h[b]
             /\ b = ARG_AT + Len(s) => w[b] = Nul
        /\ \A i \in 1 .. Len(s) :
             ARG_AT + i - 1 < GLOBAL_HEAP_SIZE => w[ARG_AT + i - 1] = s[i]
    BY <1>1, <2>2, WrittenIs, Sizes
  <2> HIDE DEF w
  <2>4. Kept(w, h)
    <3>1. \A b \in COMM_HEAP_SIZE .. GLOBAL_HEAP_SIZE - 1 :
            b \in 0 .. GLOBAL_HEAP_SIZE - 1 /\ b > ARG_AT + Len(s)
      BY <2>2, Sizes
    <3> QED BY <2>3, <3>1 DEF Kept
  <2>5. w[ARG_AT] # Failed
    <3>1. 1 \in 1 .. Len(s) /\ ARG_AT + 1 - 1 < GLOBAL_HEAP_SIZE /\ ARG_AT + 1 - 1 = ARG_AT
      BY <2>2, Sizes
    <3>2. w[ARG_AT] = "/"
      BY <2>2, <2>3, <3>1
    <3> QED BY <3>2 DEF Failed
  <2>6. HeapOK' /\ CwdOK'
    <3>1. HeapOK'
      BY <1>1, <2>1, <2>3, <2>4 DEF HeapOK, NoFailureOutside, Kept, w
    <3>2. CwdOK'
      BY <1>2, <2>1 DEF CwdOK, Absolute
    <3> QED BY <3>1, <3>2
  <2>7. Len(data) <= COMM_HEAP_SIZE - ARG_AT => Kept(global_heap', global_heap)
    BY <1>1, <2>1, <2>4 DEF Kept, w
  <2>8. last'.kind = "cd" /\ last'.payload = data /\ last'.error = last'.failed
    BY <2>1, <2>5 DEF w
  <2> QED BY <2>6, <2>7, <2>8
<1>4. CASE CdFails(data)
  <2> HIDE DEF h
  <2>1. /\ behind' = <<"@">> /\ global_heap' = [h EXCEPT ![ARG_AT] = Failed]
        /\ last' = [kind |-> "cd", payload |-> data, failed |-> TRUE,
                    error |-> global_heap'[ARG_AT] = Failed]
        /\ cwd' = cwd
    BY <1>4 DEF CdFails, h
  <2>2. ARG_AT \in 0 .. GLOBAL_HEAP_SIZE - 1 /\ Failed \in Cell
    BY Sizes DEF Cell
  <2>3. /\ global_heap' \in Heaps /\ global_heap'[ARG_AT] = Failed
        /\ \A b \in 0 .. GLOBAL_HEAP_SIZE - 1 : b # ARG_AT => global_heap'[b] = h[b]
    BY <1>1, <2>1, <2>2 DEF Heaps
  <2>4. Kept(global_heap', h)
    <3>1. \A b \in COMM_HEAP_SIZE .. GLOBAL_HEAP_SIZE - 1 :
            b \in 0 .. GLOBAL_HEAP_SIZE - 1 /\ b # ARG_AT
      BY Sizes
    <3> QED BY <2>3, <3>1 DEF Kept
  <2>5. HeapOK'
    BY <1>1, <2>3, <2>4 DEF HeapOK, NoFailureOutside, Kept
  <2>6. CwdOK'
    BY <2>1 DEF CwdOK, Absolute
  <2>7. Len(data) <= COMM_HEAP_SIZE - ARG_AT => Kept(global_heap', global_heap)
    BY <1>1, <2>4 DEF Kept
  <2>8. last'.kind = "cd" /\ last'.payload = data /\ last'.error = last'.failed
    BY <2>1, <2>3
  <2> QED BY <2>5, <2>6, <2>7, <2>8
<1> QED BY <1>3, <1>4

-----------------------------------------------------------------------------
(* The names in a path.                                                      *)

NothingRead == [names |-> <<>>, name |-> <<>>]
ReadStates == [names : Seq(Seq(Cell)), name : Seq(Cell)]

LEMMA TakeIs ==
  ASSUME NEW p \in ReadStates, NEW c \in Cell
  PROVE  /\ Take(p, c) \in ReadStates
         /\ c # "/" => Take(p, c) = [names |-> p.names, name |-> Append(p.name, c)]
         /\ c = "/" => /\ Take(p, c).name = <<>>
                       /\ Take(p, c).names =
                            IF p.name = <<>> THEN p.names ELSE Append(p.names, p.name)
                       /\ Take(Take(p, c), c) = Take(p, c)
<1>1. p.names \in Seq(Seq(Cell)) /\ p.name \in Seq(Cell)
      /\ p = [names |-> p.names, name |-> p.name]
  BY DEF ReadStates
<1>2. CASE c # "/"
  <2>1. Take(p, c) = [names |-> p.names, name |-> Append(p.name, c)]
    BY <1>1, <1>2 DEF Take, ReadStates
  <2> QED BY <1>1, <1>2, <2>1 DEF ReadStates
<1>3. CASE c = "/"
  <2>1. Take(p, c) = IF p.name = <<>> THEN p
                     ELSE [names |-> Append(p.names, p.name), name |-> <<>>]
    BY <1>3, Zenon DEF Take
  <2>2. CASE p.name = <<>>
    BY <1>1, <1>3, <2>1, <2>2
  <2>3. CASE p.name # <<>>
    <3>1. Take(p, c) = [names |-> Append(p.names, p.name), name |-> <<>>]
      BY <2>1, <2>3
    <3>2. Take(p, c) \in ReadStates /\ Take(p, c).name = <<>>
      BY <1>1, <3>1 DEF ReadStates
    <3>3. Take(Take(p, c), c) = Take(p, c)
      BY <1>3, <3>2 DEF Take
    <3> QED BY <1>3, <2>3, <3>1, <3>2, <3>3
  <2> QED BY <2>2, <2>3
<1> QED BY <1>2, <1>3

\* Some function is what reading s does, step by step.
Steps(r, s, n) ==
  /\ r \in [0 .. n -> ReadStates] /\ r[0] = NothingRead
  /\ \A i \in 1 .. n : r[i] = Take(r[i - 1], s[i])

LEMMA StepsExist ==
  ASSUME NEW s \in Seq(Cell)
  PROVE  \E r : Steps(r, s, Len(s))
<1> DEFINE S == {n \in Nat : n <= Len(s) => \E r : Steps(r, s, n)}
<1>1. 0 \in S
  <2> DEFINE r == [i \in 0 .. 0 |-> NothingRead]
  <2>1. NothingRead \in ReadStates
    BY DEF NothingRead, ReadStates
  <2>2. Steps(r, s, 0)
    BY <2>1 DEF Steps
  <2> QED BY <2>2
<1>2. ASSUME NEW n \in S PROVE n + 1 \in S
  <2> SUFFICES ASSUME n + 1 <= Len(s) PROVE \E r : Steps(r, s, n + 1)
    OBVIOUS
  <2>1. n \in Nat /\ n <= Len(s)
    OBVIOUS
  <2>2. PICK q : Steps(q, s, n)
    BY <2>1
  <2> HIDE DEF S
  <2> DEFINE x == Take(q[n], s[n + 1])
             r == [i \in 0 .. n + 1 |-> IF i = n + 1 THEN x ELSE q[i]]
  <2>3. q \in [0 .. n -> ReadStates] /\ q[0] = NothingRead
        /\ \A i \in 1 .. n : q[i] = Take(q[i - 1], s[i])
    BY <2>2 DEF Steps
  <2>4. x \in ReadStates
    <3>1. q[n] \in ReadStates /\ s[n + 1] \in Cell
      BY <2>1, <2>3
    <3> QED BY <3>1, TakeIs
  <2>5. r \in [0 .. n + 1 -> ReadStates] /\ r[0] = NothingRead
    <3> HIDE DEF x
    <3> QED BY <2>1, <2>3, <2>4
  <2>6. ASSUME NEW i \in 1 .. n + 1 PROVE r[i] = Take(r[i - 1], s[i])
    <3>1. r[i - 1] = q[i - 1]
      BY <2>1
    <3>2. CASE i = n + 1
      <4>1. r[i] = x
        BY <2>1, <3>2
      <4> QED BY <2>1, <3>1, <3>2, <4>1
    <3>3. CASE i # n + 1
      <4>1. r[i] = q[i] /\ i \in 1 .. n
        BY <2>1, <3>3
      <4> QED BY <2>3, <3>1, <4>1
    <3> QED BY <3>2, <3>3
  <2> HIDE DEF r
  <2>7. Steps(r, s, n + 1)
    BY <2>5, <2>6 DEF Steps
  <2> QED BY <2>7
<1>3. S \in SUBSET Nat
  OBVIOUS
<1> HIDE DEF S
<1>4. S = Nat
  BY <1>1, <1>2, <1>3, Induction
<1>5. Len(s) \in S
  BY <1>4
<1> QED BY <1>5 DEF S

LEMMA ReadIs ==
  ASSUME NEW s \in Seq(Cell)
  PROVE  Steps(Read(s), s, Len(s))
<1> DEFINE F(r) == [i \in 0 .. Len(s) |-> IF i = 0 THEN NothingRead ELSE Take(r[i - 1], s[i])]
<1>1. Read(s) = CHOOSE r : r = F(r)
  BY Zenon DEF Read, NothingRead
<1>2. Len(s) \in Nat
  OBVIOUS
<1>3. PICK q : Steps(q, s, Len(s))
  BY StepsExist
<1>4. q = F(q)
  BY <1>2, <1>3 DEF Steps
<1> HIDE DEF F
<1>5. Read(s) = F(Read(s))
  BY <1>1, <1>4, Zenon
<1> DEFINE r == Read(s)
<1>6. /\ r[0] = NothingRead
      /\ \A i \in 0 .. Len(s) : i > 0 => r[i] = Take(r[i - 1], s[i])
      /\ DOMAIN r = 0 .. Len(s) /\ r = [i \in 0 .. Len(s) |-> r[i]]
  <2> HIDE DEF r
  <2>1. r = [i \in 0 .. Len(s) |-> IF i = 0 THEN NothingRead ELSE Take(r[i - 1], s[i])]
    BY <1>5 DEF F, r
  <2> QED BY <1>2, <2>1
<1> HIDE DEF r
<1>7. \A i \in 0 .. Len(s) : r[i] \in ReadStates
  <2> DEFINE S == {n \in Nat : n <= Len(s) => r[n] \in ReadStates}
  <2>1. 0 \in S
    BY <1>6 DEF NothingRead, ReadStates
  <2>2. ASSUME NEW n \in S PROVE n + 1 \in S
    <3> SUFFICES ASSUME n + 1 <= Len(s) PROVE r[n + 1] \in ReadStates
      OBVIOUS
    <3>1. n \in Nat /\ r[n] \in ReadStates
      BY <1>2
    <3>2. r[n + 1] = Take(r[n], s[n + 1]) /\ s[n + 1] \in Cell
      BY <1>2, <1>6, <3>1
    <3> QED BY <3>1, <3>2, TakeIs
  <2>3. S \in SUBSET Nat
    OBVIOUS
  <2> HIDE DEF S
  <2>4. S = Nat
    BY <2>1, <2>2, <2>3, Induction
  <2> QED BY <1>2, <2>4 DEF S
<1> QED BY <1>2, <1>6, <1>7 DEF Steps, r

\* What has been read in the end.
All(s) == Read(s)[Len(s)]

LEMMA AllIs ==
  ASSUME NEW s \in Seq(Cell)
  PROVE  All(s) \in ReadStates /\ Names(s) = Take(All(s), "/").names
<1>1. Read(s) \in [0 .. Len(s) -> ReadStates] /\ Len(s) \in 0 .. Len(s)
  BY ReadIs DEF Steps
<1> QED BY <1>1, Zenon DEF All, Names

LEMMA NoNames ==
  All(<<>>) = NothingRead /\ Names(<<>>) = <<>>
<1>1. <<>> \in Seq(Cell) /\ Len(<<>>) = 0
  OBVIOUS
<1>2. All(<<>>) = NothingRead
  BY <1>1, ReadIs DEF All, Steps
<1>3. Take(NothingRead, "/") = NothingRead
  BY DEF Take, NothingRead
<1>4. NothingRead.names = <<>>
  BY DEF NothingRead
<1> QED BY <1>1, <1>2, <1>3, <1>4, AllIs

\* s \o t is read like s as far as s goes.
LEMMA ReadsPrefix ==
  ASSUME NEW s \in Seq(Cell), NEW t \in Seq(Cell)
  PROVE  Read(s \o t)[Len(s)] = All(s)
<1> DEFINE u == s \o t
           S == {n \in Nat : n <= Len(s) => Read(u)[n] = Read(s)[n]}
<1>1. /\ u \in Seq(Cell) /\ Len(u) \in Nat /\ Len(s) \in Nat /\ Len(s) <= Len(u)
      /\ \A i \in 1 .. Len(s) : u[i] = s[i]
  OBVIOUS
<1> HIDE DEF u
<1>2. /\ Read(u)[0] = NothingRead /\ Read(s)[0] = NothingRead
      /\ \A i \in 1 .. Len(u) : Read(u)[i] = Take(Read(u)[i - 1], u[i])
      /\ \A i \in 1 .. Len(s) : Read(s)[i] = Take(Read(s)[i - 1], s[i])
  BY <1>1, ReadIs DEF Steps
<1>3. 0 \in S
  BY <1>2
<1>4. ASSUME NEW n \in S PROVE n + 1 \in S
  <2> SUFFICES ASSUME n + 1 <= Len(s) PROVE Read(u)[n + 1] = Read(s)[n + 1]
    OBVIOUS
  <2>1. n \in Nat /\ Read(u)[n] = Read(s)[n]
    BY <1>1
  <2>2. /\ n + 1 \in 1 .. Len(s) /\ n + 1 \in 1 .. Len(u) /\ (n + 1) - 1 = n
    BY <1>1, <2>1
  <2>3. Read(u)[n + 1] = Take(Read(u)[n], u[n + 1])
        /\ Read(s)[n + 1] = Take(Read(s)[n], s[n + 1])
    BY <1>2, <2>2
  <2> QED BY <1>1, <2>1, <2>2, <2>3
<1>5. S \in SUBSET Nat
  OBVIOUS
<1> HIDE DEF S
<1>6. S = Nat
  BY <1>3, <1>4, <1>5, Induction
<1> QED BY <1>1, <1>6 DEF S, All, u

\* A string after which a new name begins, such as one that ends with a slash.
Ended(s) == All(s).name = <<>>

LEMMA AppendReads ==
  ASSUME NEW s \in Seq(Cell), NEW c \in Cell
  PROVE  All(Append(s, c)) = Take(All(s), c)
<1> DEFINE u == Append(s, c)
<1>1. /\ u \in Seq(Cell) /\ Len(u) = Len(s) + 1 /\ u[Len(s) + 1] = c /\ Len(s) \in Nat
      /\ u = s \o <<c>> /\ <<c>> \in Seq(Cell)
  BY AppendProperties, AppendIsConcat
<1>2. Read(u)[Len(s)] = All(s)
  BY <1>1, ReadsPrefix
<1> HIDE DEF u
<1>3. Read(u)[Len(s) + 1] = Take(Read(u)[Len(s)], u[Len(s) + 1])
  <2>1. Len(s) + 1 \in 1 .. Len(u) /\ (Len(s) + 1) - 1 = Len(s)
    BY <1>1
  <2> QED BY <1>1, <2>1, ReadIs DEF Steps
<1> QED BY <1>1, <1>2, <1>3 DEF All, u

LEMMA AppendSlash ==
  ASSUME NEW s \in Seq(Cell)
  PROVE  Ended(Append(s, "/")) /\ Names(Append(s, "/")) = Names(s)
<1>1. "/" \in Cell /\ Append(s, "/") \in Seq(Cell)
  <2>1. "/" \in Cell
    BY DEF Cell
  <2> QED BY <2>1
<1>2. All(Append(s, "/")) = Take(All(s), "/")
  BY <1>1, AppendReads
<1>3. Take(All(s), "/").name = <<>> /\ Take(Take(All(s), "/"), "/") = Take(All(s), "/")
  BY <1>1, AllIs, TakeIs
<1> QED BY <1>1, <1>2, <1>3, AllIs DEF Ended

LEMMA PrefixIs ==
  ASSUME NEW S, NEW s \in Seq(S), NEW n \in 0 .. Len(s)
  PROVE  /\ SubSeq(s, 1, n) \in Seq(S) /\ Len(SubSeq(s, 1, n)) = n
         /\ \A i \in 1 .. n : SubSeq(s, 1, n)[i] = s[i]
<1>1. n \in Int /\ 1 \in Int /\ n >= 0 /\ \A i \in 1 .. n : s[i] \in S
  OBVIOUS
<1>2. /\ SubSeq(s, 1, n) \in Seq(S)
      /\ Len(SubSeq(s, 1, n)) = IF 1 <= n THEN n - 1 + 1 ELSE 0
      /\ \A i \in 1 .. n - 1 + 1 : SubSeq(s, 1, n)[i] = s[1 + i - 1]
  BY <1>1, SubSeqProperties
<1>3. n - 1 + 1 = n /\ \A i \in 1 .. n : 1 + i - 1 = i
  BY <1>1
<1> QED BY <1>1, <1>2, <1>3

LEMMA EndsWithSlash ==
  ASSUME NEW s \in Seq(Cell), s # <<>>, s[Len(s)] = "/"
  PROVE  Ended(s) /\ Names(s) = Names(SubSeq(s, 1, Len(s) - 1))
<1> DEFINE t == SubSeq(s, 1, Len(s) - 1)
<1>1. t \in Seq(Cell) /\ s = Append(t, "/")
  <2>1. Len(s) \in Nat /\ Len(s) > 0
    OBVIOUS
  <2>2. t \in Seq(Cell) /\ Len(t) = Len(s) - 1 /\ \A i \in 1 .. Len(t) : t[i] = s[i]
    <3>1. Len(s) - 1 \in 0 .. Len(s)
      BY <2>1
    <3> QED BY <3>1, PrefixIs
  <2> HIDE DEF t
  <2>3. "/" \in Cell
    BY DEF Cell
  <2> DEFINE u == Append(t, "/")
  <2>4. u \in Seq(Cell) /\ Len(u) = Len(s) /\ \A i \in 1 .. Len(s) : u[i] = s[i]
    BY <2>1, <2>2, <2>3
  <2> HIDE DEF u
  <2>5. u = s
    BY <2>4, SeqEqual
  <2> QED BY <2>2, <2>5 DEF u
<1> HIDE DEF t
<1>2. Ended(Append(t, "/")) /\ Names(Append(t, "/")) = Names(t)
  BY <1>1, AppendSlash
<1> QED BY <1>1, <1>2 DEF t

LEMMA ConcatAppend ==
  ASSUME NEW T, NEW s \in Seq(T), NEW t \in Seq(T), NEW e \in T
  PROVE  s \o Append(t, e) = Append(s \o t, e)
<1>1. /\ s \o Append(t, e) \in Seq(T) /\ Append(s \o t, e) \in Seq(T)
      /\ Len(s \o Append(t, e)) = Len(Append(s \o t, e))
  OBVIOUS
<1>2. \A i \in 1 .. Len(s \o Append(t, e)) : (s \o Append(t, e))[i] = Append(s \o t, e)[i]
  OBVIOUS
<1> QED BY <1>1, <1>2, SeqEqual

LEMMA ConcatNameAppend ==
  \A s, t \in Seq(Seq(Cell)) : \A e \in Seq(Cell) : s \o Append(t, e) = Append(s \o t, e)
BY ConcatAppend

\* Behind such a string the names of the next one follow.
LEMMA ConcatNames ==
  ASSUME NEW s \in Seq(Cell), NEW t \in Seq(Cell), Ended(s)
  PROVE  Names(s \o t) = Names(s) \o Names(t)
<1> DEFINE u == s \o t
           A == All(s).names
           S == {n \in Nat : n <= Len(t) =>
                   Read(u)[Len(s) + n] = [names |-> A \o Read(t)[n].names, name |-> Read(t)[n].name]}
<1>1. /\ u \in Seq(Cell) /\ Len(u) = Len(s) + Len(t) /\ Len(s) \in Nat /\ Len(t) \in Nat
      /\ \A i \in 1 .. Len(t) : u[Len(s) + i] = t[i]
  OBVIOUS
<1>2. /\ Read(u)[Len(s)] = All(s) /\ A \in Seq(Seq(Cell)) /\ All(s).name = <<>>
      /\ All(s) = [names |-> A, name |-> <<>>]
  <2>1. Read(u)[Len(s)] = All(s)
    BY ReadsPrefix
  <2>2. All(s) \in ReadStates /\ All(s).name = <<>>
    BY AllIs DEF Ended
  <2> QED BY <2>1, <2>2 DEF ReadStates
<1> HIDE DEF u, A
<1>3. /\ Read(t) \in [0 .. Len(t) -> ReadStates] /\ Read(t)[0] = NothingRead
      /\ \A i \in 1 .. Len(u) : Read(u)[i] = Take(Read(u)[i - 1], u[i])
      /\ \A i \in 1 .. Len(t) : Read(t)[i] = Take(Read(t)[i - 1], t[i])
  BY <1>1, ReadIs DEF Steps
<1>4. \A p \in ReadStates, c \in Cell :
        Take([names |-> A \o p.names, name |-> p.name], c)
        = [names |-> A \o Take(p, c).names, name |-> Take(p, c).name]
  <2> SUFFICES ASSUME NEW p \in ReadStates, NEW c \in Cell
               PROVE  Take([names |-> A \o p.names, name |-> p.name], c)
                      = [names |-> A \o Take(p, c).names, name |-> Take(p, c).name]
    OBVIOUS
  <2> DEFINE q == [names |-> A \o p.names, name |-> p.name]
  <2>1. p.names \in Seq(Seq(Cell)) /\ p.name \in Seq(Cell)
    BY DEF ReadStates
  <2>2. q \in ReadStates /\ q.names = A \o p.names /\ q.name = p.name
    BY <1>2, <2>1 DEF ReadStates
  <2> HIDE DEF q
  <2>3. CASE c # "/"
    <3>1. Take(q, c) = [names |-> q.names, name |-> Append(q.name, c)]
      BY <2>2, <2>3, TakeIs
    <3>2. Take(p, c) = [names |-> p.names, name |-> Append(p.name, c)]
      BY <2>3, TakeIs
    <3>3. Take(p, c).names = p.names /\ Take(p, c).name = Append(p.name, c)
      BY <3>2
    <3>4. Take(q, c) = [names |-> A \o Take(p, c).names, name |-> Take(p, c).name]
      BY <2>2, <3>1, <3>3
    <3> QED BY <3>4 DEF q
  <2>4. CASE c = "/"
    <3>1. Take(q, c) \in ReadStates /\ Take(q, c).name = <<>>
          /\ Take(q, c).names = IF q.name = <<>> THEN q.names ELSE Append(q.names, q.name)
      BY <2>2, <2>4, TakeIs
    <3>2. Take(p, c).name = <<>>
          /\ Take(p, c).names = IF p.name = <<>> THEN p.names ELSE Append(p.names, p.name)
      BY <2>4, TakeIs
    <3>3. A \o Append(p.names, p.name) = Append(A \o p.names, p.name)
      BY <1>2, <2>1, ConcatNameAppend, Zenon
    <3>4. Take(q, c).names = A \o Take(p, c).names
      BY <2>2, <3>1, <3>2, <3>3
    <3>5. Take(q, c) = [names |-> Take(q, c).names, name |-> Take(q, c).name]
      BY <3>1 DEF ReadStates
    <3> QED BY <3>1, <3>2, <3>4, <3>5 DEF q
  <2> QED BY <2>3, <2>4
<1>5. 0 \in S
  <2>1. Read(t)[0].names = <<>> /\ Read(t)[0].name = <<>>
    BY <1>3 DEF NothingRead
  <2>2. A \o <<>> = A /\ Len(s) + 0 = Len(s)
    BY <1>1, <1>2
  <2> QED BY <1>2, <2>1, <2>2
<1>6. ASSUME NEW n \in S PROVE n + 1 \in S
  <2> SUFFICES ASSUME n + 1 <= Len(t)
               PROVE  Read(u)[Len(s) + (n + 1)] =
                        [names |-> A \o Read(t)[n + 1].names, name |-> Read(t)[n + 1].name]
    OBVIOUS
  <2>1. n \in Nat /\ Read(u)[Len(s) + n] =
                       [names |-> A \o Read(t)[n].names, name |-> Read(t)[n].name]
    BY <1>1
  <2> HIDE DEF S
  <2>2. /\ n \in 0 .. Len(t) /\ n + 1 \in 1 .. Len(t) /\ (n + 1) - 1 = n
        /\ Len(s) + (n + 1) \in 1 .. Len(u) /\ (Len(s) + (n + 1)) - 1 = Len(s) + n
    BY <1>1, <2>1
  <2>3. /\ Read(u)[Len(s) + (n + 1)] = Take(Read(u)[Len(s) + n], u[Len(s) + (n + 1)])
        /\ Read(t)[n + 1] = Take(Read(t)[n], t[n + 1])
        /\ u[Len(s) + (n + 1)] = t[n + 1] /\ t[n + 1] \in Cell
        /\ Read(t)[n] \in ReadStates
    <3>1. Read(u)[Len(s) + (n + 1)] = Take(Read(u)[Len(s) + n], u[Len(s) + (n + 1)])
      BY <1>3, <2>2
    <3>2. Read(t)[n + 1] = Take(Read(t)[n], t[n + 1])
      BY <1>3, <2>2
    <3>3. u[Len(s) + (n + 1)] = t[n + 1] /\ t[n + 1] \in Cell
      BY <1>1, <2>2
    <3>4. Read(t)[n] \in ReadStates
      BY <1>3, <2>2
    <3> QED BY <3>1, <3>2, <3>3, <3>4
  <2> QED BY <1>4, <2>1, <2>3
<1>7. S \in SUBSET Nat
  OBVIOUS
<1> HIDE DEF S
<1>8. S = Nat
  BY <1>5, <1>6, <1>7, Induction
<1>9. All(u) = [names |-> A \o All(t).names, name |-> All(t).name]
  <2>1. Len(t) \in S
    BY <1>1, <1>8
  <2>2. Read(u)[Len(s) + Len(t)] =
          [names |-> A \o Read(t)[Len(t)].names, name |-> Read(t)[Len(t)].name]
    BY <1>1, <2>1 DEF S
  <2> QED BY <1>1, <2>2 DEF All
<1>10. Take(All(u), "/").names = A \o Take(All(t), "/").names
  <2>1. "/" \in Cell /\ All(t) \in ReadStates
    BY AllIs DEF Cell
  <2>2. Take(All(u), "/") = [names |-> A \o Take(All(t), "/").names, name |-> Take(All(t), "/").name]
    BY <1>4, <1>9, <2>1, Zenon
  <2> QED BY <2>2
<1>11. Names(s) = A
  <2>1. Take(All(s), "/") = All(s)
    BY <1>2 DEF Take
  <2> QED BY <2>1, AllIs DEF A
<1> QED BY <1>1, <1>10, <1>11, AllIs DEF u

LEMMA OneName ==
  ASSUME NEW w \in Seq(Cell), w # <<>>, \A i \in 1 .. Len(w) : w[i] # "/"
  PROVE  Names(w) = <<w>>
<1> DEFINE S == {n \in Nat : n <= Len(w) =>
                   Read(w)[n] = [names |-> <<>>, name |-> SubSeq(w, 1, n)]}
<1>1. Len(w) \in Nat
  OBVIOUS
<1>2. /\ Read(w)[0] = NothingRead
      /\ \A i \in 1 .. Len(w) : Read(w)[i] = Take(Read(w)[i - 1], w[i])
  BY ReadIs DEF Steps
<1>3. 0 \in S
  <2>1. SubSeq(w, 1, 0) = <<>>
    BY SubSeqEmpty
  <2> QED BY <1>2, <2>1 DEF NothingRead
<1>4. ASSUME NEW n \in S PROVE n + 1 \in S
  <2> SUFFICES ASSUME n + 1 <= Len(w)
               PROVE  Read(w)[n + 1] = [names |-> <<>>, name |-> SubSeq(w, 1, n + 1)]
    OBVIOUS
  <2>1. n \in Nat /\ Read(w)[n] = [names |-> <<>>, name |-> SubSeq(w, 1, n)]
    BY <1>1
  <2> HIDE DEF S
  <2>2. n \in 0 .. Len(w) /\ n + 1 \in 1 .. Len(w) /\ (n + 1) - 1 = n /\ n + 1 \in 0 .. Len(w)
    BY <1>1, <2>1
  <2>3. Read(w)[n + 1] = Take(Read(w)[n], w[n + 1]) /\ w[n + 1] \in Cell /\ w[n + 1] # "/"
    BY <1>2, <2>2
  <2>4. SubSeq(w, 1, n) \in Seq(Cell)
    BY <2>2, PrefixIs
  <2>5. Read(w)[n] \in ReadStates
    BY <2>1, <2>4 DEF ReadStates
  <2>6. Read(w)[n + 1] = [names |-> <<>>, name |-> Append(SubSeq(w, 1, n), w[n + 1])]
    <3>1. Take(Read(w)[n], w[n + 1])
          = [names |-> Read(w)[n].names, name |-> Append(Read(w)[n].name, w[n + 1])]
      BY <2>3, <2>5, TakeIs
    <3>2. Read(w)[n].names = <<>> /\ Read(w)[n].name = SubSeq(w, 1, n)
      BY <2>1
    <3> QED BY <2>3, <3>1, <3>2
  <2>7. Append(SubSeq(w, 1, n), w[n + 1]) = SubSeq(w, 1, n + 1)
    <3>1. /\ SubSeq(w, 1, n) \in Seq(Cell) /\ Len(SubSeq(w, 1, n)) = n
          /\ \A i \in 1 .. n : SubSeq(w, 1, n)[i] = w[i]
      BY <2>2, PrefixIs
    <3>2. /\ SubSeq(w, 1, n + 1) \in Seq(Cell) /\ Len(SubSeq(w, 1, n + 1)) = n + 1
          /\ \A i \in 1 .. n + 1 : SubSeq(w, 1, n + 1)[i] = w[i]
      BY <2>2, PrefixIs
    <3> DEFINE s == Append(SubSeq(w, 1, n), w[n + 1])
               t == SubSeq(w, 1, n + 1)
    <3>3. s \in Seq(Cell) /\ Len(s) = n + 1 /\ \A i \in 1 .. n + 1 : s[i] = w[i]
      BY <2>1, <2>3, <3>1
    <3> HIDE DEF s, t
    <3>4. s = t
      BY <3>2, <3>3, SeqEqual DEF t
    <3> QED BY <3>4 DEF s, t
  <2> QED BY <2>6, <2>7
<1>5. S \in SUBSET Nat
  OBVIOUS
<1> HIDE DEF S
<1>6. S = Nat
  BY <1>3, <1>4, <1>5, Induction
<1>7. All(w) = [names |-> <<>>, name |-> w]
  <2>1. Len(w) \in S
    BY <1>1, <1>6
  <2>2. Read(w)[Len(w)] = [names |-> <<>>, name |-> SubSeq(w, 1, Len(w))]
    BY <1>1, <2>1 DEF S
  <2>3. SubSeq(w, 1, Len(w)) = w
    BY SubSeqFull
  <2> QED BY <2>2, <2>3 DEF All
<1>8. Take(All(w), "/").names = Append(<<>>, w)
  <2>1. All(w).names = <<>> /\ All(w).name = w
    BY <1>7
  <2>2. Take(All(w), "/") = [names |-> Append(All(w).names, All(w).name), name |-> <<>>]
    BY <2>1 DEF Take
  <2> QED BY <2>1, <2>2
<1>9. Append(<<>>, w) = <<w>>
  OBVIOUS
<1> QED BY <1>8, <1>9, AllIs

-----------------------------------------------------------------------------
(* cwd follows the path.                                                     *)

\* No empty name.
Plain(s) == \A i \in 1 .. Len(s) - 1 : s[i] # "/" \/ s[i + 1] # "/"

\* A cwd as cd leaves it when nothing was too long.
Closed(s) == Absolute(s) /\ Plain(s) /\ s[Len(s)] = "/"

LEMMA StoredNames ==
  ASSUME NEW target, Absolute(target), Len(target) <= STR, Plain(target)
  PROVE  Closed(Stored(target)) /\ Names(Stored(target)) = Names(target)
<1>1. target \in Seq(Cell) /\ Len(target) \in Nat /\ Len(target) > 0 /\ target[1] = "/"
  BY DEF Absolute
<1>2. Upto(target, STR) = target
  BY <1>1, UptoIs, Sizes
<1>3. Stored(target) = IF Len(target) > 1 /\ target[Len(target)] # "/"
                       THEN Append(target, "/") ELSE target
  BY <1>2, Zenon DEF Stored, Last
<1>4. CASE Len(target) > 1 /\ target[Len(target)] # "/"
  <2> DEFINE s == Append(target, "/")
  <2>1. "/" \in Cell
    BY DEF Cell
  <2>2. /\ s \in Seq(Cell) /\ Len(s) = Len(target) + 1 /\ s[Len(s)] = "/" /\ s # <<>>
        /\ \A i \in 1 .. Len(target) : s[i] = target[i]
    BY <1>1, <2>1, AppendProperties
  <2>3. Names(s) = Names(target)
    BY <1>1, AppendSlash
  <2>4. Stored(target) = s
    BY <1>3, <1>4
  <2> HIDE DEF s
  <2>5. Plain(s)
    <3> SUFFICES ASSUME NEW i \in 1 .. Len(s) - 1 PROVE s[i] # "/" \/ s[i + 1] # "/"
      BY DEF Plain
    <3>1. i \in 1 .. Len(target) /\ s[i] = target[i]
      BY <1>1, <2>2
    <3>2. CASE i = Len(target)
      BY <1>4, <3>1, <3>2
    <3>3. CASE i # Len(target)
      <4>1. i \in 1 .. Len(target) - 1 /\ i + 1 \in 1 .. Len(target)
        BY <1>1, <3>1, <3>3
      <4>2. s[i + 1] = target[i + 1]
        BY <2>2, <4>1
      <4> QED BY <3>1, <4>1, <4>2 DEF Plain
    <3> QED BY <3>2, <3>3
  <2>6. s[1] = "/"
    BY <1>1, <2>2
  <2> QED BY <2>2, <2>3, <2>4, <2>5, <2>6 DEF Closed, Absolute
<1>5. CASE ~(Len(target) > 1 /\ target[Len(target)] # "/")
  <2>1. Stored(target) = target
    BY <1>3, <1>5
  <2>2. target[Len(target)] = "/"
    <3>1. CASE Len(target) = 1
      BY <1>1, <3>1
    <3>2. CASE Len(target) > 1
      BY <1>5, <3>2
    <3> QED BY <1>1, <3>1, <3>2
  <2> QED BY <2>1, <2>2 DEF Closed
<1> QED BY <1>4, <1>5

LEMMA NamesType ==
  ASSUME NEW s \in Seq(Cell)
  PROVE  Names(s) \in Seq(Seq(Cell))
<1>1. "/" \in Cell
  BY DEF Cell
<1>2. Take(All(s), "/") \in ReadStates
  BY <1>1, AllIs, TakeIs
<1> QED BY <1>2, AllIs DEF ReadStates

LEMMA RootNames ==
  Absolute(<<"/">>) /\ Plain(<<"/">>) /\ Closed(<<"/">>) /\ Names(<<"/">>) = <<>>
<1> DEFINE root == <<"/">>
<1>1. root \in Seq(Cell) /\ root # <<>> /\ Len(root) = 1 /\ root[1] = "/"
  <2>1. "/" \in Cell
    BY DEF Cell
  <2> QED BY <2>1
<1> HIDE DEF root
<1>2. Names(root) = Names(SubSeq(root, 1, Len(root) - 1))
  BY <1>1, EndsWithSlash
<1>3. SubSeq(root, 1, Len(root) - 1) = <<>>
  BY <1>1, SubSeqEmpty
<1>4. Plain(root)
  BY <1>1 DEF Plain
<1>5. Names(root) = <<>> /\ Absolute(root) /\ Closed(root)
  BY <1>1, <1>2, <1>3, <1>4, NoNames DEF Absolute, Closed
<1> QED BY <1>4, <1>5 DEF root

LEMMA ParentNames ==
  ASSUME NEW here, Closed(here)
  PROVE  /\ Absolute(Parent(here)) /\ Plain(Parent(here))
         /\ Names(Parent(here)) =
              IF Names(here) = <<>> THEN <<>> ELSE Front(Names(here))
<1>1. /\ here \in Seq(Cell) /\ Len(here) \in Nat /\ Len(here) > 0 /\ here # <<>>
      /\ here[1] = "/" /\ here[Len(here)] = "/" /\ Plain(here)
  BY DEF Closed, Absolute
<1>2. Absolute(Parent(here))
  BY ParentIsAbsolute DEF Closed
<1> DEFINE path == IF Len(here) > 1 /\ Last(here) = "/" THEN Front(here) ELSE here
           m == LastSlash(path)
<1>3. Parent(here) = IF m <= 1 THEN <<"/">> ELSE SubSeq(path, 1, m - 1)
  BY Zenon DEF Parent, LastSlash
<1>4. CASE Len(here) = 1
  <2>1. here = <<"/">>
    BY <1>1, <1>4
  <2>2. path = here
    BY <1>4
  <2> HIDE DEF path
  <2>3. m <= 1
    BY <1>1, <1>4, <2>2, LastSlashIs
  <2>4. Parent(here) = <<"/">>
    BY <1>3, <2>3
  <2> QED BY <1>2, <2>1, <2>4, RootNames
<1>5. CASE Len(here) > 1
  <2>1. path = SubSeq(here, 1, Len(here) - 1)
    <3>1. Last(here) = "/" /\ Front(here) = SubSeq(here, 1, Len(here) - 1)
      BY <1>1 DEF Last, Front
    <3> QED BY <1>5, <3>1
  <2> HIDE DEF path
  <2>2. /\ path \in Seq(Cell) /\ Len(path) = Len(here) - 1
        /\ \A i \in 1 .. Len(path) : path[i] = here[i]
    <3>1. Len(here) - 1 \in 0 .. Len(here)
      BY <1>1
    <3> QED BY <1>1, <2>1, <3>1, PrefixIs
  <2>3. path[1] = "/" /\ path[Len(path)] # "/" /\ Len(path) \in Nat /\ Len(path) >= 1
    <3>1. Len(path) \in Nat /\ Len(path) >= 1 /\ Len(path) + 1 = Len(here)
      BY <1>1, <1>5, <2>2
    <3>2. path[1] = "/"
      BY <1>1, <2>2, <3>1
    <3>3. here[Len(path)] # "/" \/ here[Len(path) + 1] # "/"
      BY <1>1, <3>1 DEF Plain
    <3>4. path[Len(path)] = here[Len(path)]
      BY <2>2, <3>1
    <3> QED BY <1>1, <3>1, <3>2, <3>3, <3>4
  <2>4. /\ m \in 1 .. Len(path) /\ m < Len(path) /\ path[m] = "/"
        /\ \A i \in 1 .. Len(path) : path[i] = "/" => i <= m
    <3>1. /\ m \in 0 .. Len(path) /\ (m # 0 => path[m] = "/")
          /\ \A i \in 1 .. Len(path) : path[i] = "/" => i <= m
      BY <2>2, LastSlashIs
    <3> HIDE DEF m
    <3>2. 1 <= m
      BY <2>3, <3>1
    <3>3. m # Len(path)
      BY <2>3, <3>1, <3>2
    <3> QED BY <2>3, <3>1, <3>2, <3>3
  <2> HIDE DEF m
  <2> DEFINE P == SubSeq(path, 1, m)
             w == SubSeq(path, m + 1, Len(path))
             Q == SubSeq(path, 1, m - 1)
  <2>5. /\ P \in Seq(Cell) /\ Len(P) = m /\ P # <<>> /\ P[Len(P)] = "/"
        /\ \A i \in 1 .. m : P[i] = path[i]
    <3>1. m \in 0 .. Len(path) /\ m \in 1 .. m
      BY <2>3, <2>4
    <3>2. P \in Seq(Cell) /\ Len(P) = m /\ \A i \in 1 .. m : P[i] = path[i]
      BY <2>2, <3>1, PrefixIs
    <3> HIDE DEF P
    <3> QED BY <2>4, <3>1, <3>2
  <2>6. w \in Seq(Cell) /\ w # <<>> /\ \A i \in 1 .. Len(w) : w[i] # "/"
    <3>1. /\ w \in Seq(Cell) /\ Len(w) = Len(path) - m
          /\ \A i \in 1 .. Len(path) - m : w[i] = path[m + i]
      BY <2>2, <2>3, <2>4
    <3> HIDE DEF w
    <3>2. w # <<>>
      BY <2>3, <2>4, <3>1
    <3>3. ASSUME NEW i \in 1 .. Len(w) PROVE w[i] # "/"
      <4>1. m + i \in 1 .. Len(path) /\ ~(m + i <= m)
        BY <2>3, <2>4, <3>1
      <4>2. w[i] = path[m + i]
        BY <3>1
      <4> QED BY <2>4, <4>1, <4>2
    <3> QED BY <3>1, <3>2, <3>3
  <2>7. path = P \o w
    <3>1. /\ 1 \in 1 .. Len(path) + 1 /\ m \in 1 - 1 .. Len(path)
          /\ Len(path) \in m .. Len(path)
      BY <2>3, <2>4
    <3>2. SubSeq(path, 1, m) \o SubSeq(path, m + 1, Len(path)) = SubSeq(path, 1, Len(path))
      BY <2>2, <3>1, ConcatAdjacentSubSeq
    <3>3. SubSeq(path, 1, Len(path)) = path
      BY <2>2, SubSeqFull
    <3> QED BY <3>2, <3>3
  <2>8. /\ Q \in Seq(Cell) /\ Len(Q) = m - 1 /\ \A i \in 1 .. m - 1 : Q[i] = path[i]
    <3>1. m - 1 \in 0 .. Len(path)
      BY <2>3, <2>4
    <3> QED BY <2>2, <3>1, PrefixIs
  <2>9. SubSeq(P, 1, Len(P) - 1) = Q
    <3>1. Len(P) - 1 \in 0 .. Len(P) /\ Len(P) - 1 = m - 1
      BY <2>3, <2>4, <2>5
    <3> DEFINE R == SubSeq(P, 1, Len(P) - 1)
    <3>2. R \in Seq(Cell) /\ Len(R) = m - 1 /\ \A i \in 1 .. m - 1 : R[i] = P[i]
      BY <2>5, <3>1, PrefixIs
    <3> HIDE DEF P, Q, R
    <3>3. \A i \in 1 .. m - 1 : i \in 1 .. m
      BY <2>4
    <3>4. R = Q
      BY <2>5, <2>8, <3>2, <3>3, SeqEqual
    <3> QED BY <3>4 DEF R
  <2> HIDE DEF P, w, Q
  <2>10. Ended(P) /\ Names(P) = Names(Q)
    BY <2>5, <2>9, EndsWithSlash
  <2>11. Names(here) = Names(Q) \o <<w>>
    <3>1. Names(here) = Names(path)
      BY <1>1, <2>1, EndsWithSlash
    <3>2. Names(w) = <<w>>
      BY <2>6, OneName
    <3>3. Names(P \o w) = Names(P) \o Names(w)
      BY <2>5, <2>6, <2>10, ConcatNames
    <3> QED BY <2>7, <2>10, <3>1, <3>2, <3>3
  <2>12. Names(here) # <<>> /\ Front(Names(here)) = Names(Q)
    <3> DEFINE N == Names(Q)
               H == N \o <<w>>
    <3>1. N \in Seq(Seq(Cell)) /\ <<w>> \in Seq(Seq(Cell)) /\ Len(N) \in Nat
      BY <2>6, <2>8, NamesType
    <3> HIDE DEF N
    <3>2. /\ H \in Seq(Seq(Cell)) /\ Len(H) = Len(N) + 1
          /\ \A i \in 1 .. Len(N) : H[i] = N[i]
      BY <3>1
    <3> HIDE DEF H
    <3>3. Len(N) \in 0 .. Len(H) /\ Len(H) - 1 = Len(N) /\ H # <<>>
      BY <3>1, <3>2
    <3>4. SubSeq(H, 1, Len(N)) = N
      <4> DEFINE F == SubSeq(H, 1, Len(N))
      <4>1. F \in Seq(Seq(Cell)) /\ Len(F) = Len(N) /\ \A i \in 1 .. Len(N) : F[i] = H[i]
        BY <3>2, <3>3, PrefixIs
      <4> HIDE DEF F
      <4>2. F = N
        BY <3>1, <3>2, <4>1, SeqEqual
      <4> QED BY <4>2 DEF F
    <3>5. Front(H) = N
      BY <3>3, <3>4 DEF Front
    <3> QED BY <2>11, <3>3, <3>5 DEF N, H
  <2>13. Names(Parent(here)) = Names(Q) /\ Plain(Parent(here))
    <3>1. CASE m <= 1
      <4>1. Q = <<>> /\ Parent(here) = <<"/">>
        BY <1>3, <2>4, <2>8, <3>1
      <4> QED BY <4>1, NoNames, RootNames
    <3>2. CASE m > 1
      <4>1. Parent(here) = Q
        BY <1>3, <2>4, <3>2 DEF Q
      <4>2. Plain(Q)
        <5> SUFFICES ASSUME NEW i \in 1 .. Len(Q) - 1 PROVE Q[i] # "/" \/ Q[i + 1] # "/"
          BY DEF Plain
        <5>1. /\ i \in 1 .. m - 1 /\ i + 1 \in 1 .. m - 1 /\ i \in 1 .. Len(path)
              /\ i + 1 \in 1 .. Len(path) /\ i \in 1 .. Len(here) - 1
          BY <1>1, <2>2, <2>3, <2>4, <2>8
        <5>2. Q[i] = here[i] /\ Q[i + 1] = here[i + 1]
          BY <2>2, <2>8, <5>1
        <5> QED BY <1>1, <5>1, <5>2 DEF Plain
      <4> QED BY <4>1, <4>2
    <3> QED BY <2>3, <2>4, <3>1, <3>2
  <2>14. Names(Parent(here)) = Front(Names(here))
    BY <2>12, <2>13, Zenon
  <2> QED BY <1>2, <2>12, <2>13, <2>14, Zenon
<1>6. Len(here) = 1 \/ Len(here) > 1
  <2>1. Len(here) \in Nat /\ Len(here) > 0
    BY <1>1, Zenon
  <2> QED BY ONLY <2>1
<1> QED BY <1>4, <1>5, <1>6, Zenon

PathOK == ~odd => Names(cwd) = dir /\ Len(cwd) <= STR /\ Closed(cwd)

LEMMA Dots ==
  /\ <<".", ".">> # <<".">>
  /\ \A data \in {<<".", ".">>, <<".">>} : data # <<>> /\ Head(data) # "/"
<1>1. Len(<<".", ".">>) = 2 /\ Len(<<".">>) = 1
  OBVIOUS
<1>2. Head(<<".", ".">>) = "." /\ Head(<<".">>) = "."
  OBVIOUS
<1>3. "." # "/"
  OBVIOUS
<1> QED BY <1>1, <1>2, <1>3

\* What cd does to cwd and to the directory it counts as the current one, for
\* each kind of path.
CdEffect(data) ==
  LET up == data = <<".", ".">>
      stays == data = <<".">>
      absolute == data # <<>> /\ Head(data) = "/"
  IN /\ up => dir' = IF dir = <<>> THEN dir ELSE Front(dir)
     /\ stays => dir' = dir
     /\ absolute => dir' = Names(data)
     /\ ~up /\ ~stays /\ ~absolute => dir' = dir \o Names(data)
     /\ ~odd' => /\ Len(data) <= STR /\ Len(Stored(CdTarget(data))) <= STR
                 /\ Len(CdTarget(data)) <= STR /\ Plain(data) /\ (absolute \/ ~odd)
     /\ cwd' = Stored(CdTarget(data)) /\ IsDirectory(CdTarget(data))

LEMMA CdEffects ==
  ASSUME NEW data \in Paths, CdGoes(data)
  PROVE  CdEffect(data)
<1> DEFINE up == data = <<".", ".">>
           stays == data = <<".">>
           absolute == data # <<>> /\ Head(data) = "/"
           e1 == IF dir = <<>> THEN dir ELSE Front(dir)
           e3 == Names(data)
           e4 == dir \o Names(data)
           plain == /\ Len(data) <= STR /\ Len(Stored(CdTarget(data))) <= STR
                    /\ Len(CdTarget(data)) <= STR
                    /\ \A i \in 1 .. Len(data) - 1 : data[i] # "/" \/ data[i + 1] # "/"
<1>1. dir' = CASE up -> e1 [] stays -> dir [] absolute -> e3 [] OTHER -> e4
  BY Zenon DEF CdGoes
<1>2. odd' = (~plain \/ (~absolute /\ odd))
  BY Zenon DEF CdGoes
<1>3. cwd' = Stored(CdTarget(data)) /\ IsDirectory(CdTarget(data))
  BY Zenon DEF CdGoes
<1>4. up => ~stays /\ ~absolute
  BY Dots, Zenon
<1>5. stays => ~up /\ ~absolute
  BY Dots, Zenon
<1>6. ~odd' => plain /\ (absolute \/ ~odd)
  <2> HIDE DEF plain, absolute
  <2> QED BY <1>2, Zenon
<1>7. /\ up => dir' = e1
      /\ stays => dir' = dir
      /\ absolute => dir' = e3
      /\ ~up /\ ~stays /\ ~absolute => dir' = e4
  <2> HIDE DEF up, stays, absolute, e1, e3, e4
  <2> QED BY <1>1, <1>4, <1>5
<1> QED BY <1>3, <1>6, <1>7, Zenon DEF CdEffect, Plain

LEMMA CdFollows ==
  ASSUME HeapOK, CwdOK, PathOK, NEW data \in Paths, CdGoes(data), ~odd'
  PROVE  /\ Names(cwd') = dir' /\ Len(cwd') <= STR /\ Closed(cwd')
         /\ dir' \in Directories \cup {<<>>}
<1> DEFINE target == CdTarget(data)
           absolute == data # <<>> /\ Head(data) = "/"
<1>1. CdEffect(data)
  BY CdEffects
<1>2. /\ Len(data) <= STR /\ Len(Stored(target)) <= STR /\ Len(target) <= STR
      /\ Plain(data) /\ (absolute \/ ~odd)
      /\ cwd' = Stored(target) /\ IsDirectory(target)
  BY <1>1, Zenon DEF CdEffect
<1>3. data \in Seq(Char) /\ data \in Seq(Cell)
  BY Strings
<1>4. target = Target(Text(<<"@">>), data)
  BY <1>2, CdPathIs DEF CdTarget
<1>5. ~odd => /\ Text(<<"@">>) = cwd /\ Names(cwd) = dir /\ Closed(cwd)
              /\ cwd \in Seq(Cell) /\ Ended(cwd) /\ cwd # <<>> /\ Last(cwd) = "/"
  <2> SUFFICES ASSUME ~odd
               PROVE  /\ Text(<<"@">>) = cwd /\ Names(cwd) = dir /\ Closed(cwd)
                      /\ cwd \in Seq(Cell) /\ Ended(cwd) /\ cwd # <<>> /\ Last(cwd) = "/"
    OBVIOUS
  <2>1. Names(cwd) = dir /\ Len(cwd) <= STR /\ Closed(cwd)
    BY DEF PathOK
  <2>2. cwd \in Seq(Cell) /\ cwd # <<>> /\ cwd[Len(cwd)] = "/"
    BY <2>1 DEF Closed, Absolute
  <2>3. Ended(cwd)
    BY <2>2, EndsWithSlash
  <2>4. Last(cwd) = "/"
    BY <2>2 DEF Last
  <2>5. Text(<<"@">>) = cwd
    BY <2>1, TextIs
  <2> QED BY <2>1, <2>2, <2>3, <2>4, <2>5
<1> HIDE DEF target
<1>6. Absolute(target) /\ Plain(target) /\ Names(target) = dir'
  <2>1. CASE data = <<".", ".">>
    <3>1. ~absolute
      BY <2>1, Dots, Zenon
    <3>2. ~odd /\ dir' = IF dir = <<>> THEN dir ELSE Front(dir)
      BY <1>1, <1>2, <2>1, <3>1, Zenon DEF CdEffect
    <3>3. target = Parent(cwd)
      BY <1>4, <1>5, <2>1, <3>2, Zenon DEF Target
    <3>4. /\ Absolute(Parent(cwd)) /\ Plain(Parent(cwd))
          /\ Names(Parent(cwd)) = IF Names(cwd) = <<>> THEN <<>> ELSE Front(Names(cwd))
      BY <1>5, <3>2, ParentNames
    <3>5. Names(Parent(cwd)) = dir'
      <4> HIDE DEF absolute
      <4>1. Names(cwd) = dir
        BY <1>5, <3>2, Zenon
      <4> QED BY <3>2, <3>4, <4>1
    <3> QED BY <3>3, <3>4, <3>5, Zenon
  <2>2. CASE data = <<".">>
    <3>1. ~absolute /\ data # <<".", ".">>
      BY <2>2, Dots, Zenon
    <3>2. ~odd /\ dir' = dir
      BY <1>1, <1>2, <2>2, <3>1, Zenon DEF CdEffect
    <3>3. target = cwd
      BY <1>4, <1>5, <2>2, <3>1, <3>2, Zenon DEF Target
    <3> QED BY <1>5, <3>2, <3>3, Zenon DEF Closed
  <2>3. CASE absolute
    <3>1. data # <<".", ".">> /\ data # <<".">>
      BY <2>3, Dots, Zenon
    <3>2. dir' = Names(data)
      BY <1>1, <2>3, Zenon DEF CdEffect
    <3>3. target = data
      BY <1>4, <2>3, <3>1, Zenon DEF Target, resolve_path
    <3>4. Absolute(data)
      BY <1>3, <2>3, HeadTailProperties DEF Absolute
    <3> QED BY <1>2, <3>2, <3>3, <3>4, Zenon
  <2>4. CASE data # <<".", ".">> /\ data # <<".">> /\ ~absolute
    <3>1. ~odd /\ dir' = dir \o Names(data)
      BY <1>1, <1>2, <2>4, Zenon DEF CdEffect
    <3>2. target = cwd \o data
      BY <1>4, <1>5, <2>4, <3>1, Zenon DEF Target, resolve_path
    <3>3. Names(cwd \o data) = dir'
      BY <1>3, <1>5, <3>1, ConcatNames
    <3>4. Absolute(cwd \o data)
      BY <1>3, <1>5, <3>1 DEF Closed, Absolute
    <3>5. Plain(cwd \o data)
      <4> DEFINE u == cwd \o data
      <4>1. /\ cwd \in Seq(Cell) /\ Len(cwd) \in Nat /\ Len(data) \in Nat /\ Plain(cwd)
        BY <1>3, <1>5, <3>1 DEF Closed
      <4>2. /\ Len(u) = Len(cwd) + Len(data)
            /\ \A i \in 1 .. Len(cwd) : u[i] = cwd[i]
            /\ \A i \in 1 .. Len(data) : u[Len(cwd) + i] = data[i]
        BY <1>3, <4>1
      <4>3. Len(data) > 0 => data[1] # "/"
        BY <1>3, <2>4, HeadTailProperties
      <4> HIDE DEF u
      <4> SUFFICES ASSUME NEW i \in 1 .. Len(u) - 1 PROVE u[i] # "/" \/ u[i + 1] # "/"
        BY DEF Plain, u
      <4>4. CASE i < Len(cwd)
        <5>1. i \in 1 .. Len(cwd) - 1 /\ i \in 1 .. Len(cwd) /\ i + 1 \in 1 .. Len(cwd)
          BY <4>1, <4>2, <4>4
        <5> QED BY <4>1, <4>2, <5>1 DEF Plain
      <4>5. CASE i = Len(cwd)
        <5>1. Len(data) > 0 /\ 1 \in 1 .. Len(data)
          BY <4>1, <4>2, <4>5
        <5>2. u[i + 1] = data[1]
          BY <4>2, <4>5, <5>1
        <5> QED BY <4>3, <5>1, <5>2
      <4>6. CASE i > Len(cwd)
        <5> DEFINE j == i - Len(cwd)
        <5>1. /\ j \in 1 .. Len(data) - 1 /\ j \in 1 .. Len(data) /\ j + 1 \in 1 .. Len(data)
              /\ i = Len(cwd) + j /\ i + 1 = Len(cwd) + (j + 1)
          BY <4>1, <4>2, <4>6
        <5> HIDE DEF j
        <5>2. u[i] = data[j] /\ u[i + 1] = data[j + 1]
          BY <4>2, <5>1
        <5> QED BY <1>2, <5>1, <5>2 DEF Plain
      <4>7. i < Len(cwd) \/ i = Len(cwd) \/ i > Len(cwd)
        BY <4>1, <4>2
      <4> QED BY <4>4, <4>5, <4>6, <4>7
    <3> QED BY <3>2, <3>3, <3>4, <3>5
  <2> QED BY <2>1, <2>2, <2>3, <2>4, Zenon
<1>7. Closed(Stored(target)) /\ Names(Stored(target)) = Names(target)
  BY <1>2, <1>6, StoredNames
<1>8. Names(target) \in Directories \cup {<<>>}
  <2>1. CASE target = <<"/">>
    BY <2>1, RootNames, Zenon
  <2>2. CASE target # <<"/">>
    BY <1>2, <2>2, Zenon DEF IsDirectory
  <2> QED BY <2>1, <2>2
<1> QED BY <1>2, <1>6, <1>7, <1>8, Zenon

-----------------------------------------------------------------------------
(* The invariant.                                                            *)

RestOK ==
  /\ dir \in Directories \cup {<<>>} \/ odd
  /\ odd \in BOOLEAN /\ served \in 0 .. MaxCommands
  /\ last.kind \in {"none", "ls", "exec", "cd", "pwd"}

DaemonInv ==
  HeapOK /\ CwdOK /\ PathOK /\ RestOK /\ AsSent(last) /\ ReportsFailure

LEMMA InvAtInit == Init => DaemonInv
<1> SUFFICES ASSUME Init PROVE DaemonInv
  OBVIOUS
<1>1. HeapOK
  <2>1. global_heap = [a \in 0 .. GLOBAL_HEAP_SIZE - 1 |->
                         IF a < COMM_HEAP_SIZE THEN Nul ELSE Foreign]
    BY DEF Init
  <2>2. Nul \in Cell /\ Foreign \in Cell /\ Foreign # Failed
    BY DEF Cell, Foreign, Failed
  <2>3. global_heap \in Heaps
    BY <2>1, <2>2 DEF Heaps
  <2>4. ASSUME NEW b \in COMM_HEAP_SIZE .. GLOBAL_HEAP_SIZE - 1 PROVE global_heap[b] # Failed
    <3>1. b \in 0 .. GLOBAL_HEAP_SIZE - 1 /\ ~(b < COMM_HEAP_SIZE)
      BY Sizes
    <3>2. global_heap[b] = Foreign
      BY <2>1, <3>1
    <3> QED BY <2>2, <3>2
  <2> QED BY <2>3, <2>4 DEF HeapOK, NoFailureOutside
<1>2. cwd = <<"/">> /\ behind = <<>> /\ dir = <<>> /\ Len(cwd) = 1
  BY DEF Init
<1>3. CwdOK
  BY <1>2, RootNames, Sizes DEF CwdOK
<1>4. PathOK
  BY <1>2, RootNames, Sizes DEF PathOK
<1>5. last.kind = "none" /\ odd = FALSE /\ served = 0
  BY DEF Init
<1>6. RestOK
  <2>1. 0 \in 0 .. MaxCommands
    BY DaemonAssumption
  <2>2. served \in 0 .. MaxCommands
    BY <1>5, <2>1, Zenon
  <2>3. dir \in Directories \cup {<<>>}
    BY <1>2, Zenon
  <2>4. last.kind \in {"none", "ls", "exec", "cd", "pwd"} /\ odd \in BOOLEAN
    BY <1>5, Zenon
  <2> QED BY <2>2, <2>3, <2>4, Zenon DEF RestOK
<1>7. AsSent(last) /\ ReportsFailure
  BY <1>5 DEF AsSent, ReportsFailure
<1> QED BY <1>1, <1>3, <1>4, <1>6, <1>7 DEF DaemonInv

\* What the commands have in common.
CommandKeeps ==
  /\ HeapOK' /\ CwdOK' /\ PathOK' /\ AsSent(last') /\ ReportsFailure'
  /\ dir' \in Directories \cup {<<>>} \/ odd'
  /\ odd' \in BOOLEAN /\ last'.kind \in {"ls", "exec", "cd", "pwd"}
  /\ Len(last'.payload) <= COMM_HEAP_SIZE - ARG_AT => Kept(global_heap', global_heap)

LEMMA SameDirectory ==
  ASSUME PathOK, RestOK, UNCHANGED <<cwd, dir, odd>>
  PROVE  PathOK' /\ odd' \in BOOLEAN /\ (dir' \in Directories \cup {<<>>} \/ odd')
<1>1. cwd' = cwd /\ dir' = dir /\ odd' = odd
  OBVIOUS
<1>2. odd \in BOOLEAN /\ (dir \in Directories \cup {<<>>} \/ odd)
  BY DEF RestOK
<1>3. odd' \in BOOLEAN /\ (odd' <=> odd)
  BY <1>1, <1>2
<1>4. Names(cwd)' = Names(cwd') /\ (Closed(cwd)' <=> Closed(cwd'))
  BY Zenon DEF Names, Read, Take, Closed, Absolute, Plain
<1>5. Names(cwd') = Names(cwd) /\ Len(cwd') = Len(cwd)
  BY <1>1, Zenon
<1>6. Closed(cwd') <=> Closed(cwd)
  BY <1>1, Zenon DEF Closed
<1>7. PathOK'
  <2> SUFFICES ASSUME ~odd' PROVE (Names(cwd) = dir /\ Len(cwd) <= STR /\ Closed(cwd))'
    BY Zenon DEF PathOK
  <2>1. Names(cwd) = dir /\ Len(cwd) <= STR /\ Closed(cwd)
    BY <1>3, Zenon DEF PathOK
  <2> QED BY <1>1, <1>4, <1>5, <1>6, <2>1, Zenon
<1>8. dir' \in Directories \cup {<<>>} \/ odd'
  BY <1>1, <1>2, <1>3, Zenon
<1> QED BY <1>3, <1>7, <1>8, Zenon

LEMMA LsInv ==
  ASSUME DaemonInv, NEW data \in Paths, Comm_ls(data)
  PROVE  CommandKeeps
<1>1. /\ HeapOK' /\ CwdOK' /\ UNCHANGED <<cwd, dir, odd>>
      /\ last'.kind = "ls" /\ last'.payload = data /\ last'.error = last'.failed
      /\ Len(data) <= COMM_HEAP_SIZE - ARG_AT => Kept(global_heap', global_heap)
  BY LsKeeps DEF DaemonInv
<1>2. PathOK' /\ odd' \in BOOLEAN /\ (dir' \in Directories \cup {<<>>} \/ odd')
  BY <1>1, SameDirectory DEF DaemonInv
<1>3. AsSent(last') /\ ReportsFailure'
  BY <1>1 DEF AsSent, ReportsFailure
<1> QED BY <1>1, <1>2, <1>3 DEF CommandKeeps

LEMMA ExecInv ==
  ASSUME DaemonInv, NEW data \in Commands, Comm_exec(data)
  PROVE  CommandKeeps
<1>1. /\ HeapOK' /\ CwdOK' /\ UNCHANGED <<cwd, dir, odd>>
      /\ last'.kind = "exec" /\ last'.payload = data /\ AsSent(last')
      /\ Len(data) <= COMM_HEAP_SIZE - ARG_AT => Kept(global_heap', global_heap)
  BY ExecKeeps DEF DaemonInv
<1>2. PathOK' /\ odd' \in BOOLEAN /\ (dir' \in Directories \cup {<<>>} \/ odd')
  BY <1>1, SameDirectory DEF DaemonInv
<1>3. ReportsFailure'
  BY <1>1 DEF ReportsFailure
<1> QED BY <1>1, <1>2, <1>3 DEF CommandKeeps

LEMMA CdInv ==
  ASSUME DaemonInv, NEW data \in Paths, Comm_chdir(data)
  PROVE  CommandKeeps
<1>1. CdGoes(data) \/ CdFails(data)
  BY CdOutcomes
<1>2. /\ HeapOK' /\ CwdOK'
      /\ last'.kind = "cd" /\ last'.payload = data /\ last'.error = last'.failed
      /\ Len(data) <= COMM_HEAP_SIZE - ARG_AT => Kept(global_heap', global_heap)
  BY <1>1, CdKeeps DEF DaemonInv
<1>3. PathOK' /\ odd' \in BOOLEAN /\ (dir' \in Directories \cup {<<>>} \/ odd')
  <2>1. CASE CdGoes(data)
    <3>1. odd' \in BOOLEAN
      BY <2>1, Zenon DEF CdGoes
    <3>2. ~odd' => /\ Names(cwd') = dir' /\ Len(cwd') <= STR /\ Closed(cwd')
                   /\ dir' \in Directories \cup {<<>>}
      BY <2>1, CdFollows DEF DaemonInv
    <3>3. PathOK' = (~odd' => Names(cwd)' = dir' /\ Len(cwd') <= STR /\ Closed(cwd)')
      BY Zenon DEF PathOK
    <3>4. Names(cwd)' = Names(cwd') /\ Closed(cwd)' = Closed(cwd')
      BY Zenon DEF Names, Read, Take, Closed, Absolute, Plain
    <3> QED BY <3>1, <3>2, <3>3, <3>4, Zenon
  <2>2. CASE CdFails(data)
    <3>1. UNCHANGED <<cwd, dir, odd>>
      BY <2>2 DEF CdFails
    <3> QED BY <3>1, SameDirectory DEF DaemonInv
  <2> QED BY <1>1, <2>1, <2>2
<1>4. AsSent(last') /\ ReportsFailure'
  BY <1>2 DEF AsSent, ReportsFailure
<1> QED BY <1>2, <1>3, <1>4 DEF CommandKeeps

LEMMA GetcwdInv ==
  ASSUME DaemonInv, Comm_getcwd
  PROVE  CommandKeeps
<1>1. /\ global_heap' = Laid(<<>>) /\ behind' = <<>> /\ UNCHANGED <<cwd, dir, odd>>
      /\ last'.kind = "pwd" /\ last'.payload = <<>>
  BY DEF Comm_getcwd
<1>2. /\ Laid(<<>>) \in Heaps /\ NoFailureOutside(Laid(<<>>))
      /\ Len(<<>>) <= COMM_HEAP_SIZE - ARG_AT => Kept(Laid(<<>>), global_heap)
  BY LaidKeeps DEF DaemonInv
<1>3. HeapOK' /\ CwdOK'
  BY <1>1, <1>2 DEF DaemonInv, HeapOK, CwdOK, Absolute, NoFailureOutside
<1>4. PathOK' /\ odd' \in BOOLEAN /\ (dir' \in Directories \cup {<<>>} \/ odd')
  BY <1>1, SameDirectory DEF DaemonInv
<1>5. AsSent(last') /\ ReportsFailure'
  BY <1>1 DEF AsSent, ReportsFailure
<1> QED BY <1>1, <1>2, <1>3, <1>4, <1>5 DEF CommandKeeps

LEMMA NextKeeps ==
  ASSUME DaemonInv, Next
  PROVE  CommandKeeps /\ served < MaxCommands /\ served' = served + 1
<1>1. /\ served < MaxCommands /\ served' = served + 1
      /\ \/ \E data \in Paths : Comm_ls(data)
         \/ \E data \in Commands : Comm_exec(data)
         \/ \E data \in Paths : Comm_chdir(data)
         \/ Comm_getcwd
  BY Zenon DEF Next
<1> QED BY <1>1, LsInv, ExecInv, CdInv, GetcwdInv

LEMMA InvKept == DaemonInv /\ [Next]_vars => DaemonInv'
<1> SUFFICES ASSUME DaemonInv, [Next]_vars PROVE DaemonInv'
  OBVIOUS
<1>1. CASE Next
  <2>1. CommandKeeps /\ served < MaxCommands /\ served' = served + 1
    BY <1>1, NextKeeps
  <2>2. served' \in 0 .. MaxCommands
    BY <2>1, DaemonAssumption DEF DaemonInv, RestOK
  <2>3. AsSent(last)'
    BY <2>1 DEF CommandKeeps, AsSent, WellSent, From, Upto
  <2>4. RestOK'
    BY <2>1, <2>2, Zenon DEF CommandKeeps, RestOK
  <2> QED BY <2>1, <2>3, <2>4, Zenon DEF CommandKeeps, DaemonInv
<1>2. CASE UNCHANGED vars
  <2>1. UNCHANGED <<global_heap, cwd, behind>> /\ UNCHANGED <<cwd, dir, odd>>
        /\ UNCHANGED <<last, served>>
    BY <1>2 DEF vars
  <2>2. HeapOK' /\ CwdOK'
    BY <2>1 DEF DaemonInv, HeapOK, NoFailureOutside, CwdOK, Absolute
  <2>3. PathOK'
    BY <2>1, SameDirectory, Zenon DEF DaemonInv
  <2>4. RestOK'
    BY <2>1 DEF DaemonInv, RestOK
  <2>5. last' = last
    BY <2>1
  <2>6. AsSent(last)'
    BY <2>5, Zenon DEF DaemonInv, AsSent, WellSent, From, Upto
  <2>7. ReportsFailure'
    BY <2>5, Zenon DEF DaemonInv, ReportsFailure
  <2> QED BY <2>2, <2>3, <2>4, <2>6, <2>7, Zenon DEF DaemonInv
<1> QED BY <1>1, <1>2

LEMMA DaemonCorrect == Spec => []DaemonInv
BY InvAtInit, InvKept, PTL DEF Spec

\* Types; the cwd of Syscall_chdir is absolute, no longer than its array, and a
\* directory of the card as long as nothing was too long; a failure is reported
\* in the daemon's own segment only.
THEOREM DaemonTyped == Spec => []TypeOK
<1>1. DaemonInv => TypeOK
  <2> SUFFICES ASSUME DaemonInv PROVE TypeOK
    OBVIOUS
  <2>1. DOMAIN global_heap = 0 .. GLOBAL_HEAP_SIZE - 1
        /\ \A a \in COMM_HEAP_SIZE .. GLOBAL_HEAP_SIZE - 1 : global_heap[a] # Failed
    BY DEF DaemonInv, HeapOK, Heaps, NoFailureOutside
  <2>2. Len(cwd) \in 1 .. STR + 1 /\ Head(cwd) = "/" /\ behind \in {<<>>, <<"@">>}
    <3>1. cwd \in Seq(Cell) /\ cwd # <<>> /\ cwd[1] = "/" /\ Len(cwd) <= STR + 1
          /\ behind \in {<<>>, <<"@">>}
      BY DEF DaemonInv, CwdOK, Absolute
    <3> QED BY <3>1, Sizes
  <2> QED BY <2>1, <2>2, Zenon DEF TypeOK, DaemonInv, RestOK
<1> QED BY <1>1, DaemonCorrect, PTL

\* Syscall_exec reads from the heap what the client sent, for payloads of any
\* length and whatever earlier commands left in the cells.
THEOREM ExecutesWhatWasSent == Spec => []ExecAsSent
<1>1. DaemonInv => ExecAsSent
  BY Zenon DEF DaemonInv, AsSent, WellSent, ExecAsSent
<1> QED BY <1>1, DaemonCorrect, PTL

\* The cell in which Comm_process looks for the -1 of Syscall_ls or
\* Syscall_chdir holds it exactly when this call failed.
THEOREM FailuresReported == Spec => []ReportsFailure
<1>1. DaemonInv => ReportsFailure
  BY DEF DaemonInv
<1> QED BY <1>1, DaemonCorrect, PTL

\* cwd is the directory that the cds since the root lead to, on any card.
THEOREM CwdFollowsPath == Spec => []FollowsPath
<1>1. DaemonInv => FollowsPath
  BY Zenon DEF DaemonInv, PathOK, FollowsPath
<1> QED BY <1>1, DaemonCorrect, PTL

\* A command that fits behind the second operand leaves the cells of the other
\* tasks alone.
THEOREM SegmentOfOthersKept == Spec => SegmentKept
<1>1. DaemonInv /\ [Next]_vars =>
        [Len(last'.payload) <= COMM_HEAP_SIZE - ARG_AT =>
           \A a \in COMM_HEAP_SIZE .. GLOBAL_HEAP_SIZE - 1 :
             global_heap'[a] = global_heap[a]]_vars
  <2> SUFFICES ASSUME DaemonInv, Next
               PROVE  Len(last'.payload) <= COMM_HEAP_SIZE - ARG_AT =>
                        \A a \in COMM_HEAP_SIZE .. GLOBAL_HEAP_SIZE - 1 :
                          global_heap'[a] = global_heap[a]
    OBVIOUS
  <2> QED BY NextKeeps, Zenon DEF CommandKeeps, Kept
<1> QED BY <1>1, DaemonCorrect, PTL DEF Spec, SegmentKept
=============================================================================
