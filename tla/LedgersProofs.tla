-------------------------- MODULE LedgersProofs --------------------------
(***************************************************************************)
(* Proofs about the parts of MCServices that add up or count, after lemmas *)
(* on sums over finite sets: the finance of operations, the accounts of    *)
(* clients, expense accounts, deliveries, settings, contacts and cupo      *)
(* letters.  Each part has its inductive invariant and the lemma that      *)
(* every step of it keeps the invariant; ServicesProofs puts them together.*)
(***************************************************************************)
EXTENDS MCServices, Sequences, Functions, FiniteSetTheorems, WellFoundedInduction, TLAPS


\* A set with 0 that is closed under successors holds every natural number.
LEMMA Counting ==
    ASSUME NEW S, 0 \in S, \A n \in Nat : n \in S => n + 1 \in S
    PROVE  Nat \subseteq S
<1> DEFINE T == Nat \ S
           Lt == {p \in Nat \X Nat : p[1] < p[2]}
<1>1. ASSUME T # {} PROVE FALSE
  <2>1. OpToRel(<, Nat) = Lt
        BY DEF OpToRel
  <2>2. IsWellFoundedOn(Lt, Nat)
        BY <2>1, NatLessThanWellFounded
  <2>3. PICK x \in T : \A y \in T : ~(<<y, x>> \in Lt)
    <3> HIDE DEF Lt
    <3> QED BY <1>1, <2>2, WFMin
  <2>4. x # 0 /\ x - 1 \in Nat /\ x \in Nat /\ x \notin S
        OBVIOUS
  <2>5. <<x - 1, x>> \in Lt
        BY <2>4
  <2>6. x - 1 \in S
        BY <2>3, <2>4, <2>5
  <2>7. (x - 1) + 1 = x
        BY <2>4
  <2> QED BY <2>4, <2>6, <2>7
<1> QED BY <1>1

\* The element that a fold takes next.
Pick(s) == CHOOSE x \in s : TRUE

\* G adds up f over the subsets of S.
Adds(G, f, S) == G = [s \in SUBSET S |-> IF s = {} THEN 0 ELSE f[Pick(s)] + G[s \ {Pick(s)}]]
Adder(f, S) == CHOOSE G : Adds(G, f, S)

\* A set that is not empty loses one element, the one that was picked.
LEMMA OneLess ==
    ASSUME NEW s, IsFiniteSet(s), s # {}, NEW x \in s
    PROVE  /\ IsFiniteSet(s \ {x}) /\ Cardinality(s) \in Nat /\ Cardinality(s) # 0
           /\ Cardinality(s \ {x}) = Cardinality(s) - 1
BY FS_RemoveElement, FS_CardinalityType, FS_EmptySet

\* Pick answers an element of the set.
LEMMA Picked == ASSUME NEW s, s # {} PROVE Pick(s) \in s
BY DEF Pick

\* A sum is what such a function says of the whole set.
LEMMA SumIs == ASSUME NEW f, NEW S PROVE SumFunctionOnSet(f, S) = Adder(f, S)[S]
BY Zenon DEF SumFunctionOnSet, FoldFunctionOnSet, MapThenFoldSet, Adder, Adds, Pick

\* There is such a function for a finite set.
LEMMA AdderExists == ASSUME NEW f, NEW S, IsFiniteSet(S) PROVE Adds(Adder(f, S), f, S)
<1> DEFINE Upto(n) == {s \in SUBSET S : Cardinality(s) <= n}
           Good(G, n) == \A s \in Upto(n) :
                             G[s] = IF s = {} THEN 0 ELSE f[Pick(s)] + G[s \ {Pick(s)}]
           T == {n \in Nat : \E G : Good(G, n)}
<1>0. \A s \in SUBSET S : IsFiniteSet(s) /\ Cardinality(s) \in Nat
      BY FS_Subset, FS_CardinalityType
<1>1. 0 \in T
  <2>1. \A s \in Upto(0) : s = {}
        BY <1>0, FS_EmptySet
  <2>2. Good([s \in SUBSET S |-> 0], 0)
        BY <2>1
  <2> QED BY <2>2
<1>2. ASSUME NEW n \in Nat, n \in T PROVE n + 1 \in T
  <2>1. PICK G : Good(G, n)
        BY <1>2
  <2> DEFINE H == [s \in SUBSET S |-> IF s = {} THEN 0 ELSE f[Pick(s)] + G[s \ {Pick(s)}]]
  <2>2. \A s \in Upto(n) : H[s] = G[s]
        BY <2>1
  <2>3. ASSUME NEW s \in Upto(n + 1), s # {} PROVE s \ {Pick(s)} \in Upto(n)
    <3>1. Pick(s) \in s
          BY <2>3, Picked
    <3> QED BY <1>0, <2>3, <3>1, OneLess
  <2>4. Good(H, n + 1)
        BY <2>2, <2>3
  <2> HIDE DEF Good
  <2> QED BY <2>4
<1>3. Nat \subseteq T
  <2> HIDE DEF T
  <2> QED BY <1>1, <1>2, Counting
<1>4. Cardinality(S) \in Nat
      BY <1>0
<1>5. PICK G : Good(G, Cardinality(S))
      BY <1>3, <1>4
<1>6. Upto(Cardinality(S)) = SUBSET S
      BY FS_Subset
<1> DEFINE H == [s \in SUBSET S |-> G[s]]
<1>7. Adds(H, f, S)
  <2>1. \A s \in SUBSET S : s \ {Pick(s)} \in SUBSET S
        OBVIOUS
  <2>2. \A s \in SUBSET S : G[s] = IF s = {} THEN 0 ELSE f[Pick(s)] + G[s \ {Pick(s)}]
        BY <1>5, <1>6
  <2>3. \A s \in SUBSET S : H[s] = IF s = {} THEN 0 ELSE f[Pick(s)] + H[s \ {Pick(s)}]
        BY <2>1, <2>2
  <2> QED BY <2>3 DEF Adds
<1> QED BY <1>7 DEF Adder
\* What holds of the empty set and of a set when it holds of all sets with one
\* element less holds of every finite set.
LEMMA BySize ==
    ASSUME NEW S, IsFiniteSet(S), NEW Good,
           {} \in Good,
           \A s \in SUBSET S : s # {} /\ (\A x \in s : s \ {x} \in Good) => s \in Good
    PROVE  SUBSET S \subseteq Good
<1> DEFINE T == {n \in Nat : \A s \in SUBSET S : Cardinality(s) = n => s \in Good}
<1>0. \A s \in SUBSET S : IsFiniteSet(s) /\ Cardinality(s) \in Nat
      BY FS_Subset, FS_CardinalityType
<1>1. 0 \in T
      BY <1>0, FS_EmptySet
<1>2. ASSUME NEW n \in Nat, n \in T PROVE n + 1 \in T
  <2>1. ASSUME NEW s \in SUBSET S, Cardinality(s) = n + 1 PROVE s \in Good
    <3>1. s # {}
      <4>1. Cardinality({}) = 0
            BY FS_EmptySet
      <4> QED BY <2>1, <4>1
    <3>2. \A x \in s : s \ {x} \in SUBSET S /\ Cardinality(s \ {x}) = n
          BY <1>0, <2>1, <3>1, OneLess
    <3> QED BY <1>2, <3>1, <3>2
  <2> QED BY <2>1
<1>3. Nat \subseteq T
  <2> HIDE DEF T
  <2> QED BY <1>1, <1>2, Counting
<1> QED BY <1>0, <1>3

\* How a sum begins.
LEMMA SumStarts ==
    ASSUME NEW f, NEW S, IsFiniteSet(S), NEW s \in SUBSET S
    PROVE  Adder(f, S)[s] = IF s = {} THEN 0 ELSE f[Pick(s)] + Adder(f, S)[s \ {Pick(s)}]
<1>1. Adds(Adder(f, S), f, S)
      BY AdderExists
<1> HIDE DEF Adder
<1> QED BY <1>1 DEF Adds

\* A sum depends on nothing but what is added up.
LEMMA SumAgrees ==
    ASSUME NEW S, IsFiniteSet(S), NEW D, IsFiniteSet(D), NEW f, NEW g, \A x \in S \cap D : f[x] = g[x]
    PROVE  \A s \in SUBSET (S \cap D) : Adder(f, S)[s] = Adder(g, D)[s]
<1> DEFINE Good == {s \in SUBSET (S \cap D) : Adder(f, S)[s] = Adder(g, D)[s]}
<1>1. {} \in Good
      BY ZenonT(30), SumStarts
<1>2. ASSUME NEW s \in SUBSET (S \cap D), s # {}, \A x \in s : s \ {x} \in Good PROVE s \in Good
  <2>1. Pick(s) \in s /\ s \in SUBSET S /\ s \in SUBSET D
        BY <1>2, Picked
  <2>2. Adder(f, S)[s] = f[Pick(s)] + Adder(f, S)[s \ {Pick(s)}]
        BY <1>2, <2>1, SumStarts
  <2>3. Adder(g, D)[s] = g[Pick(s)] + Adder(g, D)[s \ {Pick(s)}]
        BY <1>2, <2>1, SumStarts
  <2>4. Adder(f, S)[s \ {Pick(s)}] = Adder(g, D)[s \ {Pick(s)}]
        BY <1>2, <2>1
  <2> QED BY <2>1, <2>2, <2>3, <2>4
<1>3. IsFiniteSet(S \cap D)
      BY FS_Subset
<1> HIDE DEF Good
<1>4. SUBSET (S \cap D) \subseteq Good
      BY <1>1, <1>2, <1>3, BySize
<1> QED BY <1>4 DEF Good

\* The same of the operator of the library.
LEMMA SumCongruence ==
    ASSUME NEW S, IsFiniteSet(S), NEW f, NEW g, \A x \in S : f[x] = g[x]
    PROVE  SumFunctionOnSet(f, S) = SumFunctionOnSet(g, S)
BY SumAgrees, SumIs

\* An empty sum, and any element taken out of one that is not: the order of the
\* fold does not matter.
LEMMA SumEmpty == \A f : SumFunctionOnSet(f, {}) = 0
BY SumIs, SumStarts, FS_EmptySet

\* A sum of numbers is a number.
LEMMA AdderType ==
    ASSUME NEW S, IsFiniteSet(S), NEW f, \A x \in S : f[x] \in Int
    PROVE  \A s \in SUBSET S : /\ Adder(f, S)[s] \in Int
                               /\ (\A x \in S : f[x] \in Nat) => Adder(f, S)[s] \in Nat
<1> DEFINE Good == {s \in SUBSET S : /\ Adder(f, S)[s] \in Int
                                     /\ (\A x \in S : f[x] \in Nat) => Adder(f, S)[s] \in Nat}
<1>1. {} \in Good
  <2>1. {} \in SUBSET S /\ Adder(f, S)[{}] = 0
        BY SumStarts
  <2> QED BY <2>1
<1>2. ASSUME NEW s \in SUBSET S, s # {}, \A x \in s : s \ {x} \in Good PROVE s \in Good
  <2>1. Pick(s) \in s
        BY <1>2, Picked
  <2>2. Adder(f, S)[s] = f[Pick(s)] + Adder(f, S)[s \ {Pick(s)}]
        BY <1>2, SumStarts
  <2>3. s \ {Pick(s)} \in Good
        BY <1>2, <2>1
  <2> QED BY <2>1, <2>2, <2>3
<1> HIDE DEF Good
<1>3. SUBSET S \subseteq Good
      BY <1>1, <1>2, BySize
<1> QED BY <1>3 DEF Good

\* A sum of integers is an integer, and of naturals a natural.
LEMMA SumType ==
    ASSUME NEW S, IsFiniteSet(S), NEW f, \A x \in S : f[x] \in Int
    PROVE  /\ SumFunctionOnSet(f, S) \in Int
           /\ (\A x \in S : f[x] \in Nat) => SumFunctionOnSet(f, S) \in Nat
BY AdderType, SumIs

\* A sum is one summand and the sum of the others.
LEMMA SumRemove ==
    ASSUME NEW S, IsFiniteSet(S), NEW f, \A x \in S : f[x] \in Int, NEW a \in S
    PROVE  SumFunctionOnSet(f, S) = f[a] + SumFunctionOnSet(f, S \ {a})
<1> DEFINE A(s) == Adder(f, S)[s]
           Good == {s \in SUBSET S : \A x \in s : A(s) = f[x] + A(s \ {x})}
<1>0. \A s \in SUBSET S : A(s) = IF s = {} THEN 0 ELSE f[Pick(s)] + A(s \ {Pick(s)})
      BY SumStarts
<1>9. \A s \in SUBSET S : A(s) \in Int
      BY AdderType
<1> HIDE DEF A
<1>1. {} \in Good
      OBVIOUS
<1>2. ASSUME NEW s \in SUBSET S, s # {}, \A x \in s : s \ {x} \in Good PROVE s \in Good
  <2> DEFINE p == Pick(s)
  <2>1. p \in s
        BY <1>2, Picked
  <2>2. A(s) = f[p] + A(s \ {p})
        BY <1>0, <1>2
  <2> HIDE DEF p
  <2>4. ASSUME NEW x \in s, x # p PROVE A(s) = f[x] + A(s \ {x})
    <3>1. A(s \ {p}) = f[x] + A((s \ {p}) \ {x})
          BY <1>2, <2>1, <2>4
    <3>2. A(s \ {x}) = f[p] + A((s \ {x}) \ {p})
          BY <1>2, <2>1, <2>4
    <3>3. (s \ {p}) \ {x} = (s \ {x}) \ {p}
          OBVIOUS
    <3>4. A((s \ {x}) \ {p}) \in Int /\ f[x] \in Int /\ f[p] \in Int
          BY <1>2, <1>9, <2>1
    <3>5. A(s \ {p}) = f[x] + A((s \ {x}) \ {p})
          BY <3>1, <3>3
    <3>6. \A i, j, k \in Int : i + (j + k) = j + (i + k)
          OBVIOUS
    <3> HIDE DEF p
    <3>7. f[p] + (f[x] + A((s \ {x}) \ {p})) = f[x] + (f[p] + A((s \ {x}) \ {p}))
          BY <3>4, <3>6
    <3> QED BY <2>2, <3>2, <3>5, <3>7
  <2> QED BY <2>2, <2>4
<1> HIDE DEF Good
<1>3. S \in Good
  <2>1. SUBSET S \subseteq Good
        BY <1>1, <1>2, BySize
  <2> QED BY <2>1
<1>4. A(S) = f[a] + A(S \ {a})
      BY <1>3 DEF Good
<1>5. SumFunctionOnSet(f, S) = A(S)
      BY SumIs DEF A
<1>6. SumFunctionOnSet(f, S \ {a}) = A(S \ {a})
  <2>1. IsFiniteSet(S \ {a}) /\ S \ {a} \in SUBSET (S \cap (S \ {a}))
        BY FS_Subset
  <2>2. Adder(f, S)[S \ {a}] = Adder(f, S \ {a})[S \ {a}]
        BY <2>1, SumAgrees
  <2> QED BY <2>2, SumIs DEF A
<1> QED BY <1>4, <1>5, <1>6

\* Sums are those of the library.
LEMMA OFSums == \A f, S : OF!SumFunctionOnSet(f, S) = SumFunctionOnSet(f, S)
BY Zenon DEF SumFunctionOnSet, FoldFunctionOnSet, MapThenFoldSet, OF!SumFunctionOnSet,
   OF!FoldFunctionOnSet, OF!MapThenFoldSet

OFMoment ==
  \A o \in Parts \ raced' :
        account'[o] # account[o] =>
            LET charges == OF!Sum(o, "charge")
                advances == OF!Sum(o, "advance")
                paid == account'[o].status = "PAID" IN
            /\ account'[o].charges = charges
            /\ account'[o].advances = advances
            /\ paid => charges > 0 /\ advances >= charges
            /\ (charges > 0 /\ advances > charges) => paid
            /\ (charges > 0 /\ advances = charges
                  /\ OF!Hairs(o, "charge") \cup OF!Hairs(o, "advance") = {0}) => paid

(***************************************************************************)
(* The finance of operations.                                              *)
(***************************************************************************)

\* Two handlers of one operation are remembered.
OFAlone ==
    \A q, r \in Requests :
        request[q] # OF!Idle /\ request[r] # OF!Idle /\ request[q].on = request[r].on
            /\ request[q].on \notin raced => q = r

\* A charge or an advance about to be changed is one of the operation.
OFOf ==
    \A r \in Requests :
        request[r].pc \in {"update", "deactivate"} =>
            OF!Present(entry[request[r].c]) /\ entry[request[r].c].of = request[r].on

\* What was read is still so.
OFReads ==
    \A r \in Requests :
        LET q == request[r] IN
        q.on \notin raced =>
            /\ q.pc \in {"readAdvances", "writeAccount"} => q.charges = OF!Sum(q.on, "charge")
            /\ q.pc \in {"readCharges", "writeAccount"} => q.advances = OF!Sum(q.on, "advance")
            /\ q.pc = "readAdvances" => q.hairs = OF!Hairs(q.on, "charge")
            /\ q.pc = "readCharges" => q.hairs = OF!Hairs(q.on, "advance")
            /\ q.pc = "writeAccount" =>
                 q.hairs = OF!Hairs(q.on, "charge") \cup OF!Hairs(q.on, "advance")

OFInv == OF!TypeOK /\ OFAlone /\ OFOf /\ OFReads

OFGoes(r, h) == request'[r] = h /\ \A q \in Requests \ {r} : request'[q] = request[q]

\* There are no charges at first.
LEMMA OFStart == OF!Init => OFInv
<1> SUFFICES ASSUME OF!Init PROVE OFInv
    OBVIOUS
<1>1. OF!TypeOK
      BY MaxStartedAssumption DEF OF!Init, OF!HandlersInit, OF!TypeOK, OF!HandlersTypeOK
<1> QED BY <1>1 DEF OF!Init, OF!HandlersInit, OFInv, OFAlone, OFOf, OFReads, OF!Idle

\* A row that is there says what it is of, and how much it is.
LEMMA OFRows ==
    OF!TypeOK => \A c \in Rows \cup Others : OF!Present(entry[c]) =>
        /\ entry[c].of \in Parts /\ entry[c].amount \in Nat /\ entry[c].amount \in OF!RowAmounts
        /\ entry[c] \in OF!ChargeRow \cup OF!AdvanceRow
BY NumbersAssumption DEF OF!TypeOK, OF!ChargeRow, OF!AdvanceRow, OF!Present, OF!RowAmounts

\* Rows of charges and advances are present.
LEMMA OFPresent == \A x \in OF!ChargeRow \cup OF!AdvanceRow : OF!Present(x)
BY DEF OF!ChargeRow, OF!AdvanceRow, OF!Present, OF!Absent, OF!Gone

\* A handler is about an operation.
LEMMA OFOn ==
    OFInv => \A r \in Requests : request[r] # OF!Idle =>
        /\ request[r].on \in Parts
        /\ request[r].pc = "update" => request[r].c \in Rows \cup Others /\ request[r].amount \in OF!RowAmounts
                                           /\ request[r].status \in {"ACTIVE", "INACTIVE"}
        /\ request[r].pc = "deactivate" => request[r].c \in Rows \cup Others
        /\ request[r].pc = "insert" => request[r].kind \in OF!Kinds /\ request[r].amount \in OF!RowAmounts
<1> SUFFICES ASSUME OFInv, NEW r \in Requests, request[r] # OF!Idle
             PROVE  /\ request[r].on \in Parts
                    /\ request[r].pc = "update" => request[r].c \in Rows \cup Others /\ request[r].amount \in OF!RowAmounts
                                                       /\ request[r].status \in {"ACTIVE", "INACTIVE"}
                    /\ request[r].pc = "deactivate" => request[r].c \in Rows \cup Others
                    /\ request[r].pc = "insert" => request[r].kind \in OF!Kinds /\ request[r].amount \in OF!RowAmounts
    OBVIOUS
<1>1. request[r] \in OF!Running
      BY DEF OFInv, OF!TypeOK, OF!HandlersTypeOK
<1> QED BY <1>1 DEF OF!Running

\* The charges of an operation add up to a number, and so do its advances.
LEMMA OFSumOfRows == OF!TypeOK => \A o \in Parts, k \in OF!Kinds : OF!Sum(o, k) \in Nat
<1> SUFFICES ASSUME OF!TypeOK, NEW o \in Parts, NEW k \in OF!Kinds PROVE OF!Sum(o, k) \in Nat
    OBVIOUS
<1> DEFINE counted == {c \in Rows \cup Others : /\ OF!Present(entry[c])
                                    /\ entry[c].of = o /\ entry[c].kind = k
                                    /\ entry[c].status = "ACTIVE"}
           amount == [c \in counted |-> entry[c].amount]
<1>1. IsFiniteSet(counted)
      BY FiniteAssumption, FS_Subset, FS_Union
<1>2. \A c \in counted : amount[c] \in Nat
      BY OFRows
<1>3. OF!Sum(o, k) = SumFunctionOnSet(amount, counted)
      BY OFSums DEF OF!Sum, OF!Active
<1> HIDE DEF counted, amount
<1> QED BY <1>1, <1>2, <1>3, SumType

\* A sum is off by a hair at most.
LEMMA OFHairs == \A i, k : OF!Hairs(i, k) \subseteq OF!Error
BY DEF OF!Hairs, OF!Error

\* The sums of an operation are as they were, and how far they can be off.
OFKept(o) ==
    /\ OF!Sum(o, "charge")' = OF!Sum(o, "charge") /\ OF!Sum(o, "advance")' = OF!Sum(o, "advance")
    /\ OF!Hairs(o, "charge")' = OF!Hairs(o, "charge")
    /\ OF!Hairs(o, "advance")' = OF!Hairs(o, "advance")

\* What is not of the operation adds nothing to it.
LEMMA OFSame ==
    ASSUME NEW p \in Parts,
           \A c \in Rows \cup Others :
               \/ entry'[c] = entry[c]
               \/ /\ OF!Present(entry[c]) => entry[c].of # p
                  /\ OF!Present(entry'[c]) => entry'[c].of # p
    PROVE  OFKept(p)
<1> DEFINE counted(k) == {c \in Rows \cup Others : /\ OF!Present(entry[c])
                                        /\ entry[c].of = p /\ entry[c].kind = k
                                        /\ entry[c].status = "ACTIVE"}
           countedNext(k) == {c \in Rows \cup Others : /\ OF!Present(entry'[c])
                                        /\ entry'[c].of = p /\ entry'[c].kind = k
                                        /\ entry'[c].status = "ACTIVE"}
<1>1. \A k \in OF!Kinds : countedNext(k) = counted(k) /\ \A c \in counted(k) : entry'[c] = entry[c]
      BY DEF OF!Present
<1>2. \A k \in OF!Kinds :
          [c \in countedNext(k) |-> entry'[c].amount] = [c \in counted(k) |-> entry[c].amount]
  <2> HIDE DEF counted, countedNext
  <2> QED BY <1>1
<1>3. ASSUME NEW k \in OF!Kinds
      PROVE  OF!Sum(p, k)' = OF!Sum(p, k) /\ OF!Hairs(p, k)' = OF!Hairs(p, k)
  <2>1. OF!Sum(p, k)' = SumFunctionOnSet([c \in countedNext(k) |-> entry'[c].amount], countedNext(k))
        BY OFSums DEF OF!Sum, OF!Active, OF!Present
  <2>2. OF!Sum(p, k) = SumFunctionOnSet([c \in counted(k) |-> entry[c].amount], counted(k))
        BY OFSums DEF OF!Sum, OF!Active
  <2>3. OF!Hairs(p, k)' = IF OF!Cardinality(countedNext(k)) <= 1 THEN {0} ELSE OF!Error
        BY DEF OF!Hairs, OF!Active, OF!Present, OF!Error
  <2>4. OF!Hairs(p, k) = IF OF!Cardinality(counted(k)) <= 1 THEN {0} ELSE OF!Error
        BY DEF OF!Hairs, OF!Active
  <2>5. countedNext(k) = counted(k)
        BY <1>1
  <2> HIDE DEF counted, countedNext
  <2> QED BY <1>2, <2>1, <2>2, <2>3, <2>4, <2>5
<1> QED BY <1>3 DEF OF!Kinds, OFKept

\* A row of the operation changes, or is new, and no other.
OFChanged(r) ==
    /\ request[r] # OF!Idle /\ request[r].on \in Parts
    /\ OFGoes(r, OF!Idle) /\ UNCHANGED <<account, raced, started>>
    /\ entry' \in [Rows \cup Others -> OF!ChargeRow \cup OF!AdvanceRow \cup {OF!Absent}]
    /\ \E c \in Rows \cup Others :
        /\ OF!Present(entry'[c]) /\ entry'[c].of = request[r].on
        /\ OF!Present(entry[c]) => entry[c].of = request[r].on
        /\ \A d \in (Rows \cup Others) \ {c} : entry'[d] = entry[d]
    /\ \A c \in Rows \cup Others :
        \/ entry'[c] = entry[c]
        \/ /\ OF!Present(entry[c]) => entry[c].of = request[r].on
           /\ OF!Present(entry'[c]) /\ entry'[c].of = request[r].on

\* Inserts, updates and deletions change one row of the operation.
LEMMA OFChange ==
    ASSUME OFInv, NEW r \in Requests, (\E c \in Rows \cup Others : OF!Insert(r, c)) \/ OF!Update(r) \/ OF!Deactivate(r)
    PROVE  OFChanged(r)
<1>1. request[r] # OF!Idle /\ OFGoes(r, OF!Idle) /\ UNCHANGED <<account, raced, started>>
      BY DEF OF!Insert, OF!Update, OF!Deactivate, OF!At, OF!Idle, OF!Finish, OF!Goto, OFGoes,
         OFInv, OF!TypeOK, OF!HandlersTypeOK
<1>2. ASSUME NEW c \in Rows \cup Others, NEW row \in OF!ChargeRow \cup OF!AdvanceRow, row.of = request[r].on,
             OF!Present(entry[c]) => entry[c].of = request[r].on, entry' = [entry EXCEPT ![c] = row]
      PROVE  OFChanged(r)
  <2>1. OF!Present(row)
        BY OFPresent
  <2>2. entry'[c] = row /\ \A d \in (Rows \cup Others) \ {c} : entry'[d] = entry[d]
        BY <1>2 DEF OFInv, OF!TypeOK
  <2>3. entry' \in [Rows \cup Others -> OF!ChargeRow \cup OF!AdvanceRow \cup {OF!Absent}]
        BY <1>2 DEF OFInv, OF!TypeOK
  <2> QED BY <1>1, <1>2, <2>1, <2>2, <2>3, OFOn DEF OFChanged
<1>3. ASSUME NEW c \in Rows \cup Others, OF!Insert(r, c) PROVE OFChanged(r)
  <2> DEFINE row == [kind |-> request[r].kind, of |-> request[r].on, amount |-> request[r].amount,
                     status |-> "ACTIVE"]
  <2>1. row \in OF!ChargeRow \cup OF!AdvanceRow /\ row.of = request[r].on
        BY <1>1, <1>3, OFOn DEF OF!Insert, OF!At, OF!ChargeRow, OF!AdvanceRow, OF!Kinds
  <2>2. entry' = [entry EXCEPT ![c] = row] /\ ~OF!Present(entry[c])
        BY <1>3 DEF OF!Insert, OF!Present
  <2> HIDE DEF row
  <2> QED BY <1>2, <2>1, <2>2
<1>4. ASSUME OF!Update(r) PROVE OFChanged(r)
  <2> DEFINE c == request[r].c
             row == [entry[c] EXCEPT !.amount = request[r].amount, !.status = request[r].status]
  <2>1. c \in Rows \cup Others /\ OF!Present(entry[c]) /\ entry[c].of = request[r].on
            /\ entry[c] \in OF!ChargeRow \cup OF!AdvanceRow
        BY <1>1, <1>4, OFOn, OFRows DEF OF!Update, OF!At, OFInv, OFOf
  <2>2. row \in OF!ChargeRow \cup OF!AdvanceRow /\ row.of = request[r].on
        BY <1>1, <1>4, <2>1, OFOn DEF OF!Update, OF!At, OF!ChargeRow, OF!AdvanceRow
  <2>3. entry' = [entry EXCEPT ![c] = row]
        BY <1>4, <2>1 DEF OF!Update, OFInv, OF!TypeOK
  <2> HIDE DEF row
  <2> QED BY <1>2, <2>1, <2>2, <2>3
<1>5. ASSUME OF!Deactivate(r) PROVE OFChanged(r)
  <2> DEFINE c == request[r].c
             row == [entry[c] EXCEPT !.status = "INACTIVE"]
  <2>1. c \in Rows \cup Others /\ OF!Present(entry[c]) /\ entry[c].of = request[r].on
            /\ entry[c] \in OF!ChargeRow \cup OF!AdvanceRow
        BY <1>1, <1>5, OFOn, OFRows DEF OF!Deactivate, OF!At, OFInv, OFOf
  <2>2. row \in OF!ChargeRow \cup OF!AdvanceRow /\ row.of = request[r].on
        BY <2>1 DEF OF!ChargeRow, OF!AdvanceRow
  <2>3. entry' = [entry EXCEPT ![c] = row]
        BY <1>5, <2>1 DEF OF!Deactivate, OFInv, OF!TypeOK
  <2> HIDE DEF row
  <2> QED BY <1>2, <2>1, <2>2, <2>3
<1> QED BY <1>3, <1>4, <1>5

\* Every step keeps the types.
LEMMA OFTypeStep ==
    ASSUME OFInv, [OF!Next]_OF!vars
    PROVE  OF!TypeOK'
<1> USE MaxStartedAssumption DEF OF!TypeOK, OF!HandlersTypeOK, OF!Kinds, OF!RowAmounts, OF!Sums,
        OF!FinancialStatuses, OF!ChargeRow, OF!AdvanceRow, OF!Account, OF!Running,
            OF!finance, OF!Present, OF!At, OF!Start, OF!Once, OF!Goto, OF!Finish, OF!Absent,
            OF!Gone, OF!Idle,
            OFInv
<1>1. ASSUME NEW r \in Requests, NEW o \in Parts, NEW n \in OF!RowAmounts, OF!BeginCreateCharge(r, o, n)
      PROVE  OF!TypeOK'
      BY <1>1 DEF OF!BeginCreateCharge
<1>2. ASSUME NEW r \in Requests, NEW o \in Parts, NEW n \in OF!RowAmounts, OF!BeginCreateAdvance(r, o, n)
      PROVE  OF!TypeOK'
      BY <1>2 DEF OF!BeginCreateAdvance
<1>3. ASSUME NEW r \in Requests, NEW o \in Parts, OF!BeginGenerate(r, o)
      PROVE  OF!TypeOK'
      BY <1>3 DEF OF!BeginGenerate
<1>4. ASSUME NEW r \in Requests, NEW c \in Rows \cup Others, NEW n \in OF!RowAmounts, NEW s \in {"ACTIVE",
             "INACTIVE"}, OF!BeginUpdate(r, c, n, s)
      PROVE  OF!TypeOK'
      BY <1>4 DEF OF!BeginUpdate
<1>5. ASSUME NEW r \in Requests, NEW c \in Rows \cup Others, OF!BeginDeactivate(r, c)
      PROVE  OF!TypeOK'
      BY <1>5 DEF OF!BeginDeactivate
<1>6. ASSUME NEW r \in Requests, NEW c \in Rows \cup Others, OF!Insert(r, c)
      PROVE  OF!TypeOK'
  <2> HIDE DEF OF!TypeOK, OF!HandlersTypeOK, OF!Kinds, OF!RowAmounts, OF!Sums,
           OF!FinancialStatuses, OF!ChargeRow, OF!AdvanceRow, OF!Account, OF!Running,
               OF!finance, OF!Present, OF!At, OF!Start, OF!Once, OF!Goto, OF!Finish, OF!Absent,
               OF!Gone, OF!Idle
  <2>1. OFChanged(r)
        BY <1>6, OFChange
  <2> QED BY <1>6, <2>1 DEF OF!Insert, OF!Goto, OF!Finish, OFChanged, OF!TypeOK,
             OF!HandlersTypeOK, OFInv
<1>7. ASSUME NEW r \in Requests, OF!Update(r)
      PROVE  OF!TypeOK'
  <2> HIDE DEF OF!TypeOK, OF!HandlersTypeOK, OF!Kinds, OF!RowAmounts, OF!Sums,
           OF!FinancialStatuses, OF!ChargeRow, OF!AdvanceRow, OF!Account, OF!Running,
               OF!finance, OF!Present, OF!At, OF!Start, OF!Once, OF!Goto, OF!Finish, OF!Absent,
               OF!Gone, OF!Idle
  <2>1. OFChanged(r)
        BY <1>7, OFChange
  <2> QED BY <1>7, <2>1 DEF OF!Update, OF!Goto, OF!Finish, OFChanged, OF!TypeOK,
             OF!HandlersTypeOK, OFInv
<1>8. ASSUME NEW r \in Requests, OF!Deactivate(r)
      PROVE  OF!TypeOK'
  <2> HIDE DEF OF!TypeOK, OF!HandlersTypeOK, OF!Kinds, OF!RowAmounts, OF!Sums,
           OF!FinancialStatuses, OF!ChargeRow, OF!AdvanceRow, OF!Account, OF!Running,
               OF!finance, OF!Present, OF!At, OF!Start, OF!Once, OF!Goto, OF!Finish, OF!Absent,
               OF!Gone, OF!Idle
  <2>1. OFChanged(r)
        BY <1>8, OFChange
  <2> QED BY <1>8, <2>1 DEF OF!Deactivate, OF!Goto, OF!Finish, OFChanged, OF!TypeOK,
             OF!HandlersTypeOK, OFInv
<1>9. ASSUME NEW r \in Requests, OF!ReadCharges(r)
      PROVE  OF!TypeOK'
  <2> HIDE DEF OF!TypeOK, OF!HandlersTypeOK, OF!Kinds, OF!RowAmounts, OF!Sums,
           OF!FinancialStatuses, OF!ChargeRow, OF!AdvanceRow, OF!Account, OF!Running,
               OF!finance, OF!Present, OF!At, OF!Start, OF!Once, OF!Goto, OF!Finish, OF!Absent,
               OF!Gone, OF!Idle
  <2> DEFINE sum == OF!Sum(request[r].on, "charge")
             hairs == OF!Hairs(request[r].on, "charge")
  <2>1. request[r] # OF!Idle
        BY <1>9 DEF OF!ReadCharges, OF!Idle
  <2>2. sum \in Nat
        BY <2>1, OFOn, OFSumOfRows DEF OFInv, OF!Kinds
  <2>0. hairs \in SUBSET OF!Error
        BY OFHairs
  <2> HIDE DEF sum, hairs
  <2>3. /\ [pc |-> "readAdvances", on |-> request[r].on, charges |-> sum, hairs |-> hairs] \in OF!Running
        /\ request[r].pc = "readCharges" =>
              [pc |-> "writeAccount", on |-> request[r].on, charges |-> sum, advances |-> request[r].advances,
               hairs |-> hairs \cup request[r].hairs] \in OF!Running
    <3>1. request[r] \in OF!Running
          BY <2>1 DEF OFInv, OF!TypeOK, OF!HandlersTypeOK
    <3> QED BY <2>0, <2>2, <3>1 DEF OF!Running, OF!Sums
  <2> QED BY <1>9, <2>3 DEF OF!ReadCharges, OF!Goto, OF!finance, sum, hairs, OF!TypeOK,
             OF!HandlersTypeOK, OFInv
<1>10. ASSUME NEW r \in Requests, OF!ReadAdvances(r)
      PROVE  OF!TypeOK'
  <2> HIDE DEF OF!TypeOK, OF!HandlersTypeOK, OF!Kinds, OF!RowAmounts, OF!Sums,
           OF!FinancialStatuses, OF!ChargeRow, OF!AdvanceRow, OF!Account, OF!Running,
               OF!finance, OF!Present, OF!At, OF!Start, OF!Once, OF!Goto, OF!Finish, OF!Absent,
               OF!Gone, OF!Idle
  <2> DEFINE sum == OF!Sum(request[r].on, "advance")
             hairs == OF!Hairs(request[r].on, "advance")
  <2>1. request[r] # OF!Idle
        BY <1>10 DEF OF!ReadAdvances, OF!Idle
  <2>2. sum \in Nat
        BY <2>1, OFOn, OFSumOfRows DEF OFInv, OF!Kinds
  <2>0. hairs \in SUBSET OF!Error
        BY OFHairs
  <2> HIDE DEF sum, hairs
  <2>3. /\ [pc |-> "readCharges", on |-> request[r].on, advances |-> sum, hairs |-> hairs] \in OF!Running
        /\ request[r].pc = "readAdvances" =>
              [pc |-> "writeAccount", on |-> request[r].on, charges |-> request[r].charges, advances |-> sum,
               hairs |-> request[r].hairs \cup hairs] \in OF!Running
    <3>1. request[r] \in OF!Running
          BY <2>1 DEF OFInv, OF!TypeOK, OF!HandlersTypeOK
    <3> QED BY <2>0, <2>2, <3>1 DEF OF!Running, OF!Sums
  <2> QED BY <1>10, <2>3 DEF OF!ReadAdvances, OF!Goto, OF!finance, sum, hairs, OF!TypeOK,
             OF!HandlersTypeOK, OFInv
<1>11. ASSUME NEW r \in Requests, OF!WriteAccount(r)
      PROVE  OF!TypeOK'
  <2> HIDE DEF OF!TypeOK, OF!HandlersTypeOK, OF!Kinds, OF!RowAmounts, OF!Sums,
           OF!FinancialStatuses, OF!ChargeRow, OF!AdvanceRow, OF!Account, OF!Running,
               OF!finance, OF!Present, OF!At, OF!Start, OF!Once, OF!Goto, OF!Finish, OF!Absent,
               OF!Gone, OF!Idle
  <2>1. request[r] \in [pc : {"writeAccount"}, on : Parts, charges : OF!Sums, advances : OF!Sums,
                        hairs : SUBSET OF!Error]
        BY <1>11 DEF OF!WriteAccount, OF!At, OF!Idle, OFInv, OF!TypeOK, OF!HandlersTypeOK,
           OF!Running
  <2>2. PICK hair \in request[r].hairs :
          account' = [account EXCEPT ![request[r].on] =
                        [charges |-> request[r].charges, advances |-> request[r].advances,
                         status |-> OF!FinancialStatus(request[r].charges, request[r].advances, hair)]]
        BY <1>11 DEF OF!WriteAccount
  <2> DEFINE row == [charges |-> request[r].charges, advances |-> request[r].advances,
                     status |-> OF!FinancialStatus(request[r].charges, request[r].advances, hair)]
  <2>3. OF!FinancialStatus(request[r].charges, request[r].advances, hair) \in OF!FinancialStatuses
        BY <2>1 DEF OF!FinancialStatus, OF!FinancialStatuses, OF!Sums
  <2>4. row \in OF!Account
        BY <2>1, <2>3 DEF OF!Account
  <2>5. account' = [account EXCEPT ![request[r].on] = row]
        BY <2>2
  <2> HIDE DEF row
  <2> QED BY <1>11, <2>1, <2>4, <2>5 DEF OF!WriteAccount, OF!Goto, OF!Finish, OF!TypeOK,
             OF!HandlersTypeOK, OFInv
<1>12. ASSUME NEW r \in Requests, OF!Abort(r)
      PROVE  OF!TypeOK'
      BY <1>12 DEF OF!Abort, OF!Stop
<1>13. CASE UNCHANGED OF!vars
      BY <1>13 DEF OF!vars
<1> HIDE DEF OF!TypeOK, OF!HandlersTypeOK, OF!Kinds, OF!RowAmounts, OF!Sums, OF!FinancialStatuses,
         OF!ChargeRow, OF!AdvanceRow, OF!Account, OF!Running,
             OF!finance, OF!Present, OF!At, OF!Start, OF!Once, OF!Goto, OF!Finish, OF!Absent,
             OF!Gone, OF!Idle,
             OFInv
<1> QED BY <1>1, <1>2, <1>3, <1>4, <1>5, <1>6, <1>7, <1>8, <1>9, <1>10, <1>11, <1>12,
           <1>13 DEF OF!Next

\* Every step keeps what was read as it is.
LEMMA OFRestStep ==
    ASSUME OFInv, [OF!Next]_OF!vars
    PROVE  OFAlone' /\ OFOf' /\ OFReads'
<1> USE DEF OF!TypeOK, OF!HandlersTypeOK, OF!Kinds, OF!RowAmounts, OF!Sums, OF!FinancialStatuses,
        OF!ChargeRow, OF!AdvanceRow, OF!Account, OF!Running,
            OF!finance, OF!Present, OF!At, OF!Start, OF!Once, OF!Goto, OF!Finish, OF!Absent,
            OF!Gone, OF!Idle,
            OFInv, OFAlone, OFOf, OFReads, OF!Handled
<1>1. ASSUME NEW r \in Requests, NEW o \in Parts, NEW n \in OF!RowAmounts, OF!BeginCreateCharge(r, o, n)
      PROVE  OFAlone' /\ OFOf' /\ OFReads'
  <2>1. OFAlone' /\ OFOf'
        BY <1>1 DEF OF!BeginCreateCharge
  <2>2. \A p \in Parts : OFKept(p)
        BY <1>1 DEF OF!BeginCreateCharge, OF!Sum, OF!Hairs, OF!Active, OFKept
  <2>3. OFReads'
        BY <1>1, <2>2 DEF OFKept, OF!BeginCreateCharge
  <2> QED BY <2>1, <2>3
<1>2. ASSUME NEW r \in Requests, NEW o \in Parts, NEW n \in OF!RowAmounts, OF!BeginCreateAdvance(r, o, n)
      PROVE  OFAlone' /\ OFOf' /\ OFReads'
  <2>1. OFAlone' /\ OFOf'
        BY <1>2 DEF OF!BeginCreateAdvance
  <2>2. \A p \in Parts : OFKept(p)
        BY <1>2 DEF OF!BeginCreateAdvance, OF!Sum, OF!Hairs, OF!Active, OFKept
  <2>3. OFReads'
        BY <1>2, <2>2 DEF OFKept, OF!BeginCreateAdvance
  <2> QED BY <2>1, <2>3
<1>3. ASSUME NEW r \in Requests, NEW o \in Parts, OF!BeginGenerate(r, o)
      PROVE  OFAlone' /\ OFOf' /\ OFReads'
  <2>1. OFAlone' /\ OFOf'
        BY <1>3 DEF OF!BeginGenerate
  <2>2. \A p \in Parts : OFKept(p)
        BY <1>3 DEF OF!BeginGenerate, OF!Sum, OF!Hairs, OF!Active, OFKept
  <2>3. OFReads'
        BY <1>3, <2>2 DEF OFKept, OF!BeginGenerate
  <2> QED BY <2>1, <2>3
<1>4. ASSUME NEW r \in Requests, NEW c \in Rows \cup Others, NEW n \in OF!RowAmounts, NEW s \in {"ACTIVE",
             "INACTIVE"}, OF!BeginUpdate(r, c, n, s)
      PROVE  OFAlone' /\ OFOf' /\ OFReads'
  <2>1. OFAlone' /\ OFOf'
        BY <1>4 DEF OF!BeginUpdate
  <2>2. \A p \in Parts : OFKept(p)
        BY <1>4 DEF OF!BeginUpdate, OF!Sum, OF!Hairs, OF!Active, OFKept
  <2>3. OFReads'
        BY <1>4, <2>2 DEF OFKept, OF!BeginUpdate
  <2> QED BY <2>1, <2>3
<1>5. ASSUME NEW r \in Requests, NEW c \in Rows \cup Others, OF!BeginDeactivate(r, c)
      PROVE  OFAlone' /\ OFOf' /\ OFReads'
  <2>1. OFAlone' /\ OFOf'
        BY <1>5 DEF OF!BeginDeactivate
  <2>2. \A p \in Parts : OFKept(p)
        BY <1>5 DEF OF!BeginDeactivate, OF!Sum, OF!Hairs, OF!Active, OFKept
  <2>3. OFReads'
        BY <1>5, <2>2 DEF OFKept, OF!BeginDeactivate
  <2> QED BY <2>1, <2>3
<1>6. ASSUME NEW r \in Requests, NEW c \in Rows \cup Others, OF!Insert(r, c)
      PROVE  OFAlone' /\ OFOf' /\ OFReads'
  <2> HIDE DEF OF!TypeOK, OF!HandlersTypeOK, OF!Kinds, OF!RowAmounts, OF!Sums,
           OF!FinancialStatuses, OF!ChargeRow, OF!AdvanceRow, OF!Account, OF!Running,
               OF!finance, OF!Present, OF!At, OF!Start, OF!Once, OF!Goto, OF!Finish, OF!Absent,
               OF!Gone, OF!Idle,
               OFAlone, OFOf, OFReads, OF!Handled
  <2>1. OFChanged(r)
        BY <1>6, OFChange DEF OFChange
  <2>2. OFAlone'
        BY <2>1, OFOn DEF OFChanged, OFGoes, OFInv, OFAlone, OF!Idle, OF!At
  <2>3. OFOf'
        BY <2>1, OFOn DEF OFChanged, OFGoes, OFInv, OFOf, OF!Idle, OF!At
  <2>4. OFReads'
    <3>1. \A p \in Parts : p # request[r].on => OFKept(p)
          BY <2>1, OFSame DEF OFChanged
    <3>2. \A q \in Requests : q # r /\ request[q] # OF!Idle /\ request[q].on \notin raced => request[q].on # request[r].on
          BY <2>1 DEF OFChanged, OFInv, OFAlone
    <3>3. request[r] # OF!Idle /\ raced' = raced /\ request'[r] = OF!Idle /\ \A q \in Requests \ {r} : request'[q] = request[q]
          BY <2>1 DEF OFChanged, OFGoes
    <3>4. \A q \in Requests : request[q] # OF!Idle => request[q].on \in Parts
          BY OFOn
    <3> QED BY <3>1, <3>2, <3>3, <3>4 DEF OFInv, OFReads, OFKept, OF!Idle
  <2> QED BY <2>2, <2>3, <2>4
<1>7. ASSUME NEW r \in Requests, OF!Update(r)
      PROVE  OFAlone' /\ OFOf' /\ OFReads'
  <2> HIDE DEF OF!TypeOK, OF!HandlersTypeOK, OF!Kinds, OF!RowAmounts, OF!Sums,
           OF!FinancialStatuses, OF!ChargeRow, OF!AdvanceRow, OF!Account, OF!Running,
               OF!finance, OF!Present, OF!At, OF!Start, OF!Once, OF!Goto, OF!Finish, OF!Absent,
               OF!Gone, OF!Idle,
               OFAlone, OFOf, OFReads, OF!Handled
  <2>1. OFChanged(r)
        BY <1>7, OFChange DEF OFChange
  <2>2. OFAlone'
        BY <2>1, OFOn DEF OFChanged, OFGoes, OFInv, OFAlone, OF!Idle, OF!At
  <2>3. OFOf'
        BY <2>1, OFOn DEF OFChanged, OFGoes, OFInv, OFOf, OF!Idle, OF!At
  <2>4. OFReads'
    <3>1. \A p \in Parts : p # request[r].on => OFKept(p)
          BY <2>1, OFSame DEF OFChanged
    <3>2. \A q \in Requests : q # r /\ request[q] # OF!Idle /\ request[q].on \notin raced => request[q].on # request[r].on
          BY <2>1 DEF OFChanged, OFInv, OFAlone
    <3>3. request[r] # OF!Idle /\ raced' = raced /\ request'[r] = OF!Idle /\ \A q \in Requests \ {r} : request'[q] = request[q]
          BY <2>1 DEF OFChanged, OFGoes
    <3>4. \A q \in Requests : request[q] # OF!Idle => request[q].on \in Parts
          BY OFOn
    <3> QED BY <3>1, <3>2, <3>3, <3>4 DEF OFInv, OFReads, OFKept, OF!Idle
  <2> QED BY <2>2, <2>3, <2>4
<1>8. ASSUME NEW r \in Requests, OF!Deactivate(r)
      PROVE  OFAlone' /\ OFOf' /\ OFReads'
  <2> HIDE DEF OF!TypeOK, OF!HandlersTypeOK, OF!Kinds, OF!RowAmounts, OF!Sums,
           OF!FinancialStatuses, OF!ChargeRow, OF!AdvanceRow, OF!Account, OF!Running,
               OF!finance, OF!Present, OF!At, OF!Start, OF!Once, OF!Goto, OF!Finish, OF!Absent,
               OF!Gone, OF!Idle,
               OFAlone, OFOf, OFReads, OF!Handled
  <2>1. OFChanged(r)
        BY <1>8, OFChange DEF OFChange
  <2>2. OFAlone'
        BY <2>1, OFOn DEF OFChanged, OFGoes, OFInv, OFAlone, OF!Idle, OF!At
  <2>3. OFOf'
        BY <2>1, OFOn DEF OFChanged, OFGoes, OFInv, OFOf, OF!Idle, OF!At
  <2>4. OFReads'
    <3>1. \A p \in Parts : p # request[r].on => OFKept(p)
          BY <2>1, OFSame DEF OFChanged
    <3>2. \A q \in Requests : q # r /\ request[q] # OF!Idle /\ request[q].on \notin raced => request[q].on # request[r].on
          BY <2>1 DEF OFChanged, OFInv, OFAlone
    <3>3. request[r] # OF!Idle /\ raced' = raced /\ request'[r] = OF!Idle /\ \A q \in Requests \ {r} : request'[q] = request[q]
          BY <2>1 DEF OFChanged, OFGoes
    <3>4. \A q \in Requests : request[q] # OF!Idle => request[q].on \in Parts
          BY OFOn
    <3> QED BY <3>1, <3>2, <3>3, <3>4 DEF OFInv, OFReads, OFKept, OF!Idle
  <2> QED BY <2>2, <2>3, <2>4
<1>9. ASSUME NEW r \in Requests, OF!ReadCharges(r)
      PROVE  OFAlone' /\ OFOf' /\ OFReads'
  <2>1. OFAlone' /\ OFOf'
        BY <1>9 DEF OF!ReadCharges
  <2>2. \A p \in Parts : OFKept(p)
        BY <1>9 DEF OF!ReadCharges, OF!Sum, OF!Hairs, OF!Active, OFKept
  <2>3. OFReads'
        BY <1>9, <2>2 DEF OFKept, OF!ReadCharges
  <2> QED BY <2>1, <2>3
<1>10. ASSUME NEW r \in Requests, OF!ReadAdvances(r)
      PROVE  OFAlone' /\ OFOf' /\ OFReads'
  <2>1. OFAlone' /\ OFOf'
        BY <1>10 DEF OF!ReadAdvances
  <2>2. \A p \in Parts : OFKept(p)
        BY <1>10 DEF OF!ReadAdvances, OF!Sum, OF!Hairs, OF!Active, OFKept
  <2>3. OFReads'
        BY <1>10, <2>2 DEF OFKept, OF!ReadAdvances
  <2> QED BY <2>1, <2>3
<1>11. ASSUME NEW r \in Requests, OF!WriteAccount(r)
      PROVE  OFAlone' /\ OFOf' /\ OFReads'
  <2>1. OFAlone' /\ OFOf'
        BY <1>11 DEF OF!WriteAccount
  <2>2. \A p \in Parts : OFKept(p)
        BY <1>11 DEF OF!WriteAccount, OF!Sum, OF!Hairs, OF!Active, OFKept
  <2>3. OFReads'
        BY <1>11, <2>2 DEF OFKept, OF!WriteAccount
  <2> QED BY <2>1, <2>3
<1>12. ASSUME NEW r \in Requests, OF!Abort(r)
      PROVE  OFAlone' /\ OFOf' /\ OFReads'
  <2>1. OFAlone' /\ OFOf'
        BY <1>12 DEF OF!Abort, OF!Stop
  <2>2. \A p \in Parts : OFKept(p)
        BY <1>12 DEF OF!Abort, OF!Stop, OF!Sum, OF!Hairs, OF!Active, OFKept
  <2>3. OFReads'
        BY <1>12, <2>2 DEF OFKept, OF!Abort, OF!Stop
  <2> QED BY <2>1, <2>3
<1>13. CASE UNCHANGED OF!vars
  <2>1. OFAlone' /\ OFOf'
        BY <1>13 DEF OF!vars
  <2>2. \A p \in Parts : OFKept(p)
        BY <1>13 DEF OF!vars, OF!Sum, OF!Hairs, OF!Active, OFKept
  <2>3. OFReads'
        BY <1>13, <2>2 DEF OFKept, OF!vars
  <2> QED BY <2>1, <2>3
<1> HIDE DEF OF!TypeOK, OF!HandlersTypeOK, OF!Kinds, OF!RowAmounts, OF!Sums, OF!FinancialStatuses,
         OF!ChargeRow, OF!AdvanceRow, OF!Account, OF!Running,
             OF!finance, OF!Present, OF!At, OF!Start, OF!Once, OF!Goto, OF!Finish, OF!Absent,
             OF!Gone, OF!Idle,
             OFInv, OFAlone, OFOf, OFReads, OF!Handled
<1> QED BY <1>1, <1>2, <1>3, <1>4, <1>5, <1>6, <1>7, <1>8, <1>9, <1>10, <1>11, <1>12,
           <1>13 DEF OF!Next

\* What is written is what is charged and advanced.
LEMMA OFMomentStep ==
    ASSUME OFInv, [OF!Next]_OF!vars
    PROVE  OFMoment
<1> SUFFICES ASSUME NEW o \in Parts \ raced', account'[o] # account[o]
             PROVE  LET charges == OF!Sum(o, "charge")
                        advances == OF!Sum(o, "advance")
                        paid == account'[o].status = "PAID" IN
                    /\ account'[o].charges = charges
                    /\ account'[o].advances = advances
                    /\ paid => charges > 0 /\ advances >= charges
                    /\ (charges > 0 /\ advances > charges) => paid
                    /\ (charges > 0 /\ advances = charges
                          /\ OF!Hairs(o, "charge") \cup OF!Hairs(o, "advance") = {0}) => paid
    BY DEF OFMoment
<1>1. PICK r \in Requests : OF!WriteAccount(r) /\ request[r].on = o
  <2>1. account' = account \/ \E r \in Requests : OF!WriteAccount(r)
        BY DEF OF!Next, OF!vars, OF!finance, OF!BeginCreateCharge, OF!BeginCreateAdvance,
           OF!BeginGenerate, OF!BeginUpdate, OF!BeginDeactivate,
               OF!Insert, OF!Update, OF!Deactivate, OF!ReadCharges, OF!ReadAdvances, OF!Abort
  <2>2. ASSUME NEW r \in Requests, OF!WriteAccount(r) PROVE request[r].on = o
        BY <2>2 DEF OF!WriteAccount, OFInv, OF!TypeOK
  <2> QED BY <2>1, <2>2
<1> DEFINE a == request[r].charges
           b == request[r].advances
<1>2. /\ a = OF!Sum(o, "charge") /\ b = OF!Sum(o, "advance")
      /\ request[r].hairs = OF!Hairs(o, "charge") \cup OF!Hairs(o, "advance")
      BY <1>1 DEF OF!WriteAccount, OF!Finish, OF!Goto, OF!At, OFInv, OFReads
<1>3. a \in Nat /\ b \in Nat
      BY <1>2, OFSumOfRows DEF OFInv, OF!Kinds
<1>4. PICK hair \in request[r].hairs :
        account'[o] = [charges |-> a, advances |-> b, status |-> OF!FinancialStatus(a, b, hair)]
      BY <1>1 DEF OF!WriteAccount, OFInv, OF!TypeOK
<1>5. hair \in {-1, 0, 1}
      BY <1>2, OFHairs DEF OF!Error
<1>6. OF!FinancialStatus(a, b, hair) = "PAID" <=> a > 0 /\ (b > a \/ (b = a /\ hair <= 0))
      BY <1>3, <1>5 DEF OF!FinancialStatus, OF!Covered
<1>7. OF!Hairs(o, "charge") \cup OF!Hairs(o, "advance") = {0} => hair = 0
      BY <1>2
<1> HIDE DEF a, b
<1>8. /\ OF!FinancialStatus(a, b, hair) = "PAID" => a > 0 /\ b >= a
      /\ (a > 0 /\ b > a) => OF!FinancialStatus(a, b, hair) = "PAID"
      /\ (a > 0 /\ b = a /\ hair = 0) => OF!FinancialStatus(a, b, hair) = "PAID"
      BY <1>3, <1>5, <1>6
<1> QED BY <1>2, <1>4, <1>7, <1>8

\* Every step keeps the invariant.
LEMMA OFInvStep == ASSUME OFInv, [OF!Next]_OF!vars PROVE OFInv'
BY OFTypeStep, OFRestStep DEF OFInv

\* The number of elements is that of the library.
LEMMA CACardinality == \A S : CA!Cardinality(S) = Cardinality(S)
BY Zenon DEF Cardinality, CA!Cardinality

\* Sums are those of the library.
LEMMA CASums == \A f, S : CA!SumFunctionOnSet(f, S) = SumFunctionOnSet(f, S)
BY Zenon DEF SumFunctionOnSet, FoldFunctionOnSet, MapThenFoldSet, CA!SumFunctionOnSet,
   CA!FoldFunctionOnSet, CA!MapThenFoldSet

CATwice ==
   \A c \in Parts \ raced' :
        LET row == statement'[c]
            net == CA!Sum(c, CA!InPeriod(c, row.from, row.to))
        IN statement'[c] # statement[c] /\ row.movementCount < PageLimit =>
               row.opening = CA!Balance(c) /\ row.closing = CA!Balance(c) + net

(***************************************************************************)
(* The accounts of clients.                                                *)
(***************************************************************************)

\* Two handlers of one client are remembered.
CAAlone ==
    \A q, r \in Requests :
        request[q] # CA!Idle /\ request[r] # CA!Idle /\ request[q].on = request[r].on
            /\ request[q].on \notin raced => q = r

\* The movements of a client lead to the balance, and the funds are in one row.
CALeads(c) ==
    /\ \A i \in DOMAIN movements[c] :
          /\ movements[c][i].before = IF i = 1 THEN 0 ELSE movements[c][i - 1].after
          /\ movements[c][i].after = movements[c][i].before + movements[c][i].amount
    /\ movements[c] # <<>> => movements[c][Len(movements[c])].after = CA!Balance(c)
    /\ Len(funds[c]) <= 1

\* The funds are the balance, but for the handler that writes them.
CAFunded(c) ==
    movements[c] # <<>>
        /\ (\A r \in Requests : request[r].pc \in {"findFunds", "writeFunds"} => request[r].on # c) =>
        funds[c] = <<CA!Balance(c)>>

\* What was read is still so.
CARead(r) ==
    LET q == request[r] IN
    /\ q.pc = "insertMovement" => q.before = CA!Balance(q.on)
    /\ q.pc \in {"findFunds", "writeFunds"} => q.after = CA!Balance(q.on)
    /\ q.pc = "writeFunds" => (q.row = 0 <=> funds[q.on] = <<>>) /\ q.row <= 1
    /\ q.pc = "findMovements" => q.opening = CA!Balance(q.on)
    /\ q.pc = "insertStatement" =>
          /\ q.row.opening = CA!Balance(q.on)
          /\ q.row.movementCount < PageLimit =>
                q.row.closing = CA!Balance(q.on) + CA!Sum(q.on, CA!InPeriod(q.on, q.row.from, q.row.to))

CALed == \A c \in Parts : c \notin raced => CALeads(c)
CAFunding == \A c \in Parts : c \notin raced /\ c \notin unfunded => CAFunded(c)
CAReads == \A r \in Requests : request[r] # CA!Idle /\ request[r].on \notin raced => CARead(r)

CAInv == CA!TypeOK /\ CAAlone /\ CALed /\ CAFunding /\ CAReads

\* An element is appended.
LEMMA CAOneMovement ==
    ASSUME NEW S, NEW s \in Seq(S), NEW x \in S
    PROVE  /\ Append(s, x) \in Seq(S) /\ Append(s, x) # <<>>
           /\ Len(s) \in Nat /\ Len(Append(s, x)) = Len(s) + 1
           /\ DOMAIN s = 1..Len(s) /\ DOMAIN Append(s, x) = 1..(Len(s) + 1)
           /\ Append(s, x)[Len(s) + 1] = x /\ (s = <<>> <=> Len(s) = 0)
           /\ \A i \in 1..Len(s) : Append(s, x)[i] = s[i] /\ s[i] \in S
OBVIOUS

\* A number is put in a sequence.
LEMMA CAPutAt ==
    ASSUME NEW s \in Seq(Int), NEW v \in Int
    PROVE  /\ Append(s, v) \in Seq(Int) /\ Len(s) \in Nat
           /\ \A k : [s EXCEPT ![k] = v] \in Seq(Int)
           /\ s = <<>> => Append(s, v) = <<v>>
           /\ s # <<>> /\ Len(s) <= 1 => [s EXCEPT ![1] = v] = <<v>>
<1>1. Append(s, v) \in Seq(Int) /\ Len(s) \in Nat /\ s \in [1..Len(s) -> Int]
      OBVIOUS
<1>2. \A k : [s EXCEPT ![k] = v] \in [1..Len(s) -> Int]
      BY <1>1
<1>3. \A k : [s EXCEPT ![k] = v] \in Seq(Int)
      BY <1>1, <1>2
<1>4. s = <<>> => Append(s, v) = <<v>>
      OBVIOUS
<1>5. ASSUME s # <<>>, Len(s) <= 1 PROVE [s EXCEPT ![1] = v] = <<v>>
  <2>1. Len(s) # 0
        BY <1>5
  <2>2. Len(s) = 1
        BY <1>1, <1>5, <2>1
  <2>3. DOMAIN s = 1..1
        BY <1>1, <2>2
  <2>4. [s EXCEPT ![1] = v] \in Seq(Int) /\ Len([s EXCEPT ![1] = v]) = 1 /\ [s EXCEPT ![1] = v][1] = v
        BY <2>2, <2>3, <1>3
  <2> DEFINE t == [s EXCEPT ![1] = v]
  <2>5. t \in Seq(Int) /\ Len(t) = 1 /\ t[1] = v
        BY <2>4
  <2> HIDE DEF t
  <2>6. t = <<v>>
        BY <2>5
  <2> QED BY <2>6 DEF t
<1> QED BY <1>1, <1>3, <1>4, <1>5

\* The places of a sequence are finitely many.
LEMMA CAPlaces ==
    ASSUME CA!TypeOK, NEW c \in Parts
    PROVE  /\ Len(movements[c]) \in Nat /\ DOMAIN movements[c] = 1..Len(movements[c])
           /\ movements[c] = <<>> <=> Len(movements[c]) = 0
           /\ \A i \in DOMAIN movements[c] : movements[c][i] \in CA!MovementRow
           /\ \A s \in SUBSET (DOMAIN movements[c]) : IsFiniteSet(s)
<1>1. movements[c] \in Seq(CA!MovementRow)
      BY DEF CA!TypeOK
<1>2. /\ Len(movements[c]) \in Nat /\ DOMAIN movements[c] = 1..Len(movements[c])
      /\ movements[c] = <<>> <=> Len(movements[c]) = 0
      /\ \A i \in DOMAIN movements[c] : movements[c][i] \in CA!MovementRow
      BY <1>1
<1>3. IsFiniteSet(DOMAIN movements[c])
      BY <1>2, CACardinality, FS_Interval
<1> QED BY <1>2, <1>3, CACardinality, FS_Subset

\* Sums over places are integers.
LEMMA CAPlaceSums ==
    ASSUME CA!TypeOK, NEW c \in Parts, NEW s \in SUBSET (DOMAIN movements[c])
    PROVE  CA!Sum(c, s) \in Int
<1> DEFINE f == [i \in s |-> movements[c][i].amount]
<1>1. IsFiniteSet(s) /\ \A i \in s : f[i] \in Int
      BY CAPlaces DEF CA!MovementRow
<1> HIDE DEF f
<1>2. SumFunctionOnSet(f, s) \in Int
      BY <1>1, SumType
<1> QED BY <1>2, CASums DEF f, CA!Sum

\* So is a balance.
LEMMA CABalance == ASSUME CA!TypeOK, NEW c \in Parts PROVE CA!Balance(c) \in Int
BY CAPlaceSums DEF CA!Balance

\* A movement adds its amount to the balance.
LEMMA CAAppend ==
    ASSUME CA!TypeOK, NEW c \in Parts, NEW row \in CA!MovementRow, movements'[c] = Append(movements[c], row)
    PROVE  CA!Balance(c)' = CA!Balance(c) + row.amount
<1> DEFINE s == movements[c]
           n == Len(s)
           t == Append(s, row)
           f == [i \in 1..n |-> s[i].amount]
           g == [i \in 1..(n + 1) |-> t[i].amount]
<1>1. /\ s \in Seq(CA!MovementRow) /\ n \in Nat /\ DOMAIN s = 1..n /\ DOMAIN t = 1..(n + 1)
      /\ t[n + 1] = row /\ \A i \in 1..n : t[i] = s[i] /\ s[i] \in CA!MovementRow
  <2>1. s \in Seq(CA!MovementRow)
        BY DEF CA!TypeOK
  <2> HIDE DEF s
  <2> QED BY <2>1, CAOneMovement
<1>2. CA!Balance(c) = SumFunctionOnSet(f, 1..n)
      BY <1>1, CASums DEF CA!Balance, CA!Sum
<1>3. CA!Balance(c)' = SumFunctionOnSet(g, 1..(n + 1))
      BY <1>1, CASums DEF CA!Balance, CA!Sum
<1>0. n \in Nat
      BY <1>1
<1>4. IsFiniteSet(1..n) /\ IsFiniteSet(1..(n + 1)) /\ n + 1 \in 1..(n + 1) /\ (1..(n + 1)) \ {n + 1} = 1..n
  <2> HIDE DEF n, s, t, f, g
  <2>1. n + 1 \in 1..(n + 1) /\ (1..(n + 1)) \ {n + 1} = 1..n
        BY <1>0
  <2>2. PICK k \in Int, m \in Int : k = n /\ m = n + 1
        BY <1>0
  <2>3. IsFiniteSet(1..k)
        BY CACardinality, FS_Interval
  <2>4. IsFiniteSet(1..m)
        BY CACardinality, FS_Interval
  <2> QED BY <2>1, <2>2, <2>3, <2>4
<1>5. (\A i \in 1..(n + 1) : g[i] \in Int) /\ g[n + 1] = row.amount /\ \A i \in 1..n : g[i] = f[i]
      BY SMTT(20), <1>1 DEF CA!MovementRow
<1> HIDE DEF f, g, s, t, n
<1>6. SumFunctionOnSet(g, 1..(n + 1)) = g[n + 1] + SumFunctionOnSet(g, 1..n)
  <2> DEFINE D == 1..(n + 1)
             m == n + 1
  <2>1. IsFiniteSet(D) /\ m \in D /\ D \ {m} = 1..n /\ \A i \in D : g[i] \in Int
        BY <1>4, <1>5
  <2> HIDE DEF D, m
  <2>2. SumFunctionOnSet(g, D) = g[m] + SumFunctionOnSet(g, D \ {m})
        BY <2>1, SumRemove
  <2> QED BY <2>1, <2>2 DEF D, m
<1>7. SumFunctionOnSet(g, 1..n) = SumFunctionOnSet(f, 1..n)
      BY <1>4, <1>5, SumCongruence
<1>8. CA!Balance(c) \in Int
      BY CABalance
<1> QED BY <1>2, <1>3, <1>5, <1>6, <1>7, <1>8, CABalance DEF CA!MovementRow

\* Credits less debits are the net.
LEMMA CANetSum ==
    ASSUME CA!TypeOK, NEW c \in Parts, NEW page \in SUBSET (DOMAIN movements[c])
    PROVE  /\ CA!Credits(c, page) \in Nat /\ CA!Debits(c, page) \in Nat
           /\ CA!Credits(c, page) - CA!Debits(c, page) = CA!Sum(c, page)
<1> DEFINE f == [i \in page |-> movements[c][i].amount]
           g == [i \in page |-> CA!Abs(f[i])]
           Up(s) == {i \in s : f[i] > 0}
           Down(s) == {i \in s : f[i] < 0}
           S(s) == SumFunctionOnSet(f, s)
           D(s) == SumFunctionOnSet(g, s)
           Good == {s \in SUBSET page : S(Up(s)) - D(Down(s)) = S(s)}
<1>1. IsFiniteSet(page) /\ (\A i \in page : f[i] \in Int) /\ \A s \in SUBSET page : IsFiniteSet(s)
      BY CAPlaces DEF CA!MovementRow
<1>2. \A i \in page : g[i] \in Nat /\ (f[i] < 0 => g[i] = 0 - f[i])
      BY <1>1 DEF CA!Abs
<1> HIDE DEF f, g
<1>3. \A s \in SUBSET page : S(s) \in Int /\ S(Up(s)) \in Nat /\ D(Down(s)) \in Nat
  <2> SUFFICES ASSUME NEW s \in SUBSET page PROVE S(s) \in Int /\ S(Up(s)) \in Nat /\ D(Down(s)) \in Nat
      OBVIOUS
  <2>1. /\ IsFiniteSet(s) /\ IsFiniteSet(Up(s)) /\ IsFiniteSet(Down(s))
        /\ \A i \in s : f[i] \in Int
        /\ \A i \in Up(s) : f[i] \in Int /\ f[i] \in Nat
        /\ \A i \in Down(s) : g[i] \in Int /\ g[i] \in Nat
        BY <1>1, <1>2
  <2> HIDE DEF Up, Down
  <2> QED BY <2>1, SumType
<1>4. {} \in Good
  <2>1. Up({}) = {} /\ Down({}) = {}
        OBVIOUS
  <2> HIDE DEF Up, Down
  <2> QED BY <2>1, SumEmpty
<1>5. ASSUME NEW s \in SUBSET page, s # {}, \A x \in s : s \ {x} \in Good
      PROVE  s \in Good
  <2>1. PICK x \in s : TRUE
        BY <1>5
  <2> DEFINE t == s \ {x}
  <2>2. t \in Good
        BY <1>5, <2>1
  <2>3. S(s) = f[x] + S(t)
        BY <1>1, <2>1, SumRemove
  <2>4. CASE f[x] > 0
    <3>1. x \in Up(s) /\ Up(s) \ {x} = Up(t) /\ Down(s) = Down(t) /\ Up(s) \in SUBSET page
          BY <1>1, <2>1, <2>4
    <3> HIDE DEF Up, Down, t
    <3>2. S(Up(s)) = f[x] + S(Up(t))
      <4> DEFINE U == Up(s)
      <4>1. IsFiniteSet(U) /\ x \in U /\ U \ {x} = Up(t) /\ \A i \in U : f[i] \in Int
            BY <1>1, <3>1
      <4> HIDE DEF U
      <4>2. S(U) = f[x] + S(U \ {x})
            BY <4>1, SumRemove
      <4> QED BY <4>1, <4>2 DEF U
    <3>3. t \in SUBSET page
          BY DEF t
    <3> HIDE DEF S, D
    <3> QED BY <1>1, <1>3, <2>1, <2>2, <2>3, <3>1, <3>2, <3>3
  <2>5. CASE f[x] < 0
    <3>1. x \in Down(s) /\ Down(s) \ {x} = Down(t) /\ Up(s) = Up(t) /\ Down(s) \in SUBSET page
          BY <1>1, <2>1, <2>5
    <3> HIDE DEF Up, Down, t
    <3>2. D(Down(s)) = g[x] + D(Down(t))
      <4> DEFINE U == Down(s)
      <4>1. IsFiniteSet(U) /\ x \in U /\ U \ {x} = Down(t) /\ \A i \in U : g[i] \in Int
            BY <1>1, <1>2, <3>1
      <4> HIDE DEF U
      <4>2. D(U) = g[x] + D(U \ {x})
            BY <4>1, SumRemove
      <4> QED BY <4>1, <4>2 DEF U
    <3>3. t \in SUBSET page
          BY DEF t
    <3> HIDE DEF S, D
    <3> QED BY <1>1, <1>2, <1>3, <2>1, <2>2, <2>3, <2>5, <3>1, <3>2, <3>3
  <2>6. CASE f[x] = 0
    <3>1. Down(s) = Down(t) /\ Up(s) = Up(t)
          BY <1>1, <2>1, <2>6
    <3> HIDE DEF Up, Down, t
    <3>3. t \in SUBSET page
          BY DEF t
    <3> HIDE DEF S, D
    <3> QED BY <1>1, <1>3, <2>1, <2>2, <2>3, <2>6, <3>1, <3>3
  <2> QED BY <1>1, <2>1, <2>4, <2>5, <2>6
<1> HIDE DEF Good
<1>6. page \in Good
      BY <1>1, <1>4, <1>5, BySize
<1>7. S(Up(page)) - D(Down(page)) = S(page)
      BY <1>6 DEF Good
<1>8. CA!Sum(c, page) = S(page)
      BY CASums DEF CA!Sum, f
<1>9. CA!Credits(c, page) = S(Up(page))
  <2>1. Up(page) = {i \in page : movements[c][i].amount > 0}
        BY DEF f
  <2>2. \A i \in Up(page) : [j \in Up(page) |-> movements[c][j].amount][i] = f[i]
        BY DEF f
  <2>3. IsFiniteSet(Up(page))
        BY <1>1
  <2>4. CA!Credits(c, page) = SumFunctionOnSet([j \in Up(page) |-> movements[c][j].amount], Up(page))
        BY <2>1, CASums DEF CA!Credits, CA!Sum
  <2> HIDE DEF Up
  <2> QED BY <2>2, <2>3, <2>4, SumCongruence
<1>10. CA!Debits(c, page) = D(Down(page))
  <2>1. Down(page) = {i \in page : movements[c][i].amount < 0}
        BY DEF f
  <2>2. \A i \in Down(page) : [j \in Down(page) |-> CA!Abs(movements[c][j].amount)][i] = g[i]
        BY DEF f, g
  <2>3. IsFiniteSet(Down(page))
        BY <1>1
  <2>4. CA!Debits(c, page) = SumFunctionOnSet([j \in Down(page) |-> CA!Abs(movements[c][j].amount)], Down(page))
        BY <2>1, CASums DEF CA!Debits
  <2> HIDE DEF Down
  <2> QED BY <2>2, <2>3, <2>4, SumCongruence
<1> QED BY <1>3, <1>7, <1>8, <1>9, <1>10

\* Of finitely many places there is one whose number is the least.
LEMMA CALeastPlace ==
    ASSUME NEW s, s # {}, NEW num, \A i \in s : num[i] \in Nat
    PROVE  \E i \in s : \A j \in s : num[i] <= num[j]
<1> DEFINE N == {n \in Nat : \A i \in s : num[i] <= n => \E k \in s : \A j \in s : num[k] <= num[j]}
<1>1. 0 \in N
      OBVIOUS
<1>2. ASSUME NEW n \in Nat, n \in N PROVE n + 1 \in N
  <2> SUFFICES ASSUME NEW i \in s, num[i] <= n + 1 PROVE \E k \in s : \A j \in s : num[k] <= num[j]
      OBVIOUS
  <2>1. CASE \E j \in s : num[j] <= n
        BY <1>2, <2>1
  <2>2. CASE \A j \in s : ~(num[j] <= n)
        BY <2>2
  <2> QED BY <2>1, <2>2
<1> HIDE DEF N
<1>3. Nat \subseteq N
      BY <1>1, <1>2, Counting
<1>4. PICK i \in s : TRUE
      OBVIOUS
<1>5. num[i] \in N
      BY <1>3
<1> QED BY <1>4, <1>5 DEF N

\* A page holds at most PageLimit movements, and all of the period when it holds
\* fewer.
LEMMA CAPageHolds ==
    ASSUME CA!TypeOK, NEW c \in Parts, NEW from, NEW to
    PROVE  /\ CA!Page(c, from, to) \in SUBSET (DOMAIN movements[c])
           /\ CA!InPeriod(c, from, to) \in SUBSET (DOMAIN movements[c])
           /\ CA!Cardinality(CA!Page(c, from, to)) \in 0..PageLimit
           /\ CA!Cardinality(CA!Page(c, from, to)) < PageLimit => CA!Page(c, from, to) = CA!InPeriod(c, from, to)
<1> DEFINE found == CA!InPeriod(c, from, to)
           page == CA!Page(c, from, to)
           date(i) == movements[c][i].date
           later(i) == {j \in found : date(j) > date(i) \/ (date(j) = date(i) /\ j > i)}
           sooner(i) == {j \in page : date(i) > date(j) \/ (date(j) = date(i) /\ i > j)}
<1>1. /\ found \in SUBSET (DOMAIN movements[c]) /\ page \in SUBSET found
      /\ page = {i \in found : CA!Cardinality(later(i)) < PageLimit}
      BY DEF CA!InPeriod, CA!Page
<1>2. \A i \in found : i \in Int /\ date(i) \in Int
  <2> SUFFICES ASSUME NEW i \in DOMAIN movements[c] PROVE i \in Int /\ date(i) \in Int
      BY <1>1
  <2>1. i \in Int /\ movements[c][i] \in CA!MovementRow
        BY CAPlaces
  <2> QED BY <2>1, NumbersAssumption DEF CA!MovementRow
<1>3. \A s \in SUBSET found : IsFiniteSet(s) /\ CA!Cardinality(s) \in Nat
      BY <1>1, CAPlaces, CACardinality, FS_CardinalityType
<1> HIDE DEF found, page, date
<1>4. \A i \in found : CA!Cardinality(later(i)) \in Nat
      BY <1>3
<1>5. CA!Cardinality(page) <= PageLimit
  <2>1. CASE page = {}
        BY <2>1, CACardinality, FS_EmptySet, NumbersAssumption
  <2>2. CASE page # {}
    <3>1. \A i \in page : CA!Cardinality(sooner(i)) \in Nat
          BY <1>1, <1>3
    <3>2. PICK i \in page : \A j \in page : CA!Cardinality(sooner(i)) <= CA!Cardinality(sooner(j))
      <4> DEFINE num == [i \in page |-> CA!Cardinality(sooner(i))]
      <4>1. \A i \in page : num[i] = CA!Cardinality(sooner(i))
            OBVIOUS
      <4> HIDE DEF num, sooner
      <4>2. \E i \in page : \A j \in page : num[i] <= num[j]
            BY <2>2, <3>1, <4>1, CALeastPlace
      <4> QED BY <4>1, <4>2
    <3>3. sooner(i) = {}
      <4>1. SUFFICES ASSUME NEW j \in sooner(i) PROVE FALSE
            OBVIOUS
      <4>2. sooner(j) \subseteq sooner(i) \ {j} /\ j \in page /\ j \in sooner(i)
            BY <1>1, <1>2
      <4> HIDE DEF sooner
      <4>3. IsFiniteSet(sooner(i))
            BY <1>1, <1>3 DEF sooner
      <4>4. CA!Cardinality(sooner(i) \ {j}) = CA!Cardinality(sooner(i)) - 1 /\ IsFiniteSet(sooner(i) \ {j})
            BY <4>2, <4>3, CACardinality, FS_RemoveElement
      <4>5. CA!Cardinality(sooner(j)) <= CA!Cardinality(sooner(i) \ {j})
            BY <4>2, <4>4, CACardinality, FS_Subset
      <4> QED BY <3>1, <3>2, <4>2, <4>4, <4>5
    <3>4. page \subseteq later(i) \cup {i}
          BY <1>1, <1>2, <3>3
    <3>5. IsFiniteSet(later(i)) /\ CA!Cardinality(later(i)) < PageLimit /\ i \notin later(i)
          BY <1>1, <1>2, <1>3
    <3> HIDE DEF later
    <3>6. CA!Cardinality(later(i) \cup {i}) = CA!Cardinality(later(i)) + 1 /\ IsFiniteSet(later(i) \cup {i})
          BY <3>5, CACardinality, FS_AddElement
    <3>7. CA!Cardinality(page) <= CA!Cardinality(later(i) \cup {i})
          BY <3>4, <3>6, CACardinality, FS_Subset
    <3> QED BY <1>1, <1>3, <1>4, <3>5, <3>6, <3>7, NumbersAssumption
  <2> QED BY <2>1, <2>2
<1>6. ASSUME page # found PROVE PageLimit <= CA!Cardinality(page)
  <2> DEFINE out == found \ page
             num == [i \in out |-> CA!Cardinality(later(i))]
  <2>1. out # {}
        BY <1>1, <1>6
  <2>2. PICK i \in out : \A j \in out : CA!Cardinality(later(i)) <= CA!Cardinality(later(j))
    <3>1. \A i \in out : num[i] = CA!Cardinality(later(i)) /\ num[i] \in Nat
          BY <1>4
    <3> HIDE DEF num, out, later
    <3>2. \E i \in out : \A j \in out : num[i] <= num[j]
          BY <2>1, <3>1, CALeastPlace
    <3> QED BY <3>1, <3>2
  <2>3. later(i) \subseteq page
    <3>1. SUFFICES ASSUME NEW j \in later(i), j \notin page PROVE FALSE
          OBVIOUS
    <3>2. later(j) \subseteq later(i) \ {j} /\ j \in out /\ i \in found
          BY <1>1, <1>2, <3>1
    <3>3. IsFiniteSet(later(i))
          BY <1>3
    <3> HIDE DEF later
    <3>4. CA!Cardinality(later(i) \ {j}) = CA!Cardinality(later(i)) - 1 /\ IsFiniteSet(later(i) \ {j})
          BY <3>1, <3>3, CACardinality, FS_RemoveElement
    <3>5. CA!Cardinality(later(j)) <= CA!Cardinality(later(i) \ {j})
          BY <3>2, <3>4, CACardinality, FS_Subset
    <3> QED BY <1>4, <2>2, <3>2, <3>4, <3>5
  <2>4. ~(CA!Cardinality(later(i)) < PageLimit) /\ i \in found
        BY <1>1
  <2> HIDE DEF later
  <2>5. CA!Cardinality(later(i)) <= CA!Cardinality(page)
        BY <1>1, <1>3, <2>3, CACardinality, FS_Subset
  <2> QED BY <1>1, <1>3, <1>4, <2>4, <2>5, NumbersAssumption
<1>7. page \in SUBSET (DOMAIN movements[c]) /\ CA!Cardinality(page) \in Nat
      BY <1>1, <1>3
<1> QED BY <1>1, <1>5, <1>6, <1>7, NumbersAssumption DEF page, found

\* There are no movements at first.
LEMMA CAStart == CA!Init => CAInv
<1> SUFFICES ASSUME CA!Init PROVE CAInv
    OBVIOUS
<1>1. \A c \in Parts : movements[c] = <<>> /\ funds[c] = <<>>
      BY DEF CA!Init
<1>2. CA!TypeOK
  <2>1. <<>> \in Seq(CA!MovementRow) /\ <<>> \in Seq(Int)
        OBVIOUS
  <2> QED BY <2>1, StartedAssumption DEF CA!Init, CA!HandlersInit, CA!TypeOK, CA!HandlersTypeOK
<1>3. CAAlone /\ CAReads
      BY DEF CA!Init, CA!HandlersInit, CAAlone, CAReads
<1>4. CALed /\ CAFunding
      BY <1>1 DEF CALed, CAFunding, CALeads, CAFunded
<1> QED BY <1>2, <1>3, <1>4 DEF CAInv

\* A handler is about a client.
LEMMA CAOn ==
    CAInv => \A r \in Requests : request[r] # CA!Idle => request[r] \in CA!Running /\ request[r].on \in Parts
BY DEF CAInv, CA!TypeOK, CA!HandlersTypeOK, CA!Running

\* What does not change stays as it was.
LEMMA CASame ==
    ASSUME NEW c, movements'[c] = movements[c]
    PROVE  /\ CA!Balance(c)' = CA!Balance(c)
           /\ \A from, to : CA!Sum(c, CA!InPeriod(c, from, to))' = CA!Sum(c, CA!InPeriod(c, from, to))
           /\ funds'[c] = funds[c] /\ CALeads(c) => CALeads(c)'
<1>1. CA!Balance(c)' = CA!Balance(c)
      BY CASums DEF CA!Balance, CA!Sum
<1>2. \A from, to : CA!Sum(c, CA!InPeriod(c, from, to))' = CA!Sum(c, CA!InPeriod(c, from, to))
  <2> SUFFICES ASSUME NEW from, NEW to
               PROVE  CA!Sum(c, CA!InPeriod(c, from, to))' = CA!Sum(c, CA!InPeriod(c, from, to))
      OBVIOUS
  <2>1. CA!InPeriod(c, from, to)' = CA!InPeriod(c, from, to)
        BY DEF CA!InPeriod
  <2> QED BY <2>1, CASums DEF CA!Sum
<1> QED BY <1>1, <1>2 DEF CALeads

\* One handler goes on, about the same client.
CAGo(r) ==
    /\ raced' = raced
    /\ \A q \in Requests : q # r => request'[q] = request[q]
    /\ request'[r] # CA!Idle => request'[r].on = request[r].on

\* What a handler does to other clients and handlers is nothing.
LEMMA CAKeeps ==
    ASSUME CAInv, NEW r \in Requests, NEW c \in Parts, request[r] # CA!Idle, request[r].on = c, CAGo(r),
           \A d \in Parts : d # c =>
               movements'[d] = movements[d] /\ funds'[d] = funds[d] /\ (d \in unfunded' <=> d \in unfunded),
           c \notin raced => CALeads(c)',
           c \notin raced /\ c \notin unfunded' /\ c \notin unfunded => CAFunded(c)',
           c \in unfunded => c \in unfunded',
           c \notin raced /\ request'[r] # CA!Idle => CARead(r)'
    PROVE  CAAlone' /\ CALed' /\ CAFunding' /\ CAReads'
<1>1. CAAlone'
      BY DEF CAInv, CAAlone, CAGo, CA!Idle
<1>2. CALed'
      BY CASame DEF CAInv, CALed, CAGo
<1>3. CAFunding'
  <2> SUFFICES ASSUME NEW d \in Parts, d \notin raced, d \notin unfunded' PROVE CAFunded(d)'
      BY DEF CAFunding, CAGo
  <2>1. CASE d = c
        BY <2>1
  <2>2. CASE d # c
    <3>1. CAFunded(d)
          BY <2>2 DEF CAInv, CAFunding
    <3>2. CA!Balance(d)' = CA!Balance(d) /\ movements'[d] = movements[d] /\ funds'[d] = funds[d]
          BY <2>2, CASame
    <3>3. (\A q \in Requests : request'[q].pc \in {"findFunds", "writeFunds"} => request'[q].on # d) =>
              \A q \in Requests : request[q].pc \in {"findFunds", "writeFunds"} => request[q].on # d
          BY <2>2 DEF CAGo
    <3> QED BY <3>1, <3>2, <3>3 DEF CAFunded
  <2> QED BY <2>1, <2>2
<1>4. CAReads'
  <2> SUFFICES ASSUME NEW q \in Requests, request'[q] # CA!Idle, request'[q].on \notin raced PROVE CARead(q)'
      BY DEF CAReads, CAGo, CA!Idle
  <2>1. CASE q = r
        BY <2>1 DEF CAGo
  <2>2. CASE q # r
    <3>1. request'[q] = request[q] /\ CARead(q)
          BY <2>2 DEF CAGo, CAInv, CAReads
    <3>2. request[q].on # request[r].on
          BY <2>2, <3>1 DEF CAInv, CAAlone
    <3>3. PICK d \in Parts : d = request[q].on
          BY <3>1, CAOn
    <3>4. /\ CA!Balance(d)' = CA!Balance(d) /\ funds'[d] = funds[d]
          /\ \A from, to : CA!Sum(d, CA!InPeriod(d, from, to))' = CA!Sum(d, CA!InPeriod(d, from, to))
          BY <3>2, <3>3, CASame
    <3>5. PICK from, to : from = request[q].row.from /\ to = request[q].row.to
          OBVIOUS
    <3>6. CA!Sum(d, CA!InPeriod(d, from, to))' = CA!Sum(d, CA!InPeriod(d, from, to))
          BY <3>4
    <3> QED BY <3>1, <3>3, <3>4, <3>5, <3>6 DEF CARead
  <2> QED BY <2>1, <2>2
<1> QED BY <1>1, <1>2, <1>3, <1>4

\* A handler begins that has read the balance.
LEMMA CABegins ==
    ASSUME CAInv, NEW r \in Requests, NEW c \in Parts, NEW h, h.on = c,
           CA!Start(r, h), UNCHANGED CA!ledgers,
           \/ h.pc = "insertMovement" /\ h.before = CA!Balance(c)
           \/ h.pc = "findMovements" /\ h.opening = CA!Balance(c)
    PROVE  CAAlone' /\ CALed' /\ CAFunding' /\ CAReads'
<1>1. /\ request[r] = CA!Idle /\ request'[r] = h /\ \A q \in Requests : q # r => request'[q] = request[q]
      /\ \A d \in raced : d \in raced'
      /\ c \notin raced' => \A q \in Requests : request[q] # CA!Idle => request[q].on # c
      BY DEF CA!Start, CAInv, CA!TypeOK, CA!HandlersTypeOK, CA!Handled
<1>2. movements' = movements /\ funds' = funds /\ unfunded' = unfunded
      BY DEF CA!ledgers
<1>3. CAAlone'
      BY <1>1 DEF CAInv, CAAlone, CA!Idle
<1>4. CALed'
      BY <1>1, <1>2, CASame DEF CAInv, CALed
<1>5. CAFunding'
  <2> SUFFICES ASSUME NEW d \in Parts, d \notin raced', d \notin unfunded PROVE CAFunded(d)'
      BY <1>2 DEF CAFunding
  <2>1. CAFunded(d) /\ CA!Balance(d)' = CA!Balance(d)
        BY <1>1, <1>2, CASame DEF CAInv, CAFunding
  <2>2. request[r].pc \notin {"findFunds", "writeFunds"}
        BY <1>1 DEF CA!Idle
  <2> QED BY <1>1, <1>2, <2>1, <2>2 DEF CAFunded
<1>6. CAReads'
  <2> SUFFICES ASSUME NEW q \in Requests, request'[q] # CA!Idle, request'[q].on \notin raced' PROVE CARead(q)'
      BY DEF CAReads, CA!Idle
  <2>0. \A d : CA!Balance(d)' = CA!Balance(d)
        BY <1>2, CASame
  <2>1. CASE q = r
    <3>1. CA!Balance(c)' = CA!Balance(c)
          BY <2>0
    <3> QED BY <1>1, <2>1, <3>1 DEF CARead
  <2>2. CASE q # r
    <3>1. request'[q] = request[q] /\ CARead(q)
          BY <1>1, <2>2 DEF CAInv, CAReads
    <3>2. PICK d, from, to : d = request[q].on /\ from = request[q].row.from /\ to = request[q].row.to
          OBVIOUS
    <3>3. CA!Sum(d, CA!InPeriod(d, from, to))' = CA!Sum(d, CA!InPeriod(d, from, to)) /\ CA!Balance(d)' = CA!Balance(d)
          BY <1>2, CASame
    <3> QED BY <1>2, <3>1, <3>2, <3>3 DEF CARead
  <2> QED BY <2>1, <2>2
<1> QED BY <1>3, <1>4, <1>5, <1>6

\* How a handler goes on.
LEMMA CAGoes ==
    ASSUME CAInv, NEW r \in Requests,
           \/ CA!InsertMovement(r) \/ CA!FindFunds(r) \/ CA!WriteFunds(r)
           \/ CA!FindMovements(r) \/ CA!InsertStatement(r) \/ CA!Abort(r)
    PROVE  request[r] # CA!Idle /\ CAGo(r)
BY DEF CAGo, CA!InsertMovement, CA!FindFunds, CA!WriteFunds, CA!FindMovements,
   CA!InsertStatement, CA!Abort, CA!Stop,
       CA!At, CA!Finish, CA!Goto, CA!Idle, CAInv, CA!TypeOK, CA!HandlersTypeOK

\* The statement that is made counts the period twice.
LEMMA CAMakes ==
    ASSUME CAInv, NEW r \in Requests, CA!FindMovements(r)
    PROVE  /\ request'[r] \in CA!Running /\ request'[r] # CA!Idle
           /\ request[r].on \notin raced => CARead(r)'
<1> DEFINE c == request[r].on
           from == request[r].from
           to == request[r].to
           page == CA!Page(c, from, to)
           plus == CA!Credits(c, page)
           minus == CA!Debits(c, page)
           row == [from |-> from, to |-> to, opening |-> request[r].opening, credits |-> plus,
                   debits |-> minus, closing |-> request[r].opening + plus - minus,
                   movementCount |-> CA!Cardinality(page)]
<1>1. request[r] \in [pc : {"findMovements"}, on : Parts, from : Days, to : Days, opening : Int]
  <2>1. request[r] \in CA!Running /\ request[r].pc = "findMovements"
        BY CAGoes, CAOn DEF CA!FindMovements, CA!At
  <2> QED BY <2>1 DEF CA!Running
<1>2. CA!TypeOK /\ c \in Parts /\ from \in Days /\ to \in Days /\ request[r].opening \in Int
      BY <1>1 DEF CAInv
<1>3. /\ page \in SUBSET (DOMAIN movements[c]) /\ CA!Cardinality(page) \in 0..PageLimit
      /\ CA!Cardinality(page) < PageLimit => page = CA!InPeriod(c, from, to)
      BY <1>2, CAPageHolds
<1>4. plus \in Nat /\ minus \in Nat /\ plus - minus = CA!Sum(c, page)
  <2> HIDE DEF c, page
  <2> QED BY <1>2, <1>3, CANetSum
<1>5. request'[r] = [pc |-> "insertStatement", on |-> c, row |-> row]
      BY DEF CA!FindMovements, CA!Goto, CAInv, CA!TypeOK, CA!HandlersTypeOK
<1>6. movements' = movements
      BY DEF CA!FindMovements, CA!ledgers
<1>7. c \notin raced => request[r].opening = CA!Balance(c)
      BY <1>1, CAGoes DEF CAInv, CAReads, CARead
<1>8. row \in CA!StatementRow
  <2> HIDE DEF c, from, to, page, plus, minus
  <2> QED BY <1>2, <1>3, <1>4 DEF CA!StatementRow
<1>9. row.from = from /\ row.to = to /\ row.opening = request[r].opening
          /\ row.closing = request[r].opening + plus - minus /\ row.movementCount = CA!Cardinality(page)
      OBVIOUS
<1> HIDE DEF page, plus, minus, row
<1>10. PICK x \in Parts, y \in Days, z \in Days : x = c /\ y = from /\ z = to
       BY <1>2
<1>11. CA!Balance(x)' = CA!Balance(x) /\ CA!Sum(x, CA!InPeriod(x, y, z))' = CA!Sum(x, CA!InPeriod(x, y, z))
       BY <1>6, CASame
<1>12. request'[r] \in CA!Running /\ request'[r] # CA!Idle
       BY <1>2, <1>5, <1>8 DEF CA!Running, CA!Idle
<1>13. ASSUME c \notin raced PROVE CARead(r)'
  <2>1. /\ request'[r].pc = "insertStatement" /\ request'[r].on = x /\ request'[r].row = row
        BY <1>5, <1>10
  <2>2. row.opening = CA!Balance(x)
        BY <1>7, <1>9, <1>10, <1>13
  <2>3. row.movementCount < PageLimit => row.closing = CA!Balance(x) + CA!Sum(x, CA!InPeriod(x, y, z))
        BY <1>2, <1>3, <1>4, <1>7, <1>9, <1>10, <1>13
  <2> QED BY <1>9, <1>10, <1>11, <2>1, <2>2, <2>3 DEF CARead
<1> QED BY <1>12, <1>13

\* Every step keeps the types.
LEMMA CATypeStep ==
    ASSUME CAInv, [CA!Next]_CA!vars
    PROVE  CA!TypeOK'
<1> USE StartedAssumption DEF CA!TypeOK, CA!HandlersTypeOK, CA!Running,
            CA!ledgers, CA!At, CA!Start, CA!Goto, CA!Finish, CA!Absent, CA!Idle,
            CAInv
<1>1. ASSUME NEW r \in Requests, NEW c \in Parts, NEW x \in BOOLEAN, NEW n \in Amounts,
             NEW d \in Days, CA!BeginRecord(r, c, x, n, d)
      PROVE  CA!TypeOK'
  <2> HIDE DEF CA!TypeOK, CA!HandlersTypeOK, CA!Running,
               CA!ledgers, CA!At, CA!Start, CA!Goto, CA!Finish, CA!Absent, CA!Idle
  <2>0. CA!Balance(c) \in Int /\ CA!Signed(x, n) \in Int
        BY CABalance, NumbersAssumption DEF CAInv, CA!Signed, CA!Abs
  <2>1. [pc |-> "insertMovement", on |-> c, amount |-> CA!Signed(x, n), date |-> d, before |-> CA!Balance(c)] \in CA!Running
        BY <2>0 DEF CA!Running
  <2> QED BY <1>1, <2>1, StartedAssumption DEF CA!BeginRecord, CA!Start, CA!ledgers, CA!TypeOK,
             CA!HandlersTypeOK, CAInv
<1>2. ASSUME NEW r \in Requests, NEW c \in Parts, NEW d \in Days, NEW e \in Days,
             CA!BeginStatement(r, c, d, e)
      PROVE  CA!TypeOK'
  <2> HIDE DEF CA!TypeOK, CA!HandlersTypeOK, CA!Running,
               CA!ledgers, CA!At, CA!Start, CA!Goto, CA!Finish, CA!Absent, CA!Idle
  <2>0. CA!Balance(c) \in Int
        BY CABalance DEF CAInv
  <2>1. [pc |-> "findMovements", on |-> c, from |-> d, to |-> e, opening |-> CA!Balance(c)] \in CA!Running
        BY <2>0 DEF CA!Running
  <2> QED BY <1>2, <2>1, StartedAssumption DEF CA!BeginStatement, CA!Start, CA!ledgers,
             CA!TypeOK, CA!HandlersTypeOK, CAInv
<1>3. ASSUME NEW r \in Requests, CA!InsertMovement(r)
      PROVE  CA!TypeOK'
  <2> HIDE DEF CA!TypeOK, CA!HandlersTypeOK, CA!Running,
               CA!ledgers, CA!At, CA!Start, CA!Goto, CA!Finish, CA!Absent, CA!Idle
  <2>1. request[r] \in [pc : {"insertMovement"}, on : Parts, amount : Int, date : Days, before : Int]
    <3>1. request[r] \in CA!Running /\ request[r].pc = "insertMovement"
          BY <1>3, CAGoes, CAOn DEF CA!InsertMovement, CA!At
    <3> QED BY <3>1 DEF CA!Running
  <2> DEFINE q == request[r]
             row == [amount |-> q.amount, date |-> q.date, before |-> q.before, after |-> q.before + q.amount]
             s == movements[q.on]
  <2>20. /\ request[r].amount \in Int /\ request[r].date \in Days /\ request[r].before \in Int
         /\ request[r].before + request[r].amount \in Int
         BY <2>1
  <2>2. row \in CA!MovementRow /\ s \in Seq(CA!MovementRow)
        BY <2>1, <2>20 DEF CA!MovementRow, CAInv, CA!TypeOK
  <2>3. movements' = [movements EXCEPT ![q.on] = Append(s, row)]
        BY <1>3, <2>1 DEF CA!InsertMovement, CAInv, CA!TypeOK
  <2>4. Append(s, row) \in Seq(CA!MovementRow)
    <3> HIDE DEF s, row
    <3> QED BY <2>2, CAOneMovement
  <2>5. [pc |-> "findFunds", on |-> q.on, after |-> q.before + q.amount] \in CA!Running
        BY <2>1 DEF CA!Running
  <2> HIDE DEF row, s
  <2> QED BY <1>3, <2>1, <2>3, <2>4, <2>5 DEF CA!InsertMovement, CA!Goto, CA!TypeOK,
             CA!HandlersTypeOK, CAInv
<1>4. ASSUME NEW r \in Requests, CA!FindFunds(r)
      PROVE  CA!TypeOK'
  <2> HIDE DEF CA!TypeOK, CA!HandlersTypeOK, CA!Running,
               CA!ledgers, CA!At, CA!Start, CA!Goto, CA!Finish, CA!Absent, CA!Idle
  <2>1. request[r] \in [pc : {"findFunds"}, on : Parts, after : Int]
    <3>1. request[r] \in CA!Running /\ request[r].pc = "findFunds"
          BY <1>4, CAGoes, CAOn DEF CA!FindFunds, CA!At
    <3> QED BY <3>1 DEF CA!Running
  <2>2. funds[request[r].on] \in Seq(Int)
        BY <2>1 DEF CAInv, CA!TypeOK
  <2>3. PICK row \in IF funds[request[r].on] = <<>> THEN {0} ELSE DOMAIN funds[request[r].on] :
            CA!Goto(r, [pc |-> "writeFunds", on |-> request[r].on, after |-> request[r].after, row |-> row])
        BY <1>4 DEF CA!FindFunds
  <2>4. row \in Nat
        BY <2>2, <2>3
  <2>5. [pc |-> "writeFunds", on |-> request[r].on, after |-> request[r].after, row |-> row] \in CA!Running
        BY <2>1, <2>4 DEF CA!Running
  <2> QED BY <1>4, <2>3, <2>5 DEF CA!FindFunds, CA!ledgers, CA!Goto, CA!TypeOK,
             CA!HandlersTypeOK, CAInv
<1>5. ASSUME NEW r \in Requests, CA!WriteFunds(r)
      PROVE  CA!TypeOK'
  <2> HIDE DEF CA!TypeOK, CA!HandlersTypeOK, CA!Running,
               CA!ledgers, CA!At, CA!Start, CA!Goto, CA!Finish, CA!Absent, CA!Idle
  <2>1. request[r] \in [pc : {"writeFunds"}, on : Parts, after : Int, row : Nat]
    <3>1. request[r] \in CA!Running /\ request[r].pc = "writeFunds"
          BY <1>5, CAGoes, CAOn DEF CA!WriteFunds, CA!At
    <3> QED BY <3>1 DEF CA!Running
  <2> DEFINE s == funds[request[r].on]
             t == IF request[r].row = 0 THEN Append(s, request[r].after) ELSE [s EXCEPT ![request[r].row] = request[r].after]
  <2>2. s \in Seq(Int)
        BY <2>1 DEF CAInv, CA!TypeOK
  <2>3. funds' = [funds EXCEPT ![request[r].on] = t]
        BY <1>5, <2>1 DEF CA!WriteFunds, CAInv, CA!TypeOK
  <2>4. t \in Seq(Int)
    <3> HIDE DEF s
    <3>0. PICK k \in Int, v \in Int : k = request[r].row /\ v = request[r].after
          BY <2>1
    <3>1. [s EXCEPT ![k] = v] \in Seq(Int) /\ Append(s, v) \in Seq(Int)
          BY <2>2, CAPutAt
    <3> QED BY <3>0, <3>1
  <2> HIDE DEF t, s
  <2>5. UNCHANGED <<movements, statement, unfunded, started, raced>> /\ request' = [request EXCEPT ![r] = CA!Idle]
        BY <1>5 DEF CA!WriteFunds, CA!Finish, CA!Goto
  <2> QED BY <2>1, <2>3, <2>4, <2>5 DEF CA!TypeOK, CA!HandlersTypeOK, CAInv
<1>6. ASSUME NEW r \in Requests, CA!FindMovements(r)
      PROVE  CA!TypeOK'
  <2> HIDE DEF CA!TypeOK, CA!HandlersTypeOK, CA!Running,
               CA!ledgers, CA!At, CA!Start, CA!Goto, CA!Finish, CA!Absent, CA!Idle
  <2>1. request'[r] \in CA!Running
        BY <1>6, CAMakes
  <2> QED BY <1>6, <2>1 DEF CA!FindMovements, CA!ledgers, CA!Goto, CA!TypeOK, CA!HandlersTypeOK,
             CAInv
<1>7. ASSUME NEW r \in Requests, CA!InsertStatement(r)
      PROVE  CA!TypeOK'
  <2> HIDE DEF CA!TypeOK, CA!HandlersTypeOK, CA!Running,
               CA!ledgers, CA!At, CA!Start, CA!Goto, CA!Finish, CA!Absent, CA!Idle
  <2>1. request[r] \in [pc : {"insertStatement"}, on : Parts, row : CA!StatementRow]
    <3>1. request[r] \in CA!Running /\ request[r].pc = "insertStatement"
          BY <1>7, CAGoes, CAOn DEF CA!InsertStatement, CA!At
    <3> QED BY <3>1 DEF CA!Running
  <2> QED BY <1>7, <2>1 DEF CA!InsertStatement, CA!Finish, CA!Goto, CA!TypeOK,
             CA!HandlersTypeOK, CAInv
<1>8. ASSUME NEW r \in Requests, CA!Abort(r)
      PROVE  CA!TypeOK'
      BY <1>8 DEF CA!Abort, CA!Stop
<1>9. CASE UNCHANGED CA!vars
      BY <1>9 DEF CA!vars
<1> HIDE DEF CA!TypeOK, CA!HandlersTypeOK, CA!Running,
             CA!ledgers, CA!At, CA!Start, CA!Goto, CA!Finish, CA!Absent, CA!Idle,
             CAInv
<1> QED BY <1>1, <1>2, <1>3, <1>4, <1>5, <1>6, <1>7, <1>8, <1>9 DEF CA!Next

\* Every step keeps what was read as it is.
LEMMA CARestStep ==
    ASSUME CAInv, [CA!Next]_CA!vars
    PROVE  CAAlone' /\ CALed' /\ CAFunding' /\ CAReads'
<1> USE DEF CA!TypeOK, CA!HandlersTypeOK, CA!Running,
            CA!ledgers, CA!At, CA!Start, CA!Goto, CA!Finish, CA!Absent, CA!Idle,
            CAInv, CAAlone, CALed, CAFunding, CAReads
<1>1. ASSUME NEW r \in Requests, NEW c \in Parts, NEW x \in BOOLEAN, NEW n \in Amounts,
             NEW d \in Days, CA!BeginRecord(r, c, x, n, d)
      PROVE  CAAlone' /\ CALed' /\ CAFunding' /\ CAReads'
  <2> HIDE DEF CA!TypeOK, CA!HandlersTypeOK, CA!Running,
               CA!ledgers, CA!At, CA!Start, CA!Goto, CA!Finish, CA!Absent, CA!Idle,
               CAAlone, CALed, CAFunding, CAReads
  <2> QED BY <1>1, CABegins DEF CA!BeginRecord
<1>2. ASSUME NEW r \in Requests, NEW c \in Parts, NEW d \in Days, NEW e \in Days,
             CA!BeginStatement(r, c, d, e)
      PROVE  CAAlone' /\ CALed' /\ CAFunding' /\ CAReads'
  <2> HIDE DEF CA!TypeOK, CA!HandlersTypeOK, CA!Running,
               CA!ledgers, CA!At, CA!Start, CA!Goto, CA!Finish, CA!Absent, CA!Idle,
               CAAlone, CALed, CAFunding, CAReads
  <2> QED BY <1>2, CABegins DEF CA!BeginStatement
<1>3. ASSUME NEW r \in Requests, CA!InsertMovement(r)
      PROVE  CAAlone' /\ CALed' /\ CAFunding' /\ CAReads'
  <2> HIDE DEF CA!TypeOK, CA!HandlersTypeOK, CA!Running,
               CA!ledgers, CA!At, CA!Start, CA!Goto, CA!Finish, CA!Absent, CA!Idle,
               CAAlone, CALed, CAFunding, CAReads
  <2>0. request[r] # CA!Idle /\ request[r].on \in Parts /\ CAGo(r)
        BY <1>3, CAGoes, CAOn DEF CA!InsertMovement
  <2>00. PICK c \in Parts : c = request[r].on
        BY <2>0
  <2>1. request[r] # CA!Idle /\ c \in Parts /\ c = request[r].on /\ CAGo(r)
        BY <2>0, <2>00
  <2>2. \A d \in Parts : d # c => movements'[d] = movements[d] /\ funds'[d] = funds[d] /\ (d \in unfunded' <=> d \in unfunded)
        BY <1>3, <2>1 DEF CA!InsertMovement, CA!Finish, CA!Goto, CA!ledgers, CAInv, CA!TypeOK
  <2>6. request[r] \in [pc : {"insertMovement"}, on : Parts, amount : Int, date : Days, before : Int]
    <3>1. request[r] \in CA!Running /\ request[r].pc = "insertMovement"
          BY <1>3, <2>1, CAOn DEF CA!InsertMovement, CA!At
    <3> QED BY <3>1 DEF CA!Running
  <2> DEFINE row == [amount |-> request[r].amount, date |-> request[r].date, before |-> request[r].before,
                     after |-> request[r].before + request[r].amount]
             s == movements[c]
  <2>70. /\ request[r].amount \in Int /\ request[r].date \in Days /\ request[r].before \in Int
         /\ request[r].before + request[r].amount \in Int
         BY <2>6
  <2>7. row \in CA!MovementRow /\ s \in Seq(CA!MovementRow) /\ row.amount \in Int /\ CA!TypeOK
        BY <2>1, <2>70 DEF CA!MovementRow, CAInv, CA!TypeOK
  <2>8. movements'[c] = Append(s, row) /\ funds'[c] = funds[c] /\ unfunded' = unfunded
        BY <1>3, <2>1, <2>6 DEF CA!InsertMovement, CAInv, CA!TypeOK
  <2>9. request'[r] = [pc |-> "findFunds", on |-> c, after |-> row.after]
        BY <1>3, <2>1 DEF CA!InsertMovement, CA!Goto, CAInv, CA!TypeOK, CA!HandlersTypeOK
  <2>10. PICK x \in Parts, m \in CA!MovementRow : x = c /\ m = row
         BY <2>1, <2>7
  <2>11. CA!Balance(x)' = CA!Balance(x) + m.amount /\ CA!Balance(x) \in Int
         BY <2>7, <2>8, <2>10, CAAppend, CABalance
  <2>12. c \notin raced => row.before = CA!Balance(x) /\ row.after = CA!Balance(x) + m.amount /\ CALeads(x)
         BY <2>1, <2>6, <2>10 DEF CAInv, CAReads, CARead, CALed
  <2>3. c \notin raced => CALeads(c)'
    <3> SUFFICES ASSUME c \notin raced PROVE CALeads(x)'
        BY <2>10
    <3> DEFINE n == Len(s)
               t == Append(s, row)
    <3>1. /\ n \in Nat /\ Len(t) = n + 1 /\ DOMAIN s = 1..n /\ DOMAIN t = 1..(n + 1) /\ t # <<>>
          /\ t[n + 1] = row /\ (s = <<>> <=> n = 0) /\ \A i \in 1..n : t[i] = s[i] /\ s[i] \in CA!MovementRow
      <4> HIDE DEF s, row
      <4> QED BY <2>7, CAOneMovement
    <3>2. n = 0 => CA!Balance(x) = 0
      <4>1. n = 0 => DOMAIN movements[x] = {}
            BY <2>10, <3>1
      <4> QED BY <4>1, SumEmpty, CASums DEF CA!Balance, CA!Sum
    <3>3. row.before = IF n = 0 THEN 0 ELSE s[n].after
          BY <2>10, <2>12, <3>1, <3>2 DEF CALeads
    <3>4. \A i \in 1..n : /\ s[i].before = IF i = 1 THEN 0 ELSE s[i - 1].after
                          /\ s[i].after = s[i].before + s[i].amount
          BY <2>10, <2>12, <3>1 DEF CALeads
    <3>5. row.after = row.before + row.amount /\ movements'[x] = t /\ funds'[x] = funds[x]
          BY <2>8, <2>10
    <3> HIDE DEF row, s, n, t
    <3>6. \A i \in 1..(n + 1) : /\ t[i].before = IF i = 1 THEN 0 ELSE t[i - 1].after
                                /\ t[i].after = t[i].before + t[i].amount
      <4> SUFFICES ASSUME NEW i \in 1..(n + 1)
                   PROVE  /\ t[i].before = IF i = 1 THEN 0 ELSE t[i - 1].after
                          /\ t[i].after = t[i].before + t[i].amount
          OBVIOUS
      <4>1. CASE i = n + 1
            BY <3>1, <3>3, <3>5, <4>1
      <4>2. CASE i \in 1..n
        <5>1. i = 1 \/ i - 1 \in 1..n
              BY <3>1, <4>2
        <5> QED BY <3>1, <3>4, <4>2, <5>1
      <4> QED BY <3>1, <4>1, <4>2
    <3>7. t[Len(t)].after = CA!Balance(x)'
          BY <2>10, <2>11, <2>12, <3>1
    <3> QED BY <2>12, <3>1, <3>5, <3>6, <3>7 DEF CALeads
  <2>4. c \notin raced /\ c \notin unfunded' /\ c \notin unfunded => CAFunded(c)'
        BY <2>9 DEF CAFunded
  <2>5. (c \in unfunded => c \in unfunded') /\ (c \notin raced /\ request'[r] # CA!Idle => CARead(r)')
    <3>1. request'[r].pc = "findFunds" /\ request'[r].on = x /\ request'[r].after = row.after
          BY <2>9, <2>10
    <3> HIDE DEF row
    <3> QED BY <2>8, <2>11, <2>12, <3>1 DEF CARead
  <2> QED BY <2>1, <2>2, <2>3, <2>4, <2>5, CAKeeps
<1>4. ASSUME NEW r \in Requests, CA!FindFunds(r)
      PROVE  CAAlone' /\ CALed' /\ CAFunding' /\ CAReads'
  <2> HIDE DEF CA!TypeOK, CA!HandlersTypeOK, CA!Running,
               CA!ledgers, CA!At, CA!Start, CA!Goto, CA!Finish, CA!Absent, CA!Idle,
               CAAlone, CALed, CAFunding, CAReads
  <2>0. request[r] # CA!Idle /\ request[r].on \in Parts /\ CAGo(r)
        BY <1>4, CAGoes, CAOn DEF CA!FindFunds
  <2>00. PICK c \in Parts : c = request[r].on
        BY <2>0
  <2>1. request[r] # CA!Idle /\ c \in Parts /\ c = request[r].on /\ CAGo(r)
        BY <2>0, <2>00
  <2>2. \A d \in Parts : d # c => movements'[d] = movements[d] /\ funds'[d] = funds[d] /\ (d \in unfunded' <=> d \in unfunded)
        BY <1>4, <2>1 DEF CA!FindFunds, CA!Finish, CA!Goto, CA!ledgers, CAInv, CA!TypeOK
  <2>6. /\ request[r].pc = "findFunds" /\ UNCHANGED <<movements, funds, unfunded>>
        /\ \E row \in IF funds[c] = <<>> THEN {0} ELSE DOMAIN funds[c] :
              request'[r] = [pc |-> "writeFunds", on |-> c, after |-> request[r].after, row |-> row]
        BY <1>4, <2>1 DEF CA!FindFunds, CA!At, CA!ledgers, CA!Goto, CAInv, CA!TypeOK,
           CA!HandlersTypeOK
  <2>7. PICK x \in Parts : x = c
        BY <2>1
  <2>8. CA!Balance(x)' = CA!Balance(x) /\ CALeads(x) => CALeads(x)'
        BY <2>6, CASame
  <2>3. c \notin raced => CALeads(c)'
        BY <2>6, <2>7, CASame DEF CAInv, CALed
  <2>4. c \notin raced /\ c \notin unfunded' /\ c \notin unfunded => CAFunded(c)'
        BY <2>6 DEF CAFunded
  <2>5. (c \in unfunded => c \in unfunded') /\ (c \notin raced /\ request'[r] # CA!Idle => CARead(r)')
    <3>0. CA!Balance(x)' = CA!Balance(x)
          BY <2>6, CASame
    <3>1. c \notin raced => request[r].after = CA!Balance(x) /\ Len(funds[x]) <= 1 /\ funds[x] \in Seq(Int)
          BY <2>1, <2>6, <2>7 DEF CAInv, CAReads, CARead, CALed, CALeads, CA!TypeOK
    <3>2. PICK k : /\ k \in (IF funds[x] = <<>> THEN {0} ELSE DOMAIN funds[x])
                   /\ request'[r] = [pc |-> "writeFunds", on |-> x, after |-> request[r].after, row |-> k]
          BY <2>6, <2>7
    <3>3. c \notin raced => (k = 0 <=> funds[x] = <<>>) /\ k <= 1
          BY <3>1, <3>2
    <3>4. request'[r].pc = "writeFunds" /\ request'[r].on = x /\ request'[r].after = request[r].after /\ request'[r].row = k
          BY <3>2
    <3> QED BY <2>6, <2>7, <3>0, <3>1, <3>3, <3>4 DEF CARead
  <2> QED BY <2>1, <2>2, <2>3, <2>4, <2>5, CAKeeps
<1>5. ASSUME NEW r \in Requests, CA!WriteFunds(r)
      PROVE  CAAlone' /\ CALed' /\ CAFunding' /\ CAReads'
  <2> HIDE DEF CA!TypeOK, CA!HandlersTypeOK, CA!Running,
               CA!ledgers, CA!At, CA!Start, CA!Goto, CA!Finish, CA!Absent, CA!Idle,
               CAAlone, CALed, CAFunding, CAReads
  <2>0. request[r] # CA!Idle /\ request[r].on \in Parts /\ CAGo(r)
        BY <1>5, CAGoes, CAOn DEF CA!WriteFunds
  <2>00. PICK c \in Parts : c = request[r].on
        BY <2>0
  <2>1. request[r] # CA!Idle /\ c \in Parts /\ c = request[r].on /\ CAGo(r)
        BY <2>0, <2>00
  <2>2. \A d \in Parts : d # c => movements'[d] = movements[d] /\ funds'[d] = funds[d] /\ (d \in unfunded' <=> d \in unfunded)
        BY <1>5, <2>1 DEF CA!WriteFunds, CA!Finish, CA!Goto, CA!ledgers, CAInv, CA!TypeOK
  <2>6. request[r] \in [pc : {"writeFunds"}, on : Parts, after : Int, row : Nat]
    <3>1. request[r] \in CA!Running /\ request[r].pc = "writeFunds"
          BY <1>5, <2>1, CAOn DEF CA!WriteFunds, CA!At
    <3> QED BY <3>1 DEF CA!Running
  <2>7. PICK x \in Parts : x = c
        BY <2>1
  <2>8. /\ movements' = movements /\ unfunded' = unfunded /\ request'[r] = CA!Idle
        /\ funds'[x] = IF request[r].row = 0 THEN Append(funds[x], request[r].after)
                       ELSE [funds[x] EXCEPT ![request[r].row] = request[r].after]
        BY <1>5, <2>1, <2>7 DEF CA!WriteFunds, CA!Finish, CA!Goto, CAInv, CA!TypeOK,
           CA!HandlersTypeOK
  <2>9. CA!Balance(x)' = CA!Balance(x)
        BY <2>8, CASame
  <2>10. c \notin raced => CALeads(x) /\ CARead(r) /\ funds[x] \in Seq(Int)
         BY <2>1, <2>7 DEF CAInv, CALed, CAReads, CA!TypeOK
  <2>11. c \notin raced => funds'[x] = <<CA!Balance(x)>>
    <3> SUFFICES ASSUME c \notin raced PROVE funds'[x] = <<CA!Balance(x)>>
        OBVIOUS
    <3>1. /\ request[r].after = CA!Balance(x) /\ (request[r].row = 0 <=> funds[x] = <<>>) /\ request[r].row <= 1
          /\ Len(funds[x]) <= 1
          BY <2>1, <2>6, <2>7, <2>10 DEF CARead, CALeads
    <3> DEFINE s == funds[x]
               b == CA!Balance(x)
    <3>2. s \in Seq(Int) /\ b \in Int
          BY <2>10, CABalance DEF CAInv
    <3>21. /\ s = <<>> => Append(s, b) = <<b>>
           /\ s # <<>> /\ Len(s) <= 1 => [s EXCEPT ![1] = b] = <<b>>
      <4> HIDE DEF s, b
      <4> QED BY <3>2, CAPutAt
    <3>3. CASE request[r].row = 0
          BY <2>8, <3>1, <3>21, <3>3
    <3>4. CASE request[r].row # 0
      <4>1. request[r].row = 1 /\ s # <<>> /\ Len(s) <= 1
            BY <2>6, <3>1, <3>4
      <4> QED BY <2>8, <3>1, <3>21, <4>1, <3>4
    <3> QED BY <3>3, <3>4
  <2>3. c \notin raced => CALeads(c)'
    <3> SUFFICES ASSUME c \notin raced PROVE CALeads(x)'
        BY <2>7
    <3>1. Len(funds'[x]) <= 1
      <4> DEFINE b == CA!Balance(x)
      <4>1. funds'[x] = <<b>>
            BY <2>11
      <4> HIDE DEF b
      <4> QED BY <4>1
    <3> QED BY <2>8, <2>9, <2>10, <3>1 DEF CALeads
  <2>4. c \notin raced /\ c \notin unfunded' /\ c \notin unfunded => CAFunded(c)'
    <3> SUFFICES ASSUME c \notin raced PROVE CAFunded(x)'
        BY <2>7
    <3> QED BY <2>9, <2>11 DEF CAFunded
  <2>5. (c \in unfunded => c \in unfunded') /\ (c \notin raced /\ request'[r] # CA!Idle => CARead(r)')
        BY <2>8
  <2> QED BY <2>1, <2>2, <2>3, <2>4, <2>5, CAKeeps
<1>6. ASSUME NEW r \in Requests, CA!FindMovements(r)
      PROVE  CAAlone' /\ CALed' /\ CAFunding' /\ CAReads'
  <2> HIDE DEF CA!TypeOK, CA!HandlersTypeOK, CA!Running,
               CA!ledgers, CA!At, CA!Start, CA!Goto, CA!Finish, CA!Absent, CA!Idle,
               CAAlone, CALed, CAFunding, CAReads
  <2>0. request[r] # CA!Idle /\ request[r].on \in Parts /\ CAGo(r)
        BY <1>6, CAGoes, CAOn DEF CA!FindMovements
  <2>00. PICK c \in Parts : c = request[r].on
        BY <2>0
  <2>1. request[r] # CA!Idle /\ c \in Parts /\ c = request[r].on /\ CAGo(r)
        BY <2>0, <2>00
  <2>2. \A d \in Parts : d # c => movements'[d] = movements[d] /\ funds'[d] = funds[d] /\ (d \in unfunded' <=> d \in unfunded)
        BY <1>6, <2>1 DEF CA!FindMovements, CA!Finish, CA!Goto, CA!ledgers, CAInv, CA!TypeOK
  <2>6. request[r].pc = "findMovements" /\ UNCHANGED <<movements, funds, unfunded>>
        BY <1>6 DEF CA!FindMovements, CA!At, CA!ledgers
  <2>7. PICK x \in Parts : x = c
        BY <2>1
  <2>8. CA!Balance(x)' = CA!Balance(x)
        BY <2>6, CASame
  <2>3. c \notin raced => CALeads(c)'
        BY <2>6, <2>7, CASame DEF CAInv, CALed
  <2>4. c \notin raced /\ c \notin unfunded' /\ c \notin unfunded => CAFunded(c)'
    <3> SUFFICES ASSUME x \notin raced, x \notin unfunded PROVE CAFunded(x)'
        BY <2>7
    <3>1. CAFunded(x)
          BY DEF CAInv, CAFunding
    <3>2. (\A q \in Requests : request'[q].pc \in {"findFunds", "writeFunds"} => request'[q].on # x) =>
              \A q \in Requests : request[q].pc \in {"findFunds", "writeFunds"} => request[q].on # x
          BY <2>1, <2>6 DEF CAGo
    <3> QED BY <2>6, <2>8, <3>1, <3>2 DEF CAFunded
  <2>5. (c \in unfunded => c \in unfunded') /\ (c \notin raced /\ request'[r] # CA!Idle => CARead(r)')
        BY <1>6, <2>1, <2>6, CAMakes
  <2> QED BY <2>1, <2>2, <2>3, <2>4, <2>5, CAKeeps
<1>7. ASSUME NEW r \in Requests, CA!InsertStatement(r)
      PROVE  CAAlone' /\ CALed' /\ CAFunding' /\ CAReads'
  <2> HIDE DEF CA!TypeOK, CA!HandlersTypeOK, CA!Running,
               CA!ledgers, CA!At, CA!Start, CA!Goto, CA!Finish, CA!Absent, CA!Idle,
               CAAlone, CALed, CAFunding, CAReads
  <2>0. request[r] # CA!Idle /\ request[r].on \in Parts /\ CAGo(r)
        BY <1>7, CAGoes, CAOn DEF CA!InsertStatement
  <2>00. PICK c \in Parts : c = request[r].on
        BY <2>0
  <2>1. request[r] # CA!Idle /\ c \in Parts /\ c = request[r].on /\ CAGo(r)
        BY <2>0, <2>00
  <2>2. \A d \in Parts : d # c => movements'[d] = movements[d] /\ funds'[d] = funds[d] /\ (d \in unfunded' <=> d \in unfunded)
        BY <1>7, <2>1 DEF CA!InsertStatement, CA!Finish, CA!Goto, CA!ledgers, CAInv, CA!TypeOK
  <2>6. request[r].pc = "insertStatement" /\ UNCHANGED <<movements, funds, unfunded>> /\ request'[r] = CA!Idle
        BY <1>7 DEF CA!InsertStatement, CA!At, CA!Finish, CA!Goto, CAInv, CA!TypeOK,
           CA!HandlersTypeOK
  <2>7. PICK x \in Parts : x = c
        BY <2>1
  <2>8. CA!Balance(x)' = CA!Balance(x)
        BY <2>6, CASame
  <2>3. c \notin raced => CALeads(c)'
        BY <2>6, <2>7, CASame DEF CAInv, CALed
  <2>4. c \notin raced /\ c \notin unfunded' /\ c \notin unfunded => CAFunded(c)'
    <3> SUFFICES ASSUME x \notin raced, x \notin unfunded PROVE CAFunded(x)'
        BY <2>7
    <3>1. CAFunded(x)
          BY DEF CAInv, CAFunding
    <3> QED BY <2>1, <2>6, <2>8, <3>1 DEF CAFunded, CAGo
  <2>5. (c \in unfunded => c \in unfunded') /\ (c \notin raced /\ request'[r] # CA!Idle => CARead(r)')
        BY <2>6
  <2> QED BY <2>1, <2>2, <2>3, <2>4, <2>5, CAKeeps
<1>8. ASSUME NEW r \in Requests, CA!Abort(r)
      PROVE  CAAlone' /\ CALed' /\ CAFunding' /\ CAReads'
  <2> HIDE DEF CA!TypeOK, CA!HandlersTypeOK, CA!Running,
               CA!ledgers, CA!At, CA!Start, CA!Goto, CA!Finish, CA!Absent, CA!Idle,
               CAAlone, CALed, CAFunding, CAReads
  <2>0. request[r] # CA!Idle /\ request[r].on \in Parts /\ CAGo(r)
        BY <1>8, CAGoes, CAOn DEF CA!Abort, CA!Stop
  <2>00. PICK c \in Parts : c = request[r].on
        BY <2>0
  <2>1. request[r] # CA!Idle /\ c \in Parts /\ c = request[r].on /\ CAGo(r)
        BY <2>0, <2>00
  <2>2. \A d \in Parts : d # c => movements'[d] = movements[d] /\ funds'[d] = funds[d] /\ (d \in unfunded' <=> d \in unfunded)
        BY <1>8, <2>1 DEF CA!Abort, CA!Stop, CA!Finish, CA!Goto, CA!ledgers, CAInv, CA!TypeOK
  <2>6. /\ UNCHANGED <<movements, funds>> /\ request'[r] = CA!Idle
        /\ unfunded' = IF request[r].pc \in {"findFunds", "writeFunds"} THEN unfunded \cup {c} ELSE unfunded
        BY <1>8, <2>1 DEF CA!Abort, CA!Stop, CA!Finish, CA!Goto, CAInv, CA!TypeOK,
           CA!HandlersTypeOK
  <2>7. PICK x \in Parts : x = c
        BY <2>1
  <2>8. CA!Balance(x)' = CA!Balance(x)
        BY <2>6, CASame
  <2>3. c \notin raced => CALeads(c)'
        BY <2>6, <2>7, CASame DEF CAInv, CALed
  <2>4. c \notin raced /\ c \notin unfunded' /\ c \notin unfunded => CAFunded(c)'
    <3> SUFFICES ASSUME x \notin raced, x \notin unfunded, x \notin unfunded' PROVE CAFunded(x)'
        BY <2>7
    <3>1. CAFunded(x) /\ request[r].pc \notin {"findFunds", "writeFunds"}
          BY <2>6, <2>7 DEF CAInv, CAFunding
    <3> QED BY <2>1, <2>6, <2>8, <3>1 DEF CAFunded, CAGo
  <2>5. (c \in unfunded => c \in unfunded') /\ (c \notin raced /\ request'[r] # CA!Idle => CARead(r)')
        BY <2>6
  <2> QED BY <2>1, <2>2, <2>3, <2>4, <2>5, CAKeeps
<1>9. CASE UNCHANGED CA!vars
  <2>1. movements' = movements /\ funds' = funds /\ unfunded' = unfunded /\ request' = request /\ raced' = raced
        BY <1>9 DEF CA!vars
  <2>2. \A c : CA!Balance(c)' = CA!Balance(c) /\ CALeads(c) => CALeads(c)'
        BY <2>1, CASame
  <2>3. \A c : CA!Balance(c)' = CA!Balance(c)
        BY <2>1, CASame
  <2>4. \A c, from, to : CA!Sum(c, CA!InPeriod(c, from, to))' = CA!Sum(c, CA!InPeriod(c, from, to))
        BY <2>1, CASame
  <2>5. CAAlone'
        BY <2>1
  <2>6. CALed'
        BY <2>1, CASame
  <2>7. CAFunding'
    <3> SUFFICES ASSUME NEW c \in Parts, c \notin raced, c \notin unfunded PROVE CAFunded(c)'
        BY <2>1
    <3>1. CAFunded(c) /\ CA!Balance(c)' = CA!Balance(c)
          BY <2>3
    <3> QED BY <2>1, <3>1 DEF CAFunded
  <2>8. CAReads'
    <3> SUFFICES ASSUME NEW q \in Requests, request[q] # CA!Idle, request[q].on \notin raced PROVE CARead(q)'
        BY <2>1 DEF CA!Idle
    <3>2. PICK d, from, to : d = request[q].on /\ from = request[q].row.from /\ to = request[q].row.to
          OBVIOUS
    <3>3. CA!Sum(d, CA!InPeriod(d, from, to))' = CA!Sum(d, CA!InPeriod(d, from, to)) /\ CA!Balance(d)' = CA!Balance(d)
          BY <2>3, <2>4
    <3> HIDE DEF CAAlone, CALed, CAFunding
    <3>4. CARead(q)
          OBVIOUS
    <3> QED BY <2>1, <3>2, <3>3, <3>4 DEF CARead
  <2> QED BY <2>5, <2>6, <2>7, <2>8
<1> HIDE DEF CA!TypeOK, CA!HandlersTypeOK, CA!Running,
             CA!ledgers, CA!At, CA!Start, CA!Goto, CA!Finish, CA!Absent, CA!Idle,
             CAInv, CAAlone, CALed, CAFunding, CAReads
<1> QED BY <1>1, <1>2, <1>3, <1>4, <1>5, <1>6, <1>7, <1>8, <1>9 DEF CA!Next

\* What the invariant says of movements and funds.
LEMMA CATells == CAInv => CA!BalancesLead /\ CA!FundsFollow
<1> SUFFICES ASSUME CAInv PROVE CA!BalancesLead /\ CA!FundsFollow
    OBVIOUS
<1>1. CA!BalancesLead
      BY DEF CA!BalancesLead, CAInv, CALed, CALeads
<1>2. CA!FundsFollow
  <2> SUFFICES ASSUME NEW c \in Parts, c \notin raced, c \notin unfunded, ~CA!Handled(c), movements[c] # <<>>
               PROVE  funds[c] = <<CA!Balance(c)>>
      BY DEF CA!FundsFollow
  <2>1. \A r \in Requests : request[r].pc \in {"findFunds", "writeFunds"} => request[r].on # c
        BY DEF CA!Handled, CA!Idle
  <2> QED BY <2>1 DEF CAInv, CAFunding, CAFunded
<1> QED BY <1>1, <1>2

\* What is inserted counts the period twice.
LEMMA CATwiceStep == ASSUME CAInv, [CA!Next]_CA!vars PROVE CATwice
<1> SUFFICES ASSUME NEW c \in Parts, c \notin raced', statement'[c] # statement[c],
                    statement'[c].movementCount < PageLimit
             PROVE  /\ statement'[c].opening = CA!Balance(c)
                    /\ statement'[c].closing =
                          CA!Balance(c) + CA!Sum(c, CA!InPeriod(c, statement'[c].from, statement'[c].to))
    BY DEF CATwice
<1>1. PICK r \in Requests : CA!InsertStatement(r) /\ request[r].on = c
  <2>1. statement' = statement \/ \E r \in Requests : CA!InsertStatement(r)
        BY DEF CA!Next, CA!vars, CA!ledgers, CA!BeginRecord, CA!BeginStatement,
           CA!InsertMovement, CA!FindFunds, CA!WriteFunds,
               CA!FindMovements, CA!Abort
  <2>2. ASSUME NEW r \in Requests, CA!InsertStatement(r) PROVE request[r].on = c
        BY <2>2 DEF CA!InsertStatement, CAInv, CA!TypeOK
  <2> QED BY <2>1, <2>2
<1>2. /\ request[r] # CA!Idle /\ request[r].pc = "insertStatement" /\ statement'[c] = request[r].row
      /\ c \notin raced
      BY <1>1, CAGoes DEF CA!InsertStatement, CA!At, CA!Finish, CA!Goto, CAInv, CA!TypeOK
<1> QED BY <1>1, <1>2 DEF CAInv, CAReads, CARead

\* Every step keeps the invariant.
LEMMA CAInvStep == ASSUME CAInv, [CA!Next]_CA!vars PROVE CAInv'
BY CATypeStep, CARestStep DEF CAInv

(***************************************************************************)
(* Expense accounts.                                                       *)
(***************************************************************************)

\* Two handlers of one account are remembered.
XAAlone ==
    \A q, r \in Requests :
        request[q] # XA!Idle /\ request[r] # XA!Idle /\ request[q].on = request[r].on
            /\ request[q].on \notin raced => q = r

\* Only what can be edited is being edited, and a status follows the one there is.
XAEdits ==
    \A r \in Requests :
        request[r] # XA!Idle /\ request[r].on \notin raced /\ XA!Found(request[r].on) =>
            LET s == expense[request[r].on].status IN
            IF request[r].pc = "writeStatus" THEN request[r].new \in XA!Transitions[s] ELSE s = "DRAFT"

\* The item about to be deleted is one of the account.
XAFound ==
    \A r \in Requests : XA!At(r, "deleteItem") =>
        /\ request[r].i \in Rows /\ expenseItem[request[r].i] # XA!Absent
        /\ XA!Present(expenseItem[request[r].i]) => expenseItem[request[r].i].of = request[r].on

XAItems == \A i \in Rows : XA!Present(expenseItem[i]) => expense[expenseItem[i].of] # XA!Absent

XAAmong(i, x) == XA!Present(expenseItem[i]) /\ expenseItem[i].of = x

XATotals ==
    \A x \in Parts \ (raced \cup untotalled) : XA!Found(x) =>
        \/ \A i \in Rows : i \in expense[x].total <=> XAAmong(i, x)
        \/ \E r \in Requests : request[r].pc \in {"readItems", "writeTotal"} /\ request[r].on = x

XAWrites ==
    \A r \in Requests : XA!At(r, "writeTotal") /\ request[r].on \notin raced =>
        \A i \in Rows : i \in request[r].total <=> XAAmong(i, request[r].on)

XAInv == XA!TypeOK /\ XAAlone /\ XAEdits /\ XAFound /\ XAItems /\ XATotals /\ XAWrites

\* What the client approved is neither taken back nor given other items.
XAFixed ==
    \A x \in Parts \ (raced' \cup untotalled) :
        XA!Found(x) /\ expense[x].status \in {"APPROVED_BY_CLIENT", "INVOICED", "CLOSED"} =>
            /\ XA!Found(x)'
            /\ expense'[x].status \in {"APPROVED_BY_CLIENT", "INVOICED", "CLOSED"}
            /\ expense'[x].total = expense[x].total
            /\ {i \in Rows : XA!Present(expenseItem'[i]) /\ expenseItem'[i].of = x} = XA!ItemsOf(x)

XAGoes(r, h) == request'[r] = h /\ \A q \in Requests \ {r} : request'[q] = request[q]

\* There are no accounts at first.
LEMMA XAStart == XA!Init => XAInv
<1> SUFFICES ASSUME XA!Init PROVE XAInv
    OBVIOUS
<1>1. XA!TypeOK
      BY StartedAssumption DEF XA!Init, XA!HandlersInit, XA!TypeOK, XA!HandlersTypeOK
<1> QED BY <1>1 DEF XA!Init, XA!HandlersInit, XAInv, XAAlone, XAEdits, XAFound, XAItems,
           XATotals, XAWrites,
             XA!Found, XA!Present, XA!At, XA!Idle

\* Rows that are there are neither absent nor gone.
LEMMA XARows ==
    /\ \A x \in XA!ExpenseRow : x \notin {XA!Absent, XA!Gone}
    /\ \A x \in XA!ItemRow : x \notin {XA!Absent, XA!Gone}
BY DEF XA!ExpenseRow, XA!ItemRow, XA!Absent, XA!Gone

\* A handler is about an account.
LEMMA XAOn == XAInv => \A r \in Requests : request[r] # XA!Idle => request[r].on \in Parts
<1> SUFFICES ASSUME XAInv, NEW r \in Requests, request[r] # XA!Idle PROVE request[r].on \in Parts
    OBVIOUS
<1>1. request[r] \in XA!Running
      BY DEF XAInv, XA!TypeOK, XA!HandlersTypeOK
<1> QED BY <1>1 DEF XA!Running

\* An item is of an account.
LEMMA XAOf == XAInv => \A i \in Rows : XA!Present(expenseItem[i]) => expenseItem[i].of \in Parts
BY DEF XAInv, XA!TypeOK, XA!ItemRow, XA!Present

\* Every step keeps the types.
LEMMA XATypeStep ==
    ASSUME XAInv, [XA!Next]_XA!vars
    PROVE  XA!TypeOK'
<1> USE StartedAssumption DEF XA!TypeOK, XA!HandlersTypeOK, XA!Statuses, XA!EditableStatuses,
        XA!ExpenseRow, XA!ItemRow, XA!Running,
            XA!expenses, XA!Found, XA!Present, XA!At, XA!Start, XA!Once, XA!Goto, XA!Finish,
            XA!Absent, XA!Gone, XA!Idle,
            XAInv, XA!Editable, XA!ItemsOf
<1>1. ASSUME NEW r \in Requests, NEW x \in Parts, XA!CreateExpenseAccount(r, x)
      PROVE  XA!TypeOK'
      BY <1>1 DEF XA!CreateExpenseAccount
<1>2. ASSUME NEW r \in Requests, NEW x \in Parts, XA!BeginUpdate(r, x)
      PROVE  XA!TypeOK'
      BY <1>2 DEF XA!BeginUpdate
<1>3. ASSUME NEW r \in Requests, NEW x \in Parts, XA!BeginDelete(r, x)
      PROVE  XA!TypeOK'
      BY <1>3 DEF XA!BeginDelete
<1>4. ASSUME NEW r \in Requests, NEW x \in Parts, XA!BeginAddItem(r, x)
      PROVE  XA!TypeOK'
      BY <1>4 DEF XA!BeginAddItem
<1>5. ASSUME NEW r \in Requests, NEW x \in Parts, NEW s \in XA!Statuses, XA!BeginChangeStatus(r, x, s)
      PROVE  XA!TypeOK'
      BY <1>5 DEF XA!BeginChangeStatus
<1>6. ASSUME NEW r \in Requests, NEW x \in Parts, NEW i \in Rows, XA!BeginRemoveItem(r, x, i)
      PROVE  XA!TypeOK'
      BY <1>6 DEF XA!BeginRemoveItem
<1>7. ASSUME NEW r \in Requests, NEW i \in Rows, XA!InsertItem(r, i)
      PROVE  XA!TypeOK'
      BY <1>7 DEF XA!InsertItem
<1>8. ASSUME NEW r \in Requests, XA!UpdateExpenseAccount(r)
      PROVE  XA!TypeOK'
      BY <1>8 DEF XA!UpdateExpenseAccount
<1>9. ASSUME NEW r \in Requests, XA!DeleteExpenseAccount(r)
      PROVE  XA!TypeOK'
      BY <1>9 DEF XA!DeleteExpenseAccount
<1>10. ASSUME NEW r \in Requests, XA!WriteStatus(r)
      PROVE  XA!TypeOK'
  <2> HIDE DEF XA!TypeOK, XA!HandlersTypeOK, XA!Statuses, XA!EditableStatuses, XA!ExpenseRow,
           XA!ItemRow, XA!Running,
               XA!expenses, XA!Found, XA!Present, XA!At, XA!Start, XA!Once, XA!Goto, XA!Finish,
               XA!Absent, XA!Gone, XA!Idle,
               XA!Editable, XA!ItemsOf
  <2>1. request[r].on \in Parts /\ request[r].new \in XA!Statuses
    <3>1. request[r] \in XA!Running /\ request[r].pc = "writeStatus"
          BY <1>10 DEF XA!WriteStatus, XA!At, XA!TypeOK, XA!HandlersTypeOK, XA!Idle, XAInv
    <3> QED BY <3>1 DEF XA!Running
  <2>2. XA!Found(request[r].on) => [expense[request[r].on] EXCEPT !.status = request[r].new] \in XA!ExpenseRow
        BY <2>1 DEF XAInv, XA!Found, XA!Present, XA!TypeOK, XA!ExpenseRow
  <2> QED BY <1>10, <2>1, <2>2 DEF XA!WriteStatus, XA!Goto, XA!Finish, XA!TypeOK,
             XA!HandlersTypeOK, XAInv
<1>11. ASSUME NEW r \in Requests, XA!FindItem(r)
      PROVE  XA!TypeOK'
  <2> HIDE DEF XA!TypeOK, XA!HandlersTypeOK, XA!Statuses, XA!EditableStatuses, XA!ExpenseRow,
           XA!ItemRow, XA!Running,
               XA!expenses, XA!Found, XA!Present, XA!At, XA!Start, XA!Once, XA!Goto, XA!Finish,
               XA!Absent, XA!Gone, XA!Idle,
               XA!Editable, XA!ItemsOf
  <2>1. request[r] \in [pc : {"findItem"}, on : Parts, i : Rows]
        BY <1>11 DEF XA!FindItem, XA!At, XA!TypeOK, XA!HandlersTypeOK, XA!Running, XA!Idle,
           XAInv
  <2>2. [request[r] EXCEPT !.pc = "deleteItem"] \in XA!Running
        BY <2>1 DEF XA!Running
  <2>3. request' \in [Requests -> XA!Running \cup {XA!Idle}]
        BY <1>11, <2>2 DEF XA!FindItem, XA!Goto, XA!Finish, XA!TypeOK, XA!HandlersTypeOK, XAInv
  <2> QED BY <1>11, <2>3 DEF XA!FindItem, XA!Goto, XA!Finish, XA!TypeOK, XA!HandlersTypeOK,
             XA!expenses, XAInv
<1>12. ASSUME NEW r \in Requests, XA!DeleteItem(r)
      PROVE  XA!TypeOK'
      BY <1>12 DEF XA!DeleteItem
<1>13. ASSUME NEW r \in Requests, XA!ReadItems(r)
      PROVE  XA!TypeOK'
      BY <1>13 DEF XA!ReadItems
<1>14. ASSUME NEW r \in Requests, XA!WriteTotal(r)
      PROVE  XA!TypeOK'
  <2> HIDE DEF XA!TypeOK, XA!HandlersTypeOK, XA!Statuses, XA!EditableStatuses, XA!ExpenseRow,
           XA!ItemRow, XA!Running,
               XA!expenses, XA!Found, XA!Present, XA!At, XA!Start, XA!Once, XA!Goto, XA!Finish,
               XA!Absent, XA!Gone, XA!Idle,
               XA!Editable, XA!ItemsOf
  <2>1. request[r].on \in Parts /\ request[r].total \in SUBSET Rows
    <3>1. request[r] \in XA!Running /\ request[r].pc = "writeTotal"
          BY <1>14 DEF XA!WriteTotal, XA!At, XA!TypeOK, XA!HandlersTypeOK, XA!Idle, XAInv
    <3> QED BY <3>1 DEF XA!Running
  <2>2. XA!Found(request[r].on) => [expense[request[r].on] EXCEPT !.total = request[r].total] \in XA!ExpenseRow
        BY <2>1 DEF XAInv, XA!Found, XA!Present, XA!TypeOK, XA!ExpenseRow
  <2> QED BY <1>14, <2>1, <2>2 DEF XA!WriteTotal, XA!Goto, XA!Finish, XA!TypeOK,
             XA!HandlersTypeOK, XAInv
<1>15. ASSUME NEW r \in Requests, XA!Abort(r)
      PROVE  XA!TypeOK'
      BY <1>15 DEF XA!Abort, XA!Stop
<1>16. CASE UNCHANGED XA!vars
      BY <1>16 DEF XA!vars
<1> HIDE DEF XA!TypeOK, XA!HandlersTypeOK, XA!Statuses, XA!EditableStatuses, XA!ExpenseRow,
         XA!ItemRow, XA!Running,
             XA!expenses, XA!Found, XA!Present, XA!At, XA!Start, XA!Once, XA!Goto, XA!Finish,
             XA!Absent, XA!Gone, XA!Idle,
             XAInv, XA!Editable, XA!ItemsOf
<1> QED BY <1>1, <1>2, <1>3, <1>4, <1>5, <1>6, <1>7, <1>8, <1>9, <1>10, <1>11, <1>12, <1>13,
           <1>14, <1>15, <1>16 DEF XA!Next

\* What finding an item and writing a status or a total do, in records.
XALooked(r) ==
    LET i == request[r].i IN
    /\ UNCHANGED <<expense, expenseItem, untotalled, raced>> /\ XA!At(r, "findItem")
    /\ \/ XAGoes(r, XA!Idle)
       \/ /\ XAGoes(r, [pc |-> "deleteItem", on |-> request[r].on, i |-> i])
          /\ i \in Rows /\ expenseItem[i] # XA!Absent /\ XA!Present(expenseItem[i]) /\ expenseItem[i].of = request[r].on

XAWritten(r) ==
    LET x == request[r].on IN
    /\ UNCHANGED <<expenseItem, untotalled, raced>> /\ XAGoes(r, XA!Idle) /\ XA!At(r, "writeStatus") /\ x \in Parts
    /\ \A y \in Parts \ {x} : expense'[y] = expense[y]
    /\ XA!Present(expense'[x]) <=> XA!Present(expense[x])
    /\ expense'[x] = XA!Absent <=> expense[x] = XA!Absent
    /\ XA!Present(expense[x]) => /\ expense'[x].status = request[r].new
                                 /\ expense'[x].total = expense[x].total
                                 /\ expense[x].status \in XA!Statuses

XATotalled(r) ==
    LET x == request[r].on IN
    /\ UNCHANGED <<expenseItem, untotalled, raced>> /\ XAGoes(r, XA!Idle) /\ XA!At(r, "writeTotal") /\ x \in Parts
    /\ \A y \in Parts \ {x} : expense'[y] = expense[y]
    /\ XA!Present(expense'[x]) <=> XA!Present(expense[x])
    /\ expense'[x] = XA!Absent <=> expense[x] = XA!Absent
    /\ XA!Present(expense[x]) => /\ expense'[x].status = expense[x].status
                                 /\ expense'[x].total = request[r].total

\* Looking for an item finds one of the account, or ends.
LEMMA XALook == ASSUME XAInv, NEW r \in Requests, XA!FindItem(r) PROVE XALooked(r)
<1>1. request[r] \in [pc : {"findItem"}, on : Parts, i : Rows]
      BY DEF XA!FindItem, XA!At, XA!TypeOK, XA!HandlersTypeOK, XA!Running, XA!Idle, XAInv
<1>2. [request[r] EXCEPT !.pc = "deleteItem"] = [pc |-> "deleteItem", on |-> request[r].on, i |-> request[r].i]
      BY <1>1
<1>3. XA!Present(expenseItem[request[r].i]) => expenseItem[request[r].i] # XA!Absent
      BY <1>1 DEF XA!Present
<1> QED BY <1>1, <1>2, <1>3 DEF XA!FindItem, XA!Goto, XA!Finish, XA!ItemsOf, XA!expenses,
           XALooked, XAGoes, XAInv, XA!TypeOK, XA!HandlersTypeOK

\* Writing a status leaves the total.
LEMMA XAWrite == ASSUME XAInv, NEW r \in Requests, XA!WriteStatus(r) PROVE XAWritten(r)
<1>1. request[r].on \in Parts /\ request[r].new \in XA!Statuses
  <2>1. request[r] \in XA!Running /\ request[r].pc = "writeStatus"
        BY DEF XA!WriteStatus, XA!At, XA!TypeOK, XA!HandlersTypeOK, XA!Idle, XAInv
  <2> QED BY <2>1 DEF XA!Running
<1> DEFINE row == [expense[request[r].on] EXCEPT !.status = request[r].new]
<1>2. XA!Found(request[r].on) => /\ row \in XA!ExpenseRow /\ row.status = request[r].new
                                 /\ row.total = expense[request[r].on].total
                                 /\ expense[request[r].on].status \in XA!Statuses
      BY <1>1 DEF XAInv, XA!Found, XA!Present, XA!TypeOK, XA!ExpenseRow
<1>3. expense' = IF XA!Found(request[r].on) THEN [expense EXCEPT ![request[r].on] = row] ELSE expense
      BY <1>1 DEF XA!WriteStatus
<1> HIDE DEF row
<1>4. XA!Found(request[r].on) => XA!Present(row) /\ row # XA!Absent /\ expense[request[r].on] # XA!Absent
      BY <1>2, XARows DEF XA!Present, XA!Found
<1> QED BY <1>1, <1>2, <1>3, <1>4 DEF XA!WriteStatus, XA!Finish, XA!Goto, XA!At, XA!Found,
           XAGoes, XAWritten, XAInv, XA!TypeOK, XA!HandlersTypeOK

\* Writing a total leaves the status.
LEMMA XATotal == ASSUME XAInv, NEW r \in Requests, XA!WriteTotal(r) PROVE XATotalled(r)
<1>1. request[r].on \in Parts /\ request[r].total \in SUBSET Rows
  <2>1. request[r] \in XA!Running /\ request[r].pc = "writeTotal"
        BY DEF XA!WriteTotal, XA!At, XA!TypeOK, XA!HandlersTypeOK, XA!Idle, XAInv
  <2> QED BY <2>1 DEF XA!Running
<1> DEFINE row == [expense[request[r].on] EXCEPT !.total = request[r].total]
<1>2. XA!Found(request[r].on) => /\ row \in XA!ExpenseRow /\ row.total = request[r].total
                                 /\ row.status = expense[request[r].on].status
      BY <1>1 DEF XAInv, XA!Found, XA!Present, XA!TypeOK, XA!ExpenseRow
<1>3. expense' = IF XA!Found(request[r].on) THEN [expense EXCEPT ![request[r].on] = row] ELSE expense
      BY <1>1 DEF XA!WriteTotal
<1> HIDE DEF row
<1>4. XA!Found(request[r].on) => XA!Present(row) /\ row # XA!Absent /\ expense[request[r].on] # XA!Absent
      BY <1>2, XARows DEF XA!Present, XA!Found
<1> QED BY <1>1, <1>2, <1>3, <1>4 DEF XA!WriteTotal, XA!Finish, XA!Goto, XA!At, XA!Found,
           XAGoes, XATotalled, XAInv, XA!TypeOK, XA!HandlersTypeOK

\* Every step keeps what the handlers found.
LEMMA XARestStep ==
    ASSUME XAInv, [XA!Next]_XA!vars
    PROVE  XAAlone' /\ XAEdits' /\ XAFound' /\ XAItems'
<1> USE DEF XA!TypeOK, XA!HandlersTypeOK, XA!Statuses, XA!EditableStatuses, XA!ExpenseRow,
        XA!ItemRow, XA!Running,
            XA!expenses, XA!Found, XA!Present, XA!At, XA!Start, XA!Once, XA!Goto, XA!Finish,
            XA!Absent, XA!Gone, XA!Idle,
            XAInv, XA!Editable, XA!ItemsOf, XA!Handled, XAAlone, XAEdits, XAFound, XAItems
<1>1. ASSUME NEW r \in Requests, NEW x \in Parts, XA!CreateExpenseAccount(r, x)
      PROVE  XAAlone' /\ XAEdits' /\ XAFound' /\ XAItems'
      BY <1>1 DEF XA!CreateExpenseAccount
<1>2. ASSUME NEW r \in Requests, NEW x \in Parts, XA!BeginUpdate(r, x)
      PROVE  XAAlone' /\ XAEdits' /\ XAFound' /\ XAItems'
      BY <1>2 DEF XA!BeginUpdate
<1>3. ASSUME NEW r \in Requests, NEW x \in Parts, XA!BeginDelete(r, x)
      PROVE  XAAlone' /\ XAEdits' /\ XAFound' /\ XAItems'
      BY <1>3 DEF XA!BeginDelete
<1>4. ASSUME NEW r \in Requests, NEW x \in Parts, XA!BeginAddItem(r, x)
      PROVE  XAAlone' /\ XAEdits' /\ XAFound' /\ XAItems'
      BY <1>4 DEF XA!BeginAddItem
<1>5. ASSUME NEW r \in Requests, NEW x \in Parts, NEW s \in XA!Statuses, XA!BeginChangeStatus(r, x, s)
      PROVE  XAAlone' /\ XAEdits' /\ XAFound' /\ XAItems'
      BY <1>5 DEF XA!BeginChangeStatus
<1>6. ASSUME NEW r \in Requests, NEW x \in Parts, NEW i \in Rows, XA!BeginRemoveItem(r, x, i)
      PROVE  XAAlone' /\ XAEdits' /\ XAFound' /\ XAItems'
      BY <1>6 DEF XA!BeginRemoveItem
<1>7. ASSUME NEW r \in Requests, NEW i \in Rows, XA!InsertItem(r, i)
      PROVE  XAAlone' /\ XAEdits' /\ XAFound' /\ XAItems'
  <2>1. XAAlone'
        BY <1>7 DEF XA!InsertItem
  <2>2. XAEdits'
        BY <1>7 DEF XA!InsertItem
  <2>3. XAFound'
        BY <1>7 DEF XA!InsertItem
  <2>4. XAItems'
        BY <1>7 DEF XA!InsertItem
  <2> QED BY <2>1, <2>2, <2>3, <2>4
<1>8. ASSUME NEW r \in Requests, XA!UpdateExpenseAccount(r)
      PROVE  XAAlone' /\ XAEdits' /\ XAFound' /\ XAItems'
      BY <1>8 DEF XA!UpdateExpenseAccount
<1>9. ASSUME NEW r \in Requests, XA!DeleteExpenseAccount(r)
      PROVE  XAAlone' /\ XAEdits' /\ XAFound' /\ XAItems'
      BY <1>9 DEF XA!DeleteExpenseAccount
<1>10. ASSUME NEW r \in Requests, XA!WriteStatus(r)
      PROVE  XAAlone' /\ XAEdits' /\ XAFound' /\ XAItems'
  <2> HIDE DEF XA!TypeOK, XA!HandlersTypeOK, XA!Statuses, XA!EditableStatuses, XA!ExpenseRow,
           XA!ItemRow, XA!Running,
               XA!expenses, XA!Found, XA!Present, XA!At, XA!Start, XA!Once, XA!Goto, XA!Finish,
               XA!Absent, XA!Gone, XA!Idle,
               XA!Editable, XA!ItemsOf, XA!Handled, XAAlone, XAEdits, XAFound, XAItems
  <2>1. XAWritten(r)
        BY <1>10, XAWrite
  <2>2. XAAlone'
        BY <2>1, XAOn, XAOf DEF XAWritten, XAGoes, XAInv, XAAlone, XA!At, XA!Idle
  <2>3. XAEdits'
        BY <2>1, XAOn, XAOf DEF XAWritten, XAGoes, XAInv, XAAlone, XAEdits, XA!Found, XA!At,
           XA!Idle, XA!Transitions
  <2>4. XAFound'
        BY <2>1, XAOn, XAOf DEF XAWritten, XAGoes, XAInv, XAFound, XA!At, XA!Idle
  <2>5. XAItems'
        BY <2>1, XAOn, XAOf DEF XAWritten, XAGoes, XAInv, XAItems, XA!Found, XA!At, XA!Idle
  <2> QED BY <2>2, <2>3, <2>4, <2>5
<1>11. ASSUME NEW r \in Requests, XA!FindItem(r)
      PROVE  XAAlone' /\ XAEdits' /\ XAFound' /\ XAItems'
  <2> HIDE DEF XA!TypeOK, XA!HandlersTypeOK, XA!Statuses, XA!EditableStatuses, XA!ExpenseRow,
           XA!ItemRow, XA!Running,
               XA!expenses, XA!Found, XA!Present, XA!At, XA!Start, XA!Once, XA!Goto, XA!Finish,
               XA!Absent, XA!Gone, XA!Idle,
               XA!Editable, XA!ItemsOf, XA!Handled, XAAlone, XAEdits, XAFound, XAItems
  <2>1. XALooked(r)
        BY <1>11, XALook
  <2>2. XAAlone'
        BY <2>1, XAOn, XAOf DEF XALooked, XAGoes, XAInv, XAAlone, XA!At, XA!Idle
  <2>3. XAEdits'
        BY <2>1, XAOn, XAOf DEF XALooked, XAGoes, XAInv, XAAlone, XAEdits, XA!Found, XA!At,
           XA!Idle, XA!Transitions
  <2>4. XAFound'
        BY <2>1, XAOn, XAOf DEF XALooked, XAGoes, XAInv, XAFound, XA!At, XA!Idle
  <2>5. XAItems'
        BY <2>1, XAOn, XAOf DEF XALooked, XAGoes, XAInv, XAItems, XA!Found, XA!At, XA!Idle
  <2> QED BY <2>2, <2>3, <2>4, <2>5
<1>12. ASSUME NEW r \in Requests, XA!DeleteItem(r)
      PROVE  XAAlone' /\ XAEdits' /\ XAFound' /\ XAItems'
      BY <1>12 DEF XA!DeleteItem
<1>13. ASSUME NEW r \in Requests, XA!ReadItems(r)
      PROVE  XAAlone' /\ XAEdits' /\ XAFound' /\ XAItems'
      BY <1>13 DEF XA!ReadItems
<1>14. ASSUME NEW r \in Requests, XA!WriteTotal(r)
      PROVE  XAAlone' /\ XAEdits' /\ XAFound' /\ XAItems'
  <2> HIDE DEF XA!TypeOK, XA!HandlersTypeOK, XA!Statuses, XA!EditableStatuses, XA!ExpenseRow,
           XA!ItemRow, XA!Running,
               XA!expenses, XA!Found, XA!Present, XA!At, XA!Start, XA!Once, XA!Goto, XA!Finish,
               XA!Absent, XA!Gone, XA!Idle,
               XA!Editable, XA!ItemsOf, XA!Handled, XAAlone, XAEdits, XAFound, XAItems
  <2>1. XATotalled(r)
        BY <1>14, XATotal
  <2>2. XAAlone'
        BY <2>1, XAOn, XAOf DEF XATotalled, XAGoes, XAInv, XAAlone, XA!At, XA!Idle
  <2>3. XAEdits'
        BY <2>1, XAOn, XAOf DEF XATotalled, XAGoes, XAInv, XAAlone, XAEdits, XA!Found, XA!At,
           XA!Idle, XA!Transitions
  <2>4. XAFound'
        BY <2>1, XAOn, XAOf DEF XATotalled, XAGoes, XAInv, XAFound, XA!At, XA!Idle
  <2>5. XAItems'
        BY <2>1, XAOn, XAOf DEF XATotalled, XAGoes, XAInv, XAItems, XA!Found, XA!At, XA!Idle
  <2> QED BY <2>2, <2>3, <2>4, <2>5
<1>15. ASSUME NEW r \in Requests, XA!Abort(r)
      PROVE  XAAlone' /\ XAEdits' /\ XAFound' /\ XAItems'
      BY <1>15 DEF XA!Abort, XA!Stop
<1>16. CASE UNCHANGED XA!vars
      BY <1>16 DEF XA!vars
<1> HIDE DEF XA!TypeOK, XA!HandlersTypeOK, XA!Statuses, XA!EditableStatuses, XA!ExpenseRow,
         XA!ItemRow, XA!Running,
             XA!expenses, XA!Found, XA!Present, XA!At, XA!Start, XA!Once, XA!Goto, XA!Finish,
             XA!Absent, XA!Gone, XA!Idle,
             XAInv, XA!Editable, XA!ItemsOf, XA!Handled, XAAlone, XAEdits, XAFound, XAItems
<1> QED BY <1>1, <1>2, <1>3, <1>4, <1>5, <1>6, <1>7, <1>8, <1>9, <1>10, <1>11, <1>12, <1>13,
           <1>14, <1>15, <1>16 DEF XA!Next

\* Every step keeps the totals.
LEMMA XATotalStep ==
    ASSUME XAInv, [XA!Next]_XA!vars
    PROVE  XATotals' /\ XAWrites'
<1> USE DEF XA!TypeOK, XA!HandlersTypeOK, XA!Statuses, XA!EditableStatuses, XA!ExpenseRow,
        XA!ItemRow, XA!Running,
            XA!expenses, XA!Found, XA!Present, XA!At, XA!Start, XA!Once, XA!Goto, XA!Finish,
            XA!Absent, XA!Gone, XA!Idle,
            XAInv, XA!ItemsOf, XA!Handled, XAAlone, XAFound, XAItems, XATotals, XAWrites,
            XAAmong
<1>1. ASSUME NEW r \in Requests, NEW x \in Parts, XA!CreateExpenseAccount(r, x)
      PROVE  XATotals' /\ XAWrites'
      BY <1>1 DEF XA!CreateExpenseAccount
<1>2. ASSUME NEW r \in Requests, NEW x \in Parts, XA!BeginUpdate(r, x)
      PROVE  XATotals' /\ XAWrites'
      BY <1>2 DEF XA!BeginUpdate
<1>3. ASSUME NEW r \in Requests, NEW x \in Parts, XA!BeginDelete(r, x)
      PROVE  XATotals' /\ XAWrites'
      BY <1>3 DEF XA!BeginDelete
<1>4. ASSUME NEW r \in Requests, NEW x \in Parts, XA!BeginAddItem(r, x)
      PROVE  XATotals' /\ XAWrites'
      BY <1>4 DEF XA!BeginAddItem
<1>5. ASSUME NEW r \in Requests, NEW x \in Parts, NEW s \in XA!Statuses, XA!BeginChangeStatus(r, x, s)
      PROVE  XATotals' /\ XAWrites'
      BY <1>5 DEF XA!BeginChangeStatus
<1>6. ASSUME NEW r \in Requests, NEW x \in Parts, NEW i \in Rows, XA!BeginRemoveItem(r, x, i)
      PROVE  XATotals' /\ XAWrites'
      BY <1>6 DEF XA!BeginRemoveItem
<1>7. ASSUME NEW r \in Requests, NEW i \in Rows, XA!InsertItem(r, i)
      PROVE  XATotals' /\ XAWrites'
      BY SMTT(20), <1>7 DEF XA!InsertItem
<1>8. ASSUME NEW r \in Requests, XA!UpdateExpenseAccount(r)
      PROVE  XATotals' /\ XAWrites'
      BY <1>8 DEF XA!UpdateExpenseAccount
<1>9. ASSUME NEW r \in Requests, XA!DeleteExpenseAccount(r)
      PROVE  XATotals' /\ XAWrites'
      BY <1>9 DEF XA!DeleteExpenseAccount
<1>10. ASSUME NEW r \in Requests, XA!WriteStatus(r)
      PROVE  XATotals' /\ XAWrites'
  <2> HIDE DEF XA!TypeOK, XA!HandlersTypeOK, XA!Statuses, XA!EditableStatuses, XA!ExpenseRow,
           XA!ItemRow, XA!Running,
               XA!expenses, XA!Found, XA!Present, XA!At, XA!Start, XA!Once, XA!Goto, XA!Finish,
               XA!Absent, XA!Gone, XA!Idle,
               XA!ItemsOf, XA!Handled, XAAlone, XAFound, XAItems, XATotals, XAWrites, XAAmong
  <2>1. XAWritten(r)
        BY <1>10, XAWrite
  <2>2. XATotals'
        BY <2>1, XAOn, XAOf DEF XAWritten, XAGoes, XAInv, XAAlone, XATotals, XAWrites, XAAmong,
           XA!Found, XA!At, XA!Idle
  <2>3. XAWrites'
        BY <2>1, XAOn, XAOf DEF XAWritten, XAGoes, XAInv, XAAlone, XAWrites, XAAmong, XA!Found,
           XA!At, XA!Idle
  <2> QED BY <2>2, <2>3
<1>11. ASSUME NEW r \in Requests, XA!FindItem(r)
      PROVE  XATotals' /\ XAWrites'
  <2> HIDE DEF XA!TypeOK, XA!HandlersTypeOK, XA!Statuses, XA!EditableStatuses, XA!ExpenseRow,
           XA!ItemRow, XA!Running,
               XA!expenses, XA!Found, XA!Present, XA!At, XA!Start, XA!Once, XA!Goto, XA!Finish,
               XA!Absent, XA!Gone, XA!Idle,
               XA!ItemsOf, XA!Handled, XAAlone, XAFound, XAItems, XATotals, XAWrites, XAAmong
  <2>1. XALooked(r)
        BY <1>11, XALook
  <2>2. XATotals'
        BY <2>1, XAOn, XAOf DEF XALooked, XAGoes, XAInv, XAAlone, XATotals, XAWrites, XAAmong,
           XA!Found, XA!At, XA!Idle
  <2>3. XAWrites'
        BY <2>1, XAOn, XAOf DEF XALooked, XAGoes, XAInv, XAAlone, XAWrites, XAAmong, XA!Found,
           XA!At, XA!Idle
  <2> QED BY <2>2, <2>3
<1>12. ASSUME NEW r \in Requests, XA!DeleteItem(r)
      PROVE  XATotals' /\ XAWrites'
      BY <1>12 DEF XA!DeleteItem
<1>13. ASSUME NEW r \in Requests, XA!ReadItems(r)
      PROVE  XATotals' /\ XAWrites'
      BY <1>13 DEF XA!ReadItems
<1>14. ASSUME NEW r \in Requests, XA!WriteTotal(r)
      PROVE  XATotals' /\ XAWrites'
  <2> HIDE DEF XA!TypeOK, XA!HandlersTypeOK, XA!Statuses, XA!EditableStatuses, XA!ExpenseRow,
           XA!ItemRow, XA!Running,
               XA!expenses, XA!Found, XA!Present, XA!At, XA!Start, XA!Once, XA!Goto, XA!Finish,
               XA!Absent, XA!Gone, XA!Idle,
               XA!ItemsOf, XA!Handled, XAAlone, XAFound, XAItems, XATotals, XAWrites, XAAmong
  <2>1. XATotalled(r)
        BY <1>14, XATotal
  <2>2. XATotals'
        BY <2>1, XAOn, XAOf DEF XATotalled, XAGoes, XAInv, XAAlone, XATotals, XAWrites, XAAmong,
           XA!Found, XA!At, XA!Idle
  <2>3. XAWrites'
        BY <2>1, XAOn, XAOf DEF XATotalled, XAGoes, XAInv, XAAlone, XAWrites, XAAmong, XA!Found,
           XA!At, XA!Idle
  <2> QED BY <2>2, <2>3
<1>15. ASSUME NEW r \in Requests, XA!Abort(r)
      PROVE  XATotals' /\ XAWrites'
      BY <1>15 DEF XA!Abort, XA!Stop
<1>16. CASE UNCHANGED XA!vars
      BY <1>16 DEF XA!vars
<1> HIDE DEF XA!TypeOK, XA!HandlersTypeOK, XA!Statuses, XA!EditableStatuses, XA!ExpenseRow,
         XA!ItemRow, XA!Running,
             XA!expenses, XA!Found, XA!Present, XA!At, XA!Start, XA!Once, XA!Goto, XA!Finish,
             XA!Absent, XA!Gone, XA!Idle,
             XAInv, XA!ItemsOf, XA!Handled, XAAlone, XAFound, XAItems, XATotals, XAWrites,
             XAAmong
<1> QED BY <1>1, <1>2, <1>3, <1>4, <1>5, <1>6, <1>7, <1>8, <1>9, <1>10, <1>11, <1>12, <1>13,
           <1>14, <1>15, <1>16 DEF XA!Next

\* What is approved is fixed.
LEMMA XAFixedStep ==
    ASSUME XAInv, [XA!Next]_XA!vars
    PROVE  XAFixed
<1> USE DEF XA!TypeOK, XA!HandlersTypeOK, XA!Statuses, XA!EditableStatuses, XA!ExpenseRow,
        XA!ItemRow, XA!Running,
            XA!expenses, XA!Found, XA!Present, XA!At, XA!Start, XA!Once, XA!Goto, XA!Finish,
            XA!Absent, XA!Gone, XA!Idle,
            XAInv, XA!Editable, XA!Transitions, XA!ItemsOf, XAAlone, XAEdits, XAFound, XAFixed
<1>1. ASSUME NEW r \in Requests, NEW x \in Parts, XA!CreateExpenseAccount(r, x)
      PROVE  XAFixed
      BY <1>1 DEF XA!CreateExpenseAccount
<1>2. ASSUME NEW r \in Requests, NEW x \in Parts, XA!BeginUpdate(r, x)
      PROVE  XAFixed
      BY <1>2 DEF XA!BeginUpdate
<1>3. ASSUME NEW r \in Requests, NEW x \in Parts, XA!BeginDelete(r, x)
      PROVE  XAFixed
      BY <1>3 DEF XA!BeginDelete
<1>4. ASSUME NEW r \in Requests, NEW x \in Parts, XA!BeginAddItem(r, x)
      PROVE  XAFixed
      BY <1>4 DEF XA!BeginAddItem
<1>5. ASSUME NEW r \in Requests, NEW x \in Parts, NEW s \in XA!Statuses, XA!BeginChangeStatus(r, x, s)
      PROVE  XAFixed
      BY <1>5 DEF XA!BeginChangeStatus
<1>6. ASSUME NEW r \in Requests, NEW x \in Parts, NEW i \in Rows, XA!BeginRemoveItem(r, x, i)
      PROVE  XAFixed
      BY <1>6 DEF XA!BeginRemoveItem
<1>7. ASSUME NEW r \in Requests, NEW i \in Rows, XA!InsertItem(r, i)
      PROVE  XAFixed
  <2>1. request[r].on \in Parts /\ (request[r].on \notin raced /\ XA!Found(request[r].on) => expense[request[r].on].status = "DRAFT")
        BY <1>7, XAOn DEF XA!InsertItem
  <2>2. ASSUME NEW x \in Parts \ (raced' \cup untotalled), XA!Found(x), expense[x].status \in {"APPROVED_BY_CLIENT", "INVOICED", "CLOSED"}
        PROVE  {k \in Rows : XA!Present(expenseItem'[k]) /\ expenseItem'[k].of = x} = XA!ItemsOf(x)
    <3>1. \A k \in Rows \ {i} : expenseItem'[k] = expenseItem[k]
          BY <1>7 DEF XA!InsertItem
    <3>2. ~(XA!Present(expenseItem[i]) /\ expenseItem[i].of = x)
          BY <1>7 DEF XA!InsertItem
    <3>3. ~(XA!Present(expenseItem'[i]) /\ expenseItem'[i].of = x)
          BY <1>7, <2>1, <2>2 DEF XA!InsertItem
    <3> QED BY <3>1, <3>2, <3>3
  <2> QED BY <1>7, <2>2 DEF XA!InsertItem
<1>8. ASSUME NEW r \in Requests, XA!UpdateExpenseAccount(r)
      PROVE  XAFixed
      BY <1>8 DEF XA!UpdateExpenseAccount
<1>9. ASSUME NEW r \in Requests, XA!DeleteExpenseAccount(r)
      PROVE  XAFixed
      BY <1>9 DEF XA!DeleteExpenseAccount
<1>10. ASSUME NEW r \in Requests, XA!WriteStatus(r)
      PROVE  XAFixed
  <2> HIDE DEF XA!TypeOK, XA!HandlersTypeOK, XA!Statuses, XA!EditableStatuses, XA!ExpenseRow,
           XA!ItemRow, XA!Running,
               XA!expenses, XA!Found, XA!Present, XA!At, XA!Start, XA!Once, XA!Goto, XA!Finish,
               XA!Absent, XA!Gone, XA!Idle,
               XA!Editable, XA!Transitions, XA!ItemsOf, XAAlone, XAEdits, XAFound, XAFixed
  <2>1. XAWritten(r)
        BY <1>10, XAWrite
  <2>2. XAFixed
        BY <2>1, XAOn, XAOf DEF XAWritten, XAGoes, XAInv, XAAlone, XAEdits, XAFound, XAFixed,
           XA!Found, XA!At, XA!Idle, XA!Transitions, XA!ItemsOf
  <2> QED BY <2>2
<1>11. ASSUME NEW r \in Requests, XA!FindItem(r)
      PROVE  XAFixed
  <2> HIDE DEF XA!TypeOK, XA!HandlersTypeOK, XA!Statuses, XA!EditableStatuses, XA!ExpenseRow,
           XA!ItemRow, XA!Running,
               XA!expenses, XA!Found, XA!Present, XA!At, XA!Start, XA!Once, XA!Goto, XA!Finish,
               XA!Absent, XA!Gone, XA!Idle,
               XA!Editable, XA!Transitions, XA!ItemsOf, XAAlone, XAEdits, XAFound, XAFixed
  <2>1. XALooked(r)
        BY <1>11, XALook
  <2>2. XAFixed
        BY <2>1, XAOn, XAOf DEF XALooked, XAGoes, XAInv, XAAlone, XAEdits, XAFound, XAFixed,
           XA!Found, XA!At, XA!Idle, XA!Transitions, XA!ItemsOf
  <2> QED BY <2>2
<1>12. ASSUME NEW r \in Requests, XA!DeleteItem(r)
      PROVE  XAFixed
      BY <1>12 DEF XA!DeleteItem
<1>13. ASSUME NEW r \in Requests, XA!ReadItems(r)
      PROVE  XAFixed
      BY <1>13 DEF XA!ReadItems
<1>14. ASSUME NEW r \in Requests, XA!WriteTotal(r)
      PROVE  XAFixed
  <2> HIDE DEF XA!TypeOK, XA!HandlersTypeOK, XA!Statuses, XA!EditableStatuses, XA!ExpenseRow,
           XA!ItemRow, XA!Running,
               XA!expenses, XA!Found, XA!Present, XA!At, XA!Start, XA!Once, XA!Goto, XA!Finish,
               XA!Absent, XA!Gone, XA!Idle,
               XA!Editable, XA!Transitions, XA!ItemsOf, XAAlone, XAEdits, XAFound, XAFixed
  <2>1. XATotalled(r)
        BY <1>14, XATotal
  <2>2. XAFixed
        BY <2>1, XAOn, XAOf DEF XATotalled, XAGoes, XAInv, XAAlone, XAEdits, XAFound, XAFixed,
           XA!Found, XA!At, XA!Idle, XA!Transitions, XA!ItemsOf
  <2> QED BY <2>2
<1>15. ASSUME NEW r \in Requests, XA!Abort(r)
      PROVE  XAFixed
      BY <1>15 DEF XA!Abort, XA!Stop
<1>16. CASE UNCHANGED XA!vars
      BY <1>16 DEF XA!vars
<1> HIDE DEF XA!TypeOK, XA!HandlersTypeOK, XA!Statuses, XA!EditableStatuses, XA!ExpenseRow,
         XA!ItemRow, XA!Running,
             XA!expenses, XA!Found, XA!Present, XA!At, XA!Start, XA!Once, XA!Goto, XA!Finish,
             XA!Absent, XA!Gone, XA!Idle,
             XAInv, XA!Editable, XA!Transitions, XA!ItemsOf, XAAlone, XAEdits, XAFound, XAFixed
<1> QED BY <1>1, <1>2, <1>3, <1>4, <1>5, <1>6, <1>7, <1>8, <1>9, <1>10, <1>11, <1>12, <1>13,
           <1>14, <1>15, <1>16 DEF XA!Next

\* The totals are of the items.
LEMMA XAAgrees == XAInv => XA!TotalIsOfItems
<1> SUFFICES ASSUME XAInv, NEW x \in Parts \ (raced \cup untotalled), XA!Found(x), ~XA!Handled(x) PROVE expense[x].total = XA!ItemsOf(x)
    BY DEF XA!TotalIsOfItems
<1>1. expense[x].total \subseteq Rows
      BY DEF XAInv, XA!TypeOK, XA!Found, XA!Present, XA!ExpenseRow
<1>2. \A i \in Rows : i \in expense[x].total <=> XAAmong(i, x)
      BY DEF XAInv, XATotals, XA!Handled, XA!Idle
<1> QED BY <1>1, <1>2 DEF XA!ItemsOf, XAAmong

\* Every step keeps the invariant.
LEMMA XAInvStep == ASSUME XAInv, [XA!Next]_XA!vars PROVE XAInv'
BY XATypeStep, XARestStep, XATotalStep DEF XAInv

(***************************************************************************)
(* Deliveries.                                                             *)
(***************************************************************************)

\* What is waited for is there, and what is not there has no answers.
DEKnown ==
    \A d \in Rows :
        /\ DE!CalledFor(d) => DE!Present(delivery[d])
        /\ ~DE!Present(delivery[d]) => answers[d] = <<>>

\* A call will write one attempt more than there were answers, at most.
DECounts ==
    \A r \in Requests, d \in Rows :
        DE!Calls(r, d) =>
            /\ DE!Attempts(r) <= Len(answers[d]) + 1
            /\ d \notin crossed \cup unwritten => DE!Attempts(r) = Len(answers[d]) + 1

\* Two calls for one delivery are remembered.
DEAlone == \A d \in Rows \ crossed : \A q, r \in Requests : DE!Calls(q, d) /\ DE!Calls(r, d) => q = r

\* There are no more attempts than requests.
DEBounded ==
    /\ \A d \in Rows : DE!Present(delivery[d]) => delivery[d].attemptCount <= started
    /\ \A r \in Requests : DE!At(r, "emit") => 1 <= started
    /\ \A r \in Requests : DE!At(r, "retry") => request[r].seen < started

DEInv ==
    /\ DE!TypeOK /\ DEKnown /\ DECounts /\ DEAlone /\ DEBounded
    /\ DE!AttemptsCounted /\ DE!NeverOvercounted

\* There are no deliveries at first.
LEMMA DEStart == DE!Init => DEInv
<1> SUFFICES ASSUME DE!Init PROVE DEInv
    OBVIOUS
<1>1. DE!TypeOK
  <2>1. DE!HandlersTypeOK(DE!Running, Parts \cup Rows \cup {"event"})
        BY MaxStartedAssumption DEF DE!Init, DE!HandlersInit, DE!HandlersTypeOK
  <2>2. answers \in [Rows -> Seq(BOOLEAN)]
        BY DEF DE!Init
  <2> QED BY <2>1, <2>2 DEF DE!Init, DE!TypeOK
<1>2. \A r \in Requests, d \in Rows : ~DE!Calls(r, d)
      BY DEF DE!Init, DE!HandlersInit, DE!Calls, DE!At, DE!Idle
<1>3. \A d \in Rows : ~DE!Present(delivery[d]) /\ answers[d] = <<>>
      BY DEF DE!Init, DE!Present
<1>4. \A r \in Requests : ~DE!At(r, "emit") /\ ~DE!At(r, "retry")
      BY DEF DE!Init, DE!HandlersInit, DE!At, DE!Idle
<1> QED BY <1>1, <1>2, <1>3, <1>4 DEF DEInv, DEKnown, DECounts, DEAlone, DEBounded,
           DE!AttemptsCounted,
             DE!NeverOvercounted, DE!CalledFor

\* A row that is there is not absent, and what it says.
LEMMA DERows ==
    /\ \A x \in DE!DeliveryRow \cup DE!IntegrationRow : DE!Present(x)
    /\ ~DE!Present(DE!Absent)
    /\ DE!TypeOK => \A d \in Rows : DE!Present(delivery[d]) =>
           delivery[d] \in DE!DeliveryRow /\ delivery[d].attemptCount \in Nat
BY MaxStartedAssumption DEF DE!DeliveryRow, DE!IntegrationRow, DE!Absent, DE!Gone, DE!Present,
   DE!TypeOK

\* A handler emits or retries.
LEMMA DEOn ==
    DE!TypeOK => \A r \in Requests :
        /\ DE!At(r, "emit") => request[r].todo \subseteq Parts /\ request[r].calling \subseteq Rows
        /\ DE!At(r, "retry") => request[r].on \in Rows /\ request[r].seen \in Nat
        /\ ~(DE!At(r, "emit") /\ DE!At(r, "retry"))
<1> SUFFICES ASSUME DE!TypeOK, NEW r \in Requests
             PROVE  /\ DE!At(r, "emit") => request[r].todo \subseteq Parts /\ request[r].calling \subseteq Rows
                    /\ DE!At(r, "retry") => request[r].on \in Rows /\ request[r].seen \in Nat
                    /\ ~(DE!At(r, "emit") /\ DE!At(r, "retry"))
    OBVIOUS
<1>1. request[r] \in DE!Running \cup {DE!Idle}
      BY DEF DE!TypeOK, DE!HandlersTypeOK
<1> QED BY <1>1, MaxStartedAssumption DEF DE!Running, DE!Idle, DE!At

\* An answer more.
LEMMA DEOneMore ==
    ASSUME NEW s \in Seq(BOOLEAN), NEW b \in BOOLEAN
    PROVE  /\ Append(s, b) \in Seq(BOOLEAN) /\ Len(s) \in Nat /\ Len(Append(s, b)) = Len(s) + 1
           /\ DOMAIN s = 1..Len(s) /\ DOMAIN Append(s, b) = 1..(Len(s) + 1)
           /\ \A n \in DOMAIN s : Append(s, b)[n] = s[n]
           /\ Append(s, b)[Len(s) + 1] = b
OBVIOUS

\* Nothing is called for that was not, and nothing else changes but the time.
DEKept ==
    /\ UNCHANGED <<delivery, answers, crossed>> /\ unwritten \subseteq unwritten'
    /\ started <= started' /\ started \in Nat /\ started' \in Nat
    /\ \A r \in Requests :
        /\ DE!At(r, "retry")' => request'[r] = request[r]
        /\ DE!At(r, "emit")' => 1 <= started'
        /\ \A d \in Rows : /\ DE!Calls(r, d)' => DE!Calls(r, d) /\ (DE!At(r, "emit")' <=> DE!At(r, "emit"))
                           /\ DE!Calls(r, d) /\ ~DE!Calls(r, d)' => d \in unwritten'

\* A step that calls nothing new keeps every part.
LEMMA DEKeeps ==
    ASSUME DEInv, DEKept
    PROVE  DEKnown' /\ DECounts' /\ DEAlone' /\ DEBounded' /\ DE!AttemptsCounted' /\ DE!NeverOvercounted'
<1>1. DEKnown'
      BY DEF DEKept, DEInv, DEKnown, DE!CalledFor, DE!Present
<1>2. DECounts'
  <2> SUFFICES ASSUME NEW r \in Requests, NEW d \in Rows, DE!Calls(r, d)'
               PROVE  (/\ DE!Attempts(r) <= Len(answers[d]) + 1
                       /\ d \notin crossed \cup unwritten => DE!Attempts(r) = Len(answers[d]) + 1)'
      BY DEF DECounts
  <2>1. DE!Calls(r, d) /\ (DE!At(r, "emit")' <=> DE!At(r, "emit"))
        BY DEF DEKept
  <2>2. DE!Attempts(r)' = DE!Attempts(r)
        BY <2>1 DEF DEKept, DE!Attempts, DE!Calls, DE!At
  <2> QED BY <2>1, <2>2 DEF DEKept, DEInv, DECounts
<1>3. DEAlone'
      BY DEF DEKept, DEInv, DEAlone
<1>4. DEBounded'
  <2>1. \A d \in Rows : DE!Present(delivery[d])' => delivery'[d].attemptCount <= started'
        BY DERows DEF DEKept, DEInv, DEBounded, DE!Present
  <2>2. \A r \in Requests : DE!At(r, "retry")' => request'[r].seen < started'
        BY DEOn DEF DEKept, DEInv, DEBounded, DE!At
  <2> QED BY <2>1, <2>2 DEF DEKept, DEBounded
<1>5. DE!AttemptsCounted'
  <2> SUFFICES ASSUME NEW d \in Rows \ (crossed' \cup unwritten'), DE!Present(delivery[d])', ~DE!CalledFor(d)'
               PROVE  (LET n == Len(answers[d]) IN
                       /\ n > 0
                       /\ delivery[d].attemptCount = n
                       /\ delivery[d].status = IF answers[d][n] THEN "SUCCESS" ELSE "FAILED")'
      BY DEF DE!AttemptsCounted
  <2>1. d \notin crossed \cup unwritten /\ DE!Present(delivery[d]) /\ ~DE!CalledFor(d)
        BY DEF DEKept, DE!CalledFor, DE!Present
  <2> QED BY <2>1 DEF DEKept, DEInv, DE!AttemptsCounted
<1>6. DE!NeverOvercounted'
      BY DEF DEKept, DEInv, DE!NeverOvercounted, DE!Present
<1> QED BY <1>1, <1>2, <1>3, <1>4, <1>5, <1>6

\* What an emit waits for after one of its steps.
DEDispatched(r, calling) ==
    /\ \A q \in Requests \ {r} : request'[q] = request[q]
    /\ ~DE!At(r, "retry")'
    /\ \A d \in Rows : DE!Calls(r, d)' <=> d \in calling
    /\ \A d \in Rows : DE!Calls(r, d)' => DE!At(r, "emit")'
    /\ UNCHANGED <<started, raced>>
    /\ request' \in [Requests -> DE!Running \cup {DE!Idle}]

\* A step of an emit changes that handler, and calls the deliveries it names.
LEMMA DEDispatch ==
    ASSUME DE!TypeOK, NEW r \in Requests, NEW todo \in SUBSET Parts, NEW calling \in SUBSET Rows,
           DE!Dispatching(r, todo, calling)
    PROVE  DEDispatched(r, calling)
<1> DEFINE emit == [pc |-> "emit", on |-> "event", todo |-> todo, calling |-> calling]
<1>1. emit \in DE!Running
      BY DEF DE!Running
<1>2. CASE todo = {} /\ calling = {}
  <2>1. request' = [request EXCEPT ![r] = DE!Idle] /\ UNCHANGED <<started, raced>>
        BY <1>2 DEF DE!Dispatching, DE!Finish, DE!Goto
  <2>2. request'[r] = DE!Idle /\ \A q \in Requests \ {r} : request'[q] = request[q]
        BY <2>1 DEF DE!TypeOK, DE!HandlersTypeOK
  <2>3. request' \in [Requests -> DE!Running \cup {DE!Idle}]
        BY <2>1 DEF DE!TypeOK, DE!HandlersTypeOK
  <2> QED BY <1>2, <2>1, <2>2, <2>3 DEF DEDispatched, DE!Calls, DE!At, DE!Idle
<1>3. CASE ~(todo = {} /\ calling = {})
  <2>1. request' = [request EXCEPT ![r] = emit] /\ UNCHANGED <<started, raced>>
        BY <1>3 DEF DE!Dispatching, DE!Goto
  <2>2. request'[r] = emit /\ \A q \in Requests \ {r} : request'[q] = request[q]
        BY <2>1 DEF DE!TypeOK, DE!HandlersTypeOK
  <2>3. request' \in [Requests -> DE!Running \cup {DE!Idle}]
        BY <1>1, <2>1 DEF DE!TypeOK, DE!HandlersTypeOK
  <2> QED BY <2>1, <2>2, <2>3 DEF DEDispatched, DE!Calls, DE!At
<1> QED BY <1>2, <1>3

\* The call of r for d is over.
DEOver(r, d) ==
    /\ DE!Calls(r, d) /\ d \in Rows
    /\ \A q \in Requests \ {r} : request'[q] = request[q]
    /\ ~DE!At(r, "retry")'
    /\ \A e \in Rows : DE!Calls(r, e)' <=> (DE!Calls(r, e) /\ e # d)
    /\ \A e \in Rows : DE!Calls(r, e)' => DE!At(r, "emit")' /\ DE!At(r, "emit")
    /\ DE!At(r, "emit")' => DE!At(r, "emit")
    /\ UNCHANGED <<started, raced, crossed, integration>>
    /\ request' \in [Requests -> DE!Running \cup {DE!Idle}]

\* A call that is over leaves the calls to make.
LEMMA DEEnds ==
    ASSUME DE!TypeOK, NEW r \in Requests, NEW d \in Rows, DE!Calls(r, d), DE!Ends(r, d), UNCHANGED <<crossed, integration>>
    PROVE  DEOver(r, d)
<1>1. CASE DE!At(r, "emit")
  <2>1. DEDispatched(r, request[r].calling \ {d})
        BY <1>1, DEOn, DEDispatch DEF DE!Ends
  <2>2. \A e \in Rows : DE!Calls(r, e) <=> e \in request[r].calling
        BY <1>1, DEOn DEF DE!Calls
  <2> QED BY <1>1, <2>1, <2>2 DEF DEDispatched, DEOver
<1>2. CASE ~DE!At(r, "emit")
  <2>1. DE!At(r, "retry") /\ request[r].on = d
        BY <1>2 DEF DE!Calls
  <2>2. request' = [request EXCEPT ![r] = DE!Idle] /\ UNCHANGED <<started, raced>>
        BY <1>2 DEF DE!Ends, DE!Finish, DE!Goto
  <2>3. request'[r] = DE!Idle /\ \A q \in Requests \ {r} : request'[q] = request[q]
        BY <2>2 DEF DE!TypeOK, DE!HandlersTypeOK
  <2>4. request' \in [Requests -> DE!Running \cup {DE!Idle}]
        BY <2>2 DEF DE!TypeOK, DE!HandlersTypeOK
  <2> QED BY <1>2, <2>1, <2>2, <2>3, <2>4 DEF DEOver, DE!Calls, DE!At, DE!Idle
<1> QED BY <1>1, <1>2

\* An answer is one more of its delivery, whether or not it is written.
DEMore(d, b) ==
    /\ answers' \in [Rows -> Seq(BOOLEAN)]
    /\ Len(answers[d]) \in Nat /\ Len(answers'[d]) = Len(answers[d]) + 1
    /\ DOMAIN answers[d] = 1..Len(answers[d]) /\ DOMAIN answers'[d] = 1..(Len(answers[d]) + 1)
    /\ \A n \in DOMAIN answers[d] : answers'[d][n] = answers[d][n]
    /\ answers'[d][Len(answers[d]) + 1] = b
    /\ \A e \in Rows \ {d} : answers'[e] = answers[e]

\* An answer is put at the end of those of its delivery.
LEMMA DEAnswers ==
    ASSUME DE!TypeOK, NEW d \in Rows, NEW b \in BOOLEAN, answers' = [answers EXCEPT ![d] = Append(@, b)]
    PROVE  DEMore(d, b)
<1>1. answers[d] \in Seq(BOOLEAN) /\ answers'[d] = Append(answers[d], b)
      BY DEF DE!TypeOK
<1>2. answers' \in [Rows -> Seq(BOOLEAN)] /\ \A e \in Rows \ {d} : answers'[e] = answers[e]
  <2>1. Append(answers[d], b) \in Seq(BOOLEAN)
        BY <1>1
  <2> HIDE DEF DE!TypeOK
  <2> QED BY <2>1 DEF DE!TypeOK
<1> QED BY <1>1, <1>2, DEOneMore DEF DEMore

\* The delivery takes the answer.
DEWritten(r, d, b) ==
    /\ delivery' \in [Rows -> DE!DeliveryRow \cup {DE!Absent}]
    /\ DE!Present(delivery'[d]) /\ \A e \in Rows \ {d} : delivery'[e] = delivery[e]
    /\ delivery'[d].attemptCount = DE!Attempts(r)
    /\ delivery'[d].status = IF b THEN "SUCCESS" ELSE "FAILED"
    /\ DE!Attempts(r) \in Nat /\ DE!Attempts(r) <= started

\* Answering writes the status of the answer and counts the attempt.
LEMMA DEWrite ==
    ASSUME DEInv, NEW r \in Requests, NEW d \in Rows, NEW b \in BOOLEAN, DE!Answer(r, d, b)
    PROVE  DEWritten(r, d, b)
<1> DEFINE n == DE!Attempts(r)
           s == IF b THEN "SUCCESS" ELSE "FAILED"
           row == [delivery[d] EXCEPT !.status = s, !.attemptCount = n]
<1>1. n \in Nat /\ n <= started /\ started \in 0..MaxStarted
      BY DEOn, MaxStartedAssumption DEF DE!Answer, DE!Calls, DE!Attempts, DEInv, DEBounded,
         DE!TypeOK, DE!HandlersTypeOK
<1>2. n \in 0..MaxStarted /\ s \in DE!DeliveryStatuses
      BY <1>1, MaxStartedAssumption DEF DE!DeliveryStatuses
<1>3. delivery[d] \in DE!DeliveryRow
      BY DERows DEF DE!Answer, DEInv, DEKnown, DE!CalledFor
<1>4. delivery' = [delivery EXCEPT ![d] = row]
      BY DEF DE!Answer, DEInv, DE!TypeOK
<1> HIDE DEF n, s
<1>5. row \in DE!DeliveryRow /\ row.attemptCount = n /\ row.status = s
      BY <1>2, <1>3 DEF DE!DeliveryRow
<1> HIDE DEF row
<1>6. DE!Present(row)
      BY <1>5, DERows
<1>7. delivery'[d] = row /\ (\A e \in Rows \ {d} : delivery'[e] = delivery[e])
          /\ delivery' \in [Rows -> DE!DeliveryRow \cup {DE!Absent}]
      BY <1>4, <1>5 DEF DEInv, DE!TypeOK
<1> QED BY <1>1, <1>5, <1>6, <1>7 DEF DEWritten, n, s

\* When a call is over, whether its answer was written or not.
LEMMA DEAfter ==
    ASSUME DEInv, NEW r \in Requests, NEW d \in Rows, NEW b \in BOOLEAN, DEOver(r, d), DEMore(d, b),
           \/ DEWritten(r, d, b) /\ unwritten' = unwritten
           \/ delivery' = delivery /\ unwritten' = unwritten \cup {d}
    PROVE  DEKnown' /\ DECounts' /\ DEAlone' /\ DEBounded' /\ DE!AttemptsCounted' /\ DE!NeverOvercounted'
<1>1. \A q \in Requests, e \in Rows : DE!Calls(q, e)' => DE!Calls(q, e) /\ (q # r \/ e # d)
      BY DEF DEOver, DE!Calls, DE!At
<1>2. \A q \in Requests, e \in Rows : DE!Calls(q, e) /\ (q # r \/ e # d) => DE!Calls(q, e)'
      BY DEF DEOver, DE!Calls, DE!At
<1>3. \A q \in Requests, e \in Rows : DE!Calls(q, e)' => DE!Attempts(q)' = DE!Attempts(q)
      BY DEF DEOver, DE!Calls, DE!At, DE!Attempts
<1>4. \A q \in Requests, e \in Rows : DE!Calls(q, e) => DE!Attempts(q) \in Nat
      BY DEOn DEF DEInv, DE!Calls, DE!Attempts
<1>5. DE!Calls(r, d) /\ DE!Present(delivery[d]) /\ DE!Present(delivery'[d])
      BY DEF DEOver, DEInv, DEKnown, DE!CalledFor, DEWritten
<1>6. \A e \in Rows : DE!Present(delivery'[e]) <=> DE!Present(delivery[e])
      BY <1>5 DEF DEWritten
<1>7. DEKnown'
      BY <1>1, <1>5, <1>6 DEF DEInv, DEKnown, DEMore, DE!CalledFor, DE!Present
<1>8. DECounts'
  <2> SUFFICES ASSUME NEW q \in Requests, NEW e \in Rows, DE!Calls(q, e)'
               PROVE  (/\ DE!Attempts(q) <= Len(answers[e]) + 1
                       /\ e \notin crossed \cup unwritten => DE!Attempts(q) = Len(answers[e]) + 1)'
      BY DEF DECounts
  <2>1. DE!Calls(q, e) /\ DE!Attempts(q)' = DE!Attempts(q) /\ DE!Attempts(q) \in Nat
        BY <1>1, <1>3, <1>4
  <2>2. CASE e = d
    <3>1. q # r
          BY <1>1, <2>2
    <3>2. d \in crossed
          BY <1>5, <2>1, <2>2, <3>1 DEF DEInv, DEAlone
    <3>3. DE!Attempts(q) <= Len(answers[d]) + 1
          BY <2>1, <2>2 DEF DEInv, DECounts
    <3>4. Len(answers'[d]) = Len(answers[d]) + 1 /\ Len(answers[d]) \in Nat
          BY DEF DEMore
    <3> QED BY <2>1, <2>2, <3>2, <3>3, <3>4 DEF DEOver
  <2>3. CASE e # d
        BY <2>1, <2>3 DEF DEInv, DECounts, DEMore, DEOver
  <2> QED BY <2>2, <2>3
<1>9. DEAlone'
      BY <1>1 DEF DEInv, DEAlone, DEOver
<1>10. DEBounded'
  <2>1. \A e \in Rows : DE!Present(delivery'[e]) => delivery'[e].attemptCount <= started
        BY <1>6 DEF DEWritten, DEInv, DEBounded
  <2>2. \A q \in Requests : (DE!At(q, "emit")' => DE!At(q, "emit")) /\ (DE!At(q, "retry")' => DE!At(q, "retry") /\ request'[q] = request[q])
        BY DEF DEOver, DE!At
  <2> QED BY <2>1, <2>2 DEF DEInv, DEBounded, DEOver, DE!Present
<1>11. DE!AttemptsCounted'
  <2> SUFFICES ASSUME NEW e \in Rows \ (crossed' \cup unwritten'), DE!Present(delivery[e])', ~DE!CalledFor(e)'
               PROVE  (LET n == Len(answers[e]) IN
                       /\ n > 0
                       /\ delivery[e].attemptCount = n
                       /\ delivery[e].status = IF answers[e][n] THEN "SUCCESS" ELSE "FAILED")'
      BY DEF DE!AttemptsCounted
  <2>1. CASE e = d
    <3>1. DEWritten(r, d, b) /\ d \notin crossed \cup unwritten
          BY <2>1 DEF DEOver
    <3>2. DE!Attempts(r) = Len(answers[d]) + 1
          BY <1>5, <3>1 DEF DEInv, DECounts
    <3>3. delivery'[d].attemptCount = Len(answers'[d]) /\ answers'[d][Len(answers'[d])] = b
              /\ delivery'[d].status = (IF b THEN "SUCCESS" ELSE "FAILED")
          BY <3>1, <3>2 DEF DEWritten, DEMore
    <3>4. Len(answers'[d]) > 0
          BY DEF DEMore
    <3> QED BY <2>1, <3>3, <3>4
  <2>2. CASE e # d
    <3>1. ~DE!CalledFor(e) /\ e \notin crossed \cup unwritten
          BY <1>2, <2>2 DEF DE!CalledFor, DEOver
    <3>2. delivery'[e] = delivery[e] /\ answers'[e] = answers[e]
          BY <2>2 DEF DEMore, DEWritten
    <3> QED BY <2>2, <3>1, <3>2 DEF DEInv, DE!AttemptsCounted, DE!Present
  <2> QED BY <2>1, <2>2
<1>12. DE!NeverOvercounted'
  <2> SUFFICES ASSUME NEW e \in Rows, DE!Present(delivery[e])'
               PROVE  (/\ delivery[e].attemptCount <= Len(answers[e])
                       /\ delivery[e].status = "SUCCESS" => \E n \in DOMAIN answers[e] : answers[e][n]
                       /\ delivery[e].status = "FAILED" => \E n \in DOMAIN answers[e] : ~answers[e][n])'
      BY DEF DE!NeverOvercounted
  <2>1. CASE e # d
        BY <2>1 DEF DEMore, DEWritten, DEInv, DE!NeverOvercounted, DE!Present
  <2>2. CASE e = d /\ DEWritten(r, d, b)
    <3>1. DE!Attempts(r) <= Len(answers[d]) + 1
          BY <1>5 DEF DEInv, DECounts
    <3>2. Len(answers[d]) + 1 \in DOMAIN answers'[d]
          BY DEF DEMore
    <3> QED BY <2>2, <3>1, <3>2 DEF DEWritten, DEMore
  <2>3. CASE e = d /\ delivery' = delivery
    <3>1. /\ delivery[d].attemptCount <= Len(answers[d]) /\ delivery[d].attemptCount \in Nat
          /\ delivery[d].status = "SUCCESS" => \E n \in DOMAIN answers[d] : answers[d][n]
          /\ delivery[d].status = "FAILED" => \E n \in DOMAIN answers[d] : ~answers[d][n]
          BY <1>5, DERows DEF DEInv, DE!NeverOvercounted
    <3>2. \A n \in DOMAIN answers[d] : n \in DOMAIN answers'[d] /\ answers'[d][n] = answers[d][n]
          BY DEF DEMore
    <3>3. delivery'[d].attemptCount <= Len(answers'[d])
          BY <2>3, <3>1 DEF DEMore
    <3> QED BY <2>3, <3>1, <3>2, <3>3
  <2> QED BY <2>1, <2>2, <2>3
<1> QED BY <1>7, <1>8, <1>9, <1>10, <1>11, <1>12

\* Every step keeps the types.
LEMMA DETypeStep ==
    ASSUME DEInv, [DE!Next]_DE!vars
    PROVE  DE!TypeOK'
<1> USE MaxStartedAssumption DEF DE!TypeOK, DE!HandlersTypeOK, DE!IntegrationRow,
        DE!DeliveryStatuses, DE!DeliveryRow, DE!Running,
            DE!deliveries, DE!Present, DE!At, DE!Start, DE!Once, DE!Goto, DE!Finish, DE!Absent,
            DE!Gone, DE!Idle,
            DEInv
<1>1. ASSUME NEW r \in Requests, NEW i \in Parts, NEW b \in BOOLEAN, DE!CreateIntegration(r,
             i, b)
      PROVE  DE!TypeOK'
      BY <1>1 DEF DE!CreateIntegration
<1>2. ASSUME NEW r \in Requests, NEW i \in Parts, NEW w \in DE!IntegrationRow,
             DE!UpdateIntegration(r, i, w)
      PROVE  DE!TypeOK'
      BY <1>2 DEF DE!UpdateIntegration
<1>3. ASSUME NEW r \in Requests, NEW i \in Parts, NEW d \in Rows, DE!InsertDelivery(r, i, d)
      PROVE  DE!TypeOK'
  <2> HIDE DEF DE!TypeOK, DE!HandlersTypeOK, DE!IntegrationRow, DE!DeliveryStatuses,
           DE!DeliveryRow, DE!Running,
               DE!deliveries, DE!Present, DE!At, DE!Start, DE!Once, DE!Goto, DE!Finish,
               DE!Absent, DE!Gone, DE!Idle
  <2>1. DEDispatched(r, request[r].calling \cup {d})
        BY <1>3, DEOn, DEDispatch DEF DE!InsertDelivery, DEInv
  <2>2. [of |-> i, status |-> "PENDING", attemptCount |-> 0] \in DE!DeliveryRow
        BY MaxStartedAssumption DEF DE!DeliveryRow, DE!DeliveryStatuses
  <2> QED BY <1>3, <2>1, <2>2 DEF DE!InsertDelivery, DEDispatched, DE!TypeOK, DE!HandlersTypeOK,
             DEInv
<1>4. ASSUME NEW r \in Requests, NEW i \in Parts, DE!InsertFails(r, i)
      PROVE  DE!TypeOK'
  <2> HIDE DEF DE!TypeOK, DE!HandlersTypeOK, DE!IntegrationRow, DE!DeliveryStatuses,
           DE!DeliveryRow, DE!Running,
               DE!deliveries, DE!Present, DE!At, DE!Start, DE!Once, DE!Goto, DE!Finish,
               DE!Absent, DE!Gone, DE!Idle
  <2>1. DEDispatched(r, request[r].calling)
        BY <1>4, DEOn, DEDispatch DEF DE!InsertFails, DEInv
  <2> QED BY <1>4, <2>1 DEF DE!InsertFails, DE!deliveries, DEDispatched, DE!TypeOK,
             DE!HandlersTypeOK, DEInv
<1>5. ASSUME NEW r \in Requests, DE!BeginEmit(r)
      PROVE  DE!TypeOK'
  <2> HIDE DEF DE!TypeOK, DE!HandlersTypeOK, DE!IntegrationRow, DE!DeliveryStatuses,
           DE!DeliveryRow, DE!Running,
               DE!deliveries, DE!Present, DE!At, DE!Start, DE!Once, DE!Goto, DE!Finish,
               DE!Absent, DE!Gone, DE!Idle
  <2>1. [pc |-> "emit", on |-> "event", todo |-> DE!ActiveAndSubscribed, calling |-> {}] \in DE!Running
        BY DEF DE!Running, DE!ActiveAndSubscribed
  <2> QED BY <1>5, <2>1, MaxStartedAssumption DEF DE!BeginEmit, DE!deliveries, DE!Start,
             DE!TypeOK, DE!HandlersTypeOK, DEInv
<1>6. ASSUME NEW r \in Requests, NEW d \in Rows, DE!BeginRetry(r, d)
      PROVE  DE!TypeOK'
  <2> HIDE DEF DE!TypeOK, DE!HandlersTypeOK, DE!IntegrationRow, DE!DeliveryStatuses,
           DE!DeliveryRow, DE!Running,
               DE!deliveries, DE!Present, DE!At, DE!Start, DE!Once, DE!Goto, DE!Finish,
               DE!Absent, DE!Gone, DE!Idle
  <2>1. [pc |-> "retry", on |-> d, seen |-> delivery[d].attemptCount] \in DE!Running
        BY <1>6, DERows DEF DE!BeginRetry, DEInv, DE!Running, DE!DeliveryRow
  <2> QED BY <1>6, <2>1, MaxStartedAssumption DEF DE!BeginRetry, DE!Crossed, DE!Start,
             DE!TypeOK, DE!HandlersTypeOK, DEInv
<1>7. ASSUME NEW r \in Requests, NEW d \in Rows, NEW b \in BOOLEAN, DE!Answer(r, d, b)
      PROVE  DE!TypeOK'
  <2> HIDE DEF DE!TypeOK, DE!HandlersTypeOK, DE!IntegrationRow, DE!DeliveryStatuses,
           DE!DeliveryRow, DE!Running,
               DE!deliveries, DE!Present, DE!At, DE!Start, DE!Once, DE!Goto, DE!Finish,
               DE!Absent, DE!Gone, DE!Idle
  <2>1. DEOver(r, d) /\ DEMore(d, b) /\ DEWritten(r, d, b)
        BY <1>7, DEEnds, DEAnswers, DEWrite DEF DE!Answer, DEInv
  <2> QED BY <1>7, <2>1 DEF DE!Answer, DEOver, DEMore, DEWritten, DE!TypeOK, DE!HandlersTypeOK,
             DEInv
<1>8. ASSUME NEW r \in Requests, NEW d \in Rows, NEW b \in BOOLEAN, DE!AnswerFails(r, d, b)
      PROVE  DE!TypeOK'
  <2> HIDE DEF DE!TypeOK, DE!HandlersTypeOK, DE!IntegrationRow, DE!DeliveryStatuses,
           DE!DeliveryRow, DE!Running,
               DE!deliveries, DE!Present, DE!At, DE!Start, DE!Once, DE!Goto, DE!Finish,
               DE!Absent, DE!Gone, DE!Idle
  <2>1. DEOver(r, d) /\ DEMore(d, b)
        BY <1>8, DEEnds, DEAnswers DEF DE!AnswerFails, DEInv
  <2> QED BY <1>8, <2>1 DEF DE!AnswerFails, DEOver, DEMore, DE!TypeOK, DE!HandlersTypeOK, DEInv
<1>9. ASSUME NEW r \in Requests, DE!Abort(r)
      PROVE  DE!TypeOK'
      BY <1>9 DEF DE!Abort, DE!Stop
<1>10. CASE UNCHANGED DE!vars
      BY <1>10 DEF DE!vars
<1> HIDE DEF DE!TypeOK, DE!HandlersTypeOK, DE!IntegrationRow, DE!DeliveryStatuses,
         DE!DeliveryRow, DE!Running,
             DE!deliveries, DE!Present, DE!At, DE!Start, DE!Once, DE!Goto, DE!Finish, DE!Absent,
             DE!Gone, DE!Idle,
             DEInv
<1> QED BY <1>1, <1>2, <1>3, <1>4, <1>5, <1>6, <1>7, <1>8, <1>9, <1>10 DEF DE!Next

\* Every step keeps the counts.
LEMMA DERestStep ==
    ASSUME DEInv, [DE!Next]_DE!vars
    PROVE  DEKnown' /\ DECounts' /\ DEAlone' /\ DEBounded' /\ DE!AttemptsCounted' /\ DE!NeverOvercounted'
<1> USE DEF DE!TypeOK, DE!HandlersTypeOK, DE!IntegrationRow, DE!DeliveryStatuses,
        DE!DeliveryRow, DE!Running,
            DE!deliveries, DE!Present, DE!At, DE!Start, DE!Once, DE!Goto, DE!Finish, DE!Absent,
            DE!Gone, DE!Idle,
            DEInv, DE!Handled
<1>1. ASSUME NEW r \in Requests, NEW i \in Parts, NEW b \in BOOLEAN, DE!CreateIntegration(r,
             i, b)
      PROVE  DEKnown' /\ DECounts' /\ DEAlone' /\ DEBounded' /\ DE!AttemptsCounted' /\ DE!NeverOvercounted'
  <2> HIDE DEF DE!TypeOK, DE!HandlersTypeOK, DE!IntegrationRow, DE!DeliveryStatuses,
           DE!DeliveryRow, DE!Running,
               DE!deliveries, DE!Present, DE!At, DE!Start, DE!Once, DE!Goto, DE!Finish,
               DE!Absent, DE!Gone, DE!Idle,
               DE!Handled
  <2>1. DEKept
        BY <1>1, MaxStartedAssumption DEF DE!CreateIntegration, DE!Once, DEKept, DEInv,
           DEBounded, DE!TypeOK, DE!HandlersTypeOK, DE!At, DE!Calls
  <2> QED BY <2>1, DEKeeps
<1>2. ASSUME NEW r \in Requests, NEW i \in Parts, NEW w \in DE!IntegrationRow,
             DE!UpdateIntegration(r, i, w)
      PROVE  DEKnown' /\ DECounts' /\ DEAlone' /\ DEBounded' /\ DE!AttemptsCounted' /\ DE!NeverOvercounted'
  <2> HIDE DEF DE!TypeOK, DE!HandlersTypeOK, DE!IntegrationRow, DE!DeliveryStatuses,
           DE!DeliveryRow, DE!Running,
               DE!deliveries, DE!Present, DE!At, DE!Start, DE!Once, DE!Goto, DE!Finish,
               DE!Absent, DE!Gone, DE!Idle,
               DE!Handled
  <2>1. DEKept
        BY <1>2, MaxStartedAssumption DEF DE!UpdateIntegration, DE!Once, DEKept, DEInv,
           DEBounded, DE!TypeOK, DE!HandlersTypeOK, DE!At, DE!Calls
  <2> QED BY <2>1, DEKeeps
<1>3. ASSUME NEW r \in Requests, NEW i \in Parts, NEW d \in Rows, DE!InsertDelivery(r, i, d)
      PROVE  DEKnown' /\ DECounts' /\ DEAlone' /\ DEBounded' /\ DE!AttemptsCounted' /\ DE!NeverOvercounted'
  <2> HIDE DEF DE!TypeOK, DE!HandlersTypeOK, DE!IntegrationRow, DE!DeliveryStatuses,
           DE!DeliveryRow, DE!Running,
               DE!deliveries, DE!Present, DE!At, DE!Start, DE!Once, DE!Goto, DE!Finish,
               DE!Absent, DE!Gone, DE!Idle,
               DE!Handled
  <2> DEFINE row == [of |-> i, status |-> "PENDING", attemptCount |-> 0]
  <2>1. DEDispatched(r, request[r].calling \cup {d}) /\ DE!At(r, "emit")
        BY <1>3, DEOn, DEDispatch DEF DE!InsertDelivery, DEInv
  <2>2. /\ UNCHANGED <<answers, crossed, unwritten, started>> /\ ~DE!Present(delivery[d])
        /\ DE!Present(delivery'[d]) /\ delivery'[d].attemptCount = 0 /\ delivery'[d].status = "PENDING"
        /\ \A e \in Rows \ {d} : delivery'[e] = delivery[e]
    <3>1. row \in DE!DeliveryRow /\ row.attemptCount = 0 /\ row.status = "PENDING"
          BY MaxStartedAssumption DEF DE!DeliveryRow, DE!DeliveryStatuses
    <3>2. delivery' = [delivery EXCEPT ![d] = row]
          BY <1>3 DEF DE!InsertDelivery
    <3>3. UNCHANGED <<answers, crossed, unwritten, started>> /\ delivery[d] = DE!Absent
          BY <1>3, <2>1 DEF DE!InsertDelivery, DEDispatched
    <3> HIDE DEF row
    <3> QED BY <3>1, <3>2, <3>3, DERows DEF DEInv, DE!TypeOK
  <2>3. ~DE!CalledFor(d) /\ answers[d] = <<>> /\ Len(answers[d]) = 0
        BY <2>2 DEF DEInv, DEKnown
  <2>4. \A q \in Requests, e \in Rows : DE!Calls(q, e)' <=> (DE!Calls(q, e) \/ (q = r /\ e = d))
        BY <2>1, DEOn DEF DEDispatched, DE!Calls, DE!At, DEInv
  <2>5. \A q \in Requests, e \in Rows : DE!Calls(q, e)' => (IF q = r THEN DE!Attempts(q)' = 1 /\ DE!Attempts(q) = 1 ELSE DE!Attempts(q)' = DE!Attempts(q))
        BY <2>1 DEF DEDispatched, DE!Attempts, DE!At
  <2>6. DEKnown'
        BY <2>2, <2>4 DEF DEInv, DEKnown, DE!CalledFor
  <2>7. DEAlone'
        BY <2>2, <2>3, <2>4 DEF DEInv, DEAlone, DE!CalledFor
  <2>8. DEBounded'
    <3>1. started \in Nat /\ 1 <= started
          BY <2>1, MaxStartedAssumption DEF DEInv, DEBounded, DE!TypeOK, DE!HandlersTypeOK
    <3>2. \A e \in Rows : DE!Present(delivery'[e]) => delivery'[e].attemptCount <= started
          BY <2>2, <3>1 DEF DEInv, DEBounded
    <3>3. \A q \in Requests : DE!At(q, "retry")' => request'[q] = request[q]
          BY <2>1 DEF DEDispatched, DE!At
    <3> QED BY <2>2, <3>1, <3>2, <3>3 DEF DEInv, DEBounded, DE!At, DE!Present
  <2>9. DECounts'
    <3>1. ASSUME NEW q \in Requests, NEW e \in Rows, DE!Calls(q, e)'
          PROVE  (/\ DE!Attempts(q) <= Len(answers[e]) + 1
                  /\ e \notin crossed \cup unwritten => DE!Attempts(q) = Len(answers[e]) + 1)'
      <4>1. CASE e = d
            BY <2>2, <2>3, <2>4, <2>5, <3>1, <4>1 DEF DE!CalledFor
      <4>2. CASE e # d
            BY <2>2, <2>4, <2>5, <3>1, <4>2 DEF DEInv, DECounts
      <4> QED BY <4>1, <4>2
    <3> QED BY <3>1 DEF DECounts
  <2>10. DE!AttemptsCounted'
    <3>1. DE!CalledFor(d)'
          BY <2>4 DEF DE!CalledFor
    <3>2. \A e \in Rows : DE!CalledFor(e) => DE!CalledFor(e)'
          BY <2>4 DEF DE!CalledFor
    <3> QED BY <2>2, <3>1, <3>2 DEF DEInv, DE!AttemptsCounted, DE!Present
  <2>11. DE!NeverOvercounted'
    <3>1. delivery'[d].attemptCount <= Len(answers'[d])
          BY <2>2, <2>3
    <3> QED BY <2>2, <3>1 DEF DEInv, DE!NeverOvercounted, DE!Present
  <2> QED BY <2>6, <2>7, <2>8, <2>9, <2>10, <2>11
<1>4. ASSUME NEW r \in Requests, NEW i \in Parts, DE!InsertFails(r, i)
      PROVE  DEKnown' /\ DECounts' /\ DEAlone' /\ DEBounded' /\ DE!AttemptsCounted' /\ DE!NeverOvercounted'
  <2> HIDE DEF DE!TypeOK, DE!HandlersTypeOK, DE!IntegrationRow, DE!DeliveryStatuses,
           DE!DeliveryRow, DE!Running,
               DE!deliveries, DE!Present, DE!At, DE!Start, DE!Once, DE!Goto, DE!Finish,
               DE!Absent, DE!Gone, DE!Idle,
               DE!Handled
  <2>1. DEDispatched(r, request[r].calling)
        BY <1>4, DEOn, DEDispatch DEF DE!InsertFails, DEInv
  <2>2. \A e \in Rows : DE!Calls(r, e) <=> e \in request[r].calling
        BY <1>4, DEOn DEF DE!InsertFails, DE!Calls, DEInv
  <2>3. DEKept
        BY <1>4, <2>1, <2>2, MaxStartedAssumption DEF DE!InsertFails, DE!deliveries,
           DEDispatched, DEKept, DEInv, DEBounded, DE!TypeOK, DE!HandlersTypeOK, DE!At, DE!Calls
  <2> QED BY <2>3, DEKeeps
<1>5. ASSUME NEW r \in Requests, DE!BeginEmit(r)
      PROVE  DEKnown' /\ DECounts' /\ DEAlone' /\ DEBounded' /\ DE!AttemptsCounted' /\ DE!NeverOvercounted'
  <2> HIDE DEF DE!TypeOK, DE!HandlersTypeOK, DE!IntegrationRow, DE!DeliveryStatuses,
           DE!DeliveryRow, DE!Running,
               DE!deliveries, DE!Present, DE!At, DE!Start, DE!Once, DE!Goto, DE!Finish,
               DE!Absent, DE!Gone, DE!Idle,
               DE!Handled
  <2>1. DEKept
        BY <1>5, MaxStartedAssumption DEF DE!BeginEmit, DE!deliveries, DE!Start, DEKept, DEInv,
           DEBounded, DE!TypeOK, DE!HandlersTypeOK, DE!At, DE!Calls, DE!Idle
  <2> QED BY <2>1, DEKeeps
<1>6. ASSUME NEW r \in Requests, NEW d \in Rows, DE!BeginRetry(r, d)
      PROVE  DEKnown' /\ DECounts' /\ DEAlone' /\ DEBounded' /\ DE!AttemptsCounted' /\ DE!NeverOvercounted'
  <2> HIDE DEF DE!TypeOK, DE!HandlersTypeOK, DE!IntegrationRow, DE!DeliveryStatuses,
           DE!DeliveryRow, DE!Running,
               DE!deliveries, DE!Present, DE!At, DE!Start, DE!Once, DE!Goto, DE!Finish,
               DE!Absent, DE!Gone, DE!Idle,
               DE!Handled
  <2> DEFINE n == delivery[d].attemptCount
  <2>1. /\ UNCHANGED <<delivery, answers, unwritten>> /\ DE!Present(delivery[d]) /\ n \in Nat /\ n <= started
        /\ started' = started + 1 /\ started \in Nat /\ request[r] = DE!Idle
        BY <1>6, DERows, MaxStartedAssumption DEF DE!BeginRetry, DE!Start, DEInv, DEBounded,
           DE!TypeOK, DE!HandlersTypeOK
  <2>2. crossed' = IF DE!CalledFor(d) THEN crossed \cup {d} ELSE crossed
        BY <1>6 DEF DE!BeginRetry, DE!Crossed
  <2>3. /\ request'[r] = [pc |-> "retry", on |-> d, seen |-> n]
        /\ \A q \in Requests \ {r} : request'[q] = request[q]
        BY <1>6 DEF DE!BeginRetry, DE!Start, DEInv, DE!TypeOK, DE!HandlersTypeOK
  <2>4. \A q \in Requests, e \in Rows : DE!Calls(q, e)' <=> (DE!Calls(q, e) \/ (q = r /\ e = d))
        BY <2>1, <2>3 DEF DE!Calls, DE!At, DE!Idle
  <2>5. (\A e \in Rows : ~DE!Calls(r, e)) /\ DE!Attempts(r)' = n + 1 /\ \A q \in Requests \ {r} : DE!Attempts(q)' = DE!Attempts(q)
        BY <2>1, <2>3 DEF DE!Calls, DE!Attempts, DE!At, DE!Idle
  <2>6. DEKnown'
        BY <2>1, <2>4 DEF DEInv, DEKnown, DE!CalledFor, DE!Present
  <2>7. DEAlone'
        BY <2>2, <2>4, <2>5 DEF DEInv, DEAlone, DE!CalledFor
  <2>8. DEBounded'
        BY <2>1, <2>3, DERows, DEOn DEF DEInv, DEBounded, DE!At, DE!Present
  <2>9. n <= Len(answers[d]) /\ (d \notin crossed' \cup unwritten => n = Len(answers[d]))
        BY <2>1, <2>2 DEF DEInv, DE!NeverOvercounted, DE!AttemptsCounted
  <2>10. DECounts'
    <3>1. ASSUME NEW q \in Requests, NEW e \in Rows, DE!Calls(q, e), q # r
          PROVE  (/\ DE!Attempts(q) <= Len(answers[e]) + 1
                  /\ e \notin crossed \cup unwritten => DE!Attempts(q) = Len(answers[e]) + 1)'
          BY <2>1, <2>2, <2>5, <3>1 DEF DEInv, DECounts
    <3>2. (/\ DE!Attempts(r) <= Len(answers[d]) + 1
           /\ d \notin crossed \cup unwritten => DE!Attempts(r) = Len(answers[d]) + 1)'
      <4>1. Len(answers[d]) \in Nat
            BY DEF DEInv, DE!TypeOK
      <4> QED BY <2>1, <2>5, <2>9, <4>1
    <3> QED BY <2>4, <2>5, <3>1, <3>2 DEF DECounts
  <2>11. DE!AttemptsCounted' /\ DE!NeverOvercounted'
        BY <2>1, <2>2, <2>4 DEF DEInv, DE!AttemptsCounted, DE!NeverOvercounted, DE!CalledFor,
           DE!Present
  <2> QED BY <2>6, <2>7, <2>8, <2>10, <2>11
<1>7. ASSUME NEW r \in Requests, NEW d \in Rows, NEW b \in BOOLEAN, DE!Answer(r, d, b)
      PROVE  DEKnown' /\ DECounts' /\ DEAlone' /\ DEBounded' /\ DE!AttemptsCounted' /\ DE!NeverOvercounted'
  <2> HIDE DEF DE!TypeOK, DE!HandlersTypeOK, DE!IntegrationRow, DE!DeliveryStatuses,
           DE!DeliveryRow, DE!Running,
               DE!deliveries, DE!Present, DE!At, DE!Start, DE!Once, DE!Goto, DE!Finish,
               DE!Absent, DE!Gone, DE!Idle,
               DE!Handled
  <2>1. DEOver(r, d) /\ DEMore(d, b) /\ DEWritten(r, d, b)
        BY <1>7, DEEnds, DEAnswers, DEWrite DEF DE!Answer, DEInv
  <2>2. unwritten' = unwritten
        BY <1>7 DEF DE!Answer
  <2> QED BY <2>1, <2>2, DEAfter
<1>8. ASSUME NEW r \in Requests, NEW d \in Rows, NEW b \in BOOLEAN, DE!AnswerFails(r, d, b)
      PROVE  DEKnown' /\ DECounts' /\ DEAlone' /\ DEBounded' /\ DE!AttemptsCounted' /\ DE!NeverOvercounted'
  <2> HIDE DEF DE!TypeOK, DE!HandlersTypeOK, DE!IntegrationRow, DE!DeliveryStatuses,
           DE!DeliveryRow, DE!Running,
               DE!deliveries, DE!Present, DE!At, DE!Start, DE!Once, DE!Goto, DE!Finish,
               DE!Absent, DE!Gone, DE!Idle,
               DE!Handled
  <2>1. DEOver(r, d) /\ DEMore(d, b)
        BY <1>8, DEEnds, DEAnswers DEF DE!AnswerFails, DEInv
  <2>2. delivery' = delivery /\ unwritten' = unwritten \cup {d}
        BY <1>8 DEF DE!AnswerFails
  <2> QED BY <2>1, <2>2, DEAfter
<1>9. ASSUME NEW r \in Requests, DE!Abort(r)
      PROVE  DEKnown' /\ DECounts' /\ DEAlone' /\ DEBounded' /\ DE!AttemptsCounted' /\ DE!NeverOvercounted'
  <2> HIDE DEF DE!TypeOK, DE!HandlersTypeOK, DE!IntegrationRow, DE!DeliveryStatuses,
           DE!DeliveryRow, DE!Running,
               DE!deliveries, DE!Present, DE!At, DE!Start, DE!Once, DE!Goto, DE!Finish,
               DE!Absent, DE!Gone, DE!Idle,
               DE!Handled
  <2>1. DEKept
        BY <1>9, MaxStartedAssumption DEF DE!Abort, DE!Stop, DE!Finish, DE!Goto, DEKept, DEInv,
           DEBounded, DE!TypeOK, DE!HandlersTypeOK, DE!At, DE!Calls, DE!Idle
  <2> QED BY <2>1, DEKeeps
<1>10. CASE UNCHANGED DE!vars
  <2> HIDE DEF DE!TypeOK, DE!HandlersTypeOK, DE!IntegrationRow, DE!DeliveryStatuses,
           DE!DeliveryRow, DE!Running,
               DE!deliveries, DE!Present, DE!At, DE!Start, DE!Once, DE!Goto, DE!Finish,
               DE!Absent, DE!Gone, DE!Idle
  <2>1. DEKept
        BY <1>10, MaxStartedAssumption DEF DE!vars, DEKept, DEInv, DEBounded, DE!TypeOK,
           DE!HandlersTypeOK, DE!At, DE!Calls
  <2> QED BY <2>1, DEKeeps
<1> HIDE DEF DE!TypeOK, DE!HandlersTypeOK, DE!IntegrationRow, DE!DeliveryStatuses,
         DE!DeliveryRow, DE!Running,
             DE!deliveries, DE!Present, DE!At, DE!Start, DE!Once, DE!Goto, DE!Finish, DE!Absent,
             DE!Gone, DE!Idle,
             DEInv, DE!Handled
<1> QED BY <1>1, <1>2, <1>3, <1>4, <1>5, <1>6, <1>7, <1>8, <1>9, <1>10 DEF DE!Next

\* Every step keeps the invariant.
LEMMA DEInvStep == ASSUME DEInv, [DE!Next]_DE!vars PROVE DEInv'
BY DETypeStep, DERestStep DEF DEInv

\* The number of elements is that of the library.
LEMMA SECardinality == \A S : SE!Cardinality(S) = Cardinality(S)
BY Zenon DEF Cardinality, SE!Cardinality

(***************************************************************************)
(* Settings.                                                               *)
(***************************************************************************)

\* Two handlers of one kind are remembered.
SEAlone ==
    \A q, r \in Requests :
        request[q] # SE!Idle /\ request[r] # SE!Idle /\ request[q].on = request[r].on
            /\ request[q].on \notin raced => q = r

\* What a handler found: none of its kind, or a row that is of its kind as long
\* as it is there and says what the handler read of it.
SEFound ==
    \A r \in Requests :
        LET q == request[r] IN
        /\ q # SE!Idle => q.on # "global"
        /\ q.pc = "insert" /\ q.on \notin SE!Unique \cup raced => SE!Of(q.on) = {}
        /\ q.pc \in {"update", "delete"} =>
               setting[q.id] # SE!Absent /\ (SE!Present(setting[q.id]) => setting[q.id].kind = q.on)
        /\ q.pc = "update" /\ q.wants # None => q.value = q.wants
        /\ q.pc = "update" /\ q.wants = None /\ q.on \notin raced /\ SE!Present(setting[q.id]) =>
               q.value = setting[q.id].value

\* No two rows of a kind, but for flags of the platform.
SEOne ==
    \A kind \in SE!Kinds \ {"global"} :
        kind \in SE!Unique \/ kind \notin raced => \A i, j \in SE!Of(kind) : i = j

SEInv == SE!TypeOK /\ SEAlone /\ SEFound /\ SEOne /\ SE!GlobalFlagsPile /\ SE!SaysWhatWasAsked

SEGoes(r, h) == request'[r] = h /\ \A q \in Requests \ {r} : request'[q] = request[q]

\* There are no rows at first.
LEMMA SEStart == SE!Init => SEInv
<1> SUFFICES ASSUME SE!Init PROVE SEInv
    OBVIOUS
<1>1. SE!Of("global") = {} /\ \A k \in SE!Kinds : SE!Of(k) = {}
      BY DEF SE!Init, SE!Of, SE!Present
<1>2. SE!Cardinality({}) = 0 /\ SE!Cardinality(Rows) \in Nat
      BY SECardinality, FS_EmptySet, FS_CardinalityType, FiniteAssumption
<1>3. globals \in 0..SE!Cardinality(Rows)
      BY <1>2 DEF SE!Init
<1>4. SE!TypeOK
      BY <1>3, MaxStartedAssumption DEF SE!Init, SE!HandlersInit, SE!TypeOK, SE!HandlersTypeOK
<1>5. SE!GlobalFlagsPile
      BY <1>1, <1>2 DEF SE!GlobalFlagsPile, SE!Init
<1> QED BY <1>1, <1>4, <1>5 DEF SE!Init, SE!HandlersInit, SEInv, SEAlone, SEFound, SEOne,
           SE!SaysWhatWasAsked, SE!Present, SE!Idle

\* A row that is there is neither absent nor gone.
LEMMA SERows ==
    /\ \A x \in SE!SettingRow : x \notin {SE!Absent, SE!Gone} /\ SE!Present(x) /\ x.kind \in SE!Kinds /\ x.value \in Values
    /\ ~SE!Present(SE!Absent) /\ ~SE!Present(SE!Gone) /\ SE!Gone # SE!Absent
    /\ SE!TypeOK => \A i \in Rows : SE!Present(setting[i]) => setting[i] \in SE!SettingRow
BY DEF SE!SettingRow, SE!Absent, SE!Gone, SE!Present, SE!TypeOK

\* A handler is about a kind, and about a row once it found one.
LEMMA SEOn ==
    SEInv => \A r \in Requests : request[r] # SE!Idle =>
        /\ request[r].on \in SE!Kinds
        /\ request[r].pc \in {"insert", "update", "delete"}
        /\ request[r].pc = "insert" => request[r].value \in Values
        /\ request[r].pc = "update" => request[r].value \in Values /\ request[r].wants \in Values \cup {None}
        /\ request[r].pc \in {"update", "delete"} => request[r].id \in Rows
<1> SUFFICES ASSUME SEInv, NEW r \in Requests, request[r] # SE!Idle
             PROVE  /\ request[r].on \in SE!Kinds
                    /\ request[r].pc \in {"insert", "update", "delete"}
                    /\ request[r].pc = "insert" => request[r].value \in Values
                    /\ request[r].pc = "update" =>
                           request[r].value \in Values /\ request[r].wants \in Values \cup {None}
                    /\ request[r].pc \in {"update", "delete"} => request[r].id \in Rows
    OBVIOUS
<1>1. request[r] \in SE!Running
      BY DEF SEInv, SE!TypeOK, SE!HandlersTypeOK
<1> QED BY <1>1 DEF SE!Running

\* What writing a new row does, or the same row again.
SEPut(i, kind, v) ==
    /\ setting'[i] = [kind |-> kind, value |-> v] /\ setting'[i] \in SE!SettingRow
    /\ SE!Present(setting'[i]) /\ setting'[i].kind = kind /\ setting'[i].value = v
    /\ asked'[i] = v
    /\ \A j \in Rows \ {i} : setting'[j] = setting[j] /\ asked'[j] = asked[j]
    /\ setting' \in [Rows -> SE!SettingRow \cup {SE!Absent, SE!Gone}]
    /\ asked' \in [Rows -> Values \cup {None}]

\* Writing a row changes that row only.
LEMMA SEPuts ==
    ASSUME SE!TypeOK, NEW i \in Rows, NEW kind \in SE!Kinds, NEW v \in Values, SE!Put(i, kind, v)
    PROVE  SEPut(i, kind, v)
<1> DEFINE row == [kind |-> kind, value |-> v]
<1>1. row \in SE!SettingRow /\ row.kind = kind /\ row.value = v
      BY DEF SE!SettingRow
<1>2. setting' = [setting EXCEPT ![i] = row] /\ asked' = [asked EXCEPT ![i] = v]
      BY DEF SE!Put
<1>3. SE!Present(row)
      BY <1>1, SERows
<1> QED BY <1>1, <1>2, <1>3 DEF SE!TypeOK, SEPut

\* What inserting the row that was not found does.
SEInserted(r, i) ==
    LET q == request[r] IN
    /\ SE!At(r, "insert") /\ SEGoes(r, SE!Idle) /\ UNCHANGED <<globals, raced>>
    /\ setting[i] = SE!Absent /\ i \in Rows
    /\ \/ q.on \in SE!Unique /\ SE!Of(q.on) # {} /\ UNCHANGED <<setting, asked>>
       \/ (q.on \in SE!Unique => SE!Of(q.on) = {}) /\ SEPut(i, q.on, q.value)

\* Inserting a setting writes the value that was asked for.
LEMMA SEInsert ==
    ASSUME SEInv, NEW r \in Requests, NEW i \in Rows, SE!Insert(r, i)
    PROVE  SEInserted(r, i)
<1>1. request[r].on \in SE!Kinds /\ request[r].value \in Values
      BY SEOn DEF SE!Insert, SE!At, SE!Idle
<1>2. SEGoes(r, SE!Idle)
      BY DEF SE!Insert, SE!Finish, SE!Goto, SEGoes, SEInv, SE!TypeOK, SE!HandlersTypeOK
<1> QED BY <1>1, <1>2, SEPuts DEF SEInv, SE!Insert, SE!Finish, SE!Goto, SE!settings, SEInserted

\* What updating the row that was found does.
SEUpdated(r) ==
    LET q == request[r]
        i == q.id IN
    /\ SE!At(r, "update") /\ SEGoes(r, SE!Idle) /\ UNCHANGED <<globals, raced>> /\ i \in Rows
    /\ setting' \in [Rows -> SE!SettingRow \cup {SE!Absent, SE!Gone}] /\ asked' \in [Rows -> Values \cup {None}]
    /\ \A j \in Rows \ {i} : setting'[j] = setting[j] /\ asked'[j] = asked[j]
    /\ IF SE!Present(setting[i])
       THEN /\ SE!Present(setting'[i]) /\ setting'[i].kind = setting[i].kind /\ setting'[i].value = q.value
            /\ asked'[i] = IF q.wants = None THEN asked[i] ELSE q.wants
       ELSE UNCHANGED <<setting, asked>>

\* So does updating one.
LEMMA SEUpdate == ASSUME SEInv, NEW r \in Requests, SE!Update(r) PROVE SEUpdated(r)
<1> DEFINE q == request[r]
           i == q.id
           row == [setting[i] EXCEPT !.value = q.value]
<1>1. i \in Rows /\ q.value \in Values /\ q.wants \in Values \cup {None}
      BY SEOn DEF SE!Update, SE!At, SE!Idle
<1>2. SEGoes(r, SE!Idle) /\ UNCHANGED <<globals, raced>> /\ SE!At(r, "update")
      BY DEF SE!Update, SE!Finish, SE!Goto, SEGoes, SEInv, SE!TypeOK, SE!HandlersTypeOK
<1>3. CASE ~SE!Present(setting[i])
  <2>1. UNCHANGED <<setting, asked>>
        BY <1>3 DEF SE!Update
  <2> QED BY <1>1, <1>2, <1>3, <2>1 DEF SEUpdated, SEInv, SE!TypeOK
<1>4. CASE SE!Present(setting[i])
  <2>1. row \in SE!SettingRow /\ row.kind = setting[i].kind /\ row.value = q.value
        BY <1>1, <1>4, SERows DEF SEInv, SE!SettingRow
  <2>2. setting' = [setting EXCEPT ![i] = row] /\ asked' = IF q.wants = None THEN asked ELSE [asked EXCEPT ![i] = q.wants]
        BY <1>1, <1>4 DEF SE!Update, SEInv, SE!TypeOK
  <2>3. SE!Present(row)
        BY <2>1, SERows
  <2> HIDE DEF row
  <2>4. setting' \in [Rows -> SE!SettingRow \cup {SE!Absent, SE!Gone}] /\ asked' \in [Rows -> Values \cup {None}]
        BY <1>1, <2>1, <2>2 DEF SEInv, SE!TypeOK
  <2>5. /\ \A j \in Rows \ {i} : setting'[j] = setting[j] /\ asked'[j] = asked[j]
        /\ setting'[i] = row /\ asked'[i] = IF q.wants = None THEN asked[i] ELSE q.wants
        BY <1>1, <2>1, <2>2 DEF SEInv, SE!TypeOK
  <2> QED BY <1>1, <1>2, <1>4, <2>1, <2>3, <2>4, <2>5 DEF SEUpdated
<1> QED BY <1>3, <1>4

\* What deleting it does.
SEDeleted(r) ==
    LET i == request[r].id IN
    /\ SE!At(r, "delete") /\ SEGoes(r, SE!Idle) /\ UNCHANGED <<asked, globals, raced>> /\ i \in Rows
    /\ setting' \in [Rows -> SE!SettingRow \cup {SE!Absent, SE!Gone}]
    /\ \A j \in Rows \ {i} : setting'[j] = setting[j]
    /\ setting'[i] = SE!Gone

\* Deleting a setting takes the row away.
LEMMA SEDelete == ASSUME SEInv, NEW r \in Requests, SE!Delete(r) PROVE SEDeleted(r)
<1>1. request[r].id \in Rows
      BY SEOn DEF SE!Delete, SE!At, SE!Idle
<1> QED BY <1>1 DEF SE!Delete, SE!Finish, SE!Goto, SEGoes, SEInv, SE!TypeOK, SE!HandlersTypeOK,
           SEDeleted

\* A new flag of the platform is one more.
LEMMA SEOneMore ==
    ASSUME SEInv, NEW i \in Rows, setting[i] = SE!Absent, NEW v \in Values, SEPut(i, "global", v),
           globals' = globals + 1
    PROVE  SE!GlobalFlagsPile' /\ globals' \in 0..SE!Cardinality(Rows)
<1>1. SE!Of("global")' = SE!Of("global") \cup {i} /\ i \notin SE!Of("global")
      BY SERows DEF SEPut, SE!Of
<1>2. IsFiniteSet(SE!Of("global")) /\ IsFiniteSet(SE!Of("global")') /\ SE!Of("global")' \subseteq Rows
      BY FiniteAssumption, SECardinality, FS_Subset DEF SE!Of
<1>3. SE!Cardinality(SE!Of("global")') = SE!Cardinality(SE!Of("global")) + 1
      BY <1>1, <1>2, SECardinality, FS_AddElement
<1>4. /\ SE!Cardinality(SE!Of("global")') <= SE!Cardinality(Rows) /\ SE!Cardinality(SE!Of("global")') \in Nat
      /\ SE!Cardinality(Rows) \in Nat
      BY <1>2, FiniteAssumption, SECardinality, FS_Subset, FS_CardinalityType
<1>5. SE!Cardinality(SE!Of("global")') = globals'
      BY <1>3 DEF SEInv, SE!GlobalFlagsPile
<1> QED BY <1>4, <1>5 DEF SE!GlobalFlagsPile

\* Every step keeps the types.
LEMMA SETypeStep ==
    ASSUME SEInv, [SE!Next]_SE!vars
    PROVE  SE!TypeOK'
<1> USE MaxStartedAssumption DEF SE!TypeOK, SE!HandlersTypeOK, SE!Kinds, SE!SettingRow,
        SE!Running,
            SE!settings, SE!Present, SE!At, SE!Start, SE!Once, SE!Goto, SE!Finish, SE!Absent,
            SE!Gone, SE!Idle, SE!Unique, SE!Held, SE!Put, SE!Of,
            SEInv
<1>1. ASSUME NEW r \in Requests, NEW v \in Values, NEW k \in SE!Kinds, SE!BeginCreate(r, k, v)
      PROVE  SE!TypeOK'
  <2>1. [pc |-> "insert", on |-> k, value |-> v] \in SE!Running
        BY <1>1 DEF SE!BeginCreate
  <2> HIDE DEF SE!TypeOK, SE!HandlersTypeOK, SE!Kinds, SE!SettingRow, SE!Running,
               SE!settings, SE!Present, SE!At, SE!Start, SE!Once, SE!Goto, SE!Finish, SE!Absent,
               SE!Gone, SE!Idle, SE!Unique, SE!Held, SE!Put, SE!Of
  <2> QED BY <1>1, <2>1, MaxStartedAssumption DEF SE!BeginCreate, SE!Start, SE!settings,
             SE!TypeOK, SE!HandlersTypeOK, SEInv
<1>2. ASSUME NEW r \in Requests, NEW v \in Values, SE!BeginUpsert(r, v)
      PROVE  SE!TypeOK'
  <2>1. [pc |-> "insert", on |-> "preference", value |-> v] \in SE!Running
        BY <1>2 DEF SE!BeginUpsert
  <2>2. \A i \in Rows : [pc |-> "update", on |-> "preference", id |-> i, value |-> v, wants |-> v] \in SE!Running
        BY <1>2 DEF SE!BeginUpsert
  <2>3. SE!Of("preference") \subseteq Rows /\ "preference" \in SE!Kinds
        OBVIOUS
  <2> HIDE DEF SE!TypeOK, SE!HandlersTypeOK, SE!Kinds, SE!SettingRow, SE!Running,
               SE!settings, SE!Present, SE!At, SE!Start, SE!Once, SE!Goto, SE!Finish, SE!Absent,
               SE!Gone, SE!Idle, SE!Unique, SE!Held, SE!Put, SE!Of
  <2> QED BY <1>2, <2>1, <2>2, <2>3, MaxStartedAssumption DEF SE!BeginUpsert, SE!Start,
             SE!settings, SE!TypeOK, SE!HandlersTypeOK, SEInv
<1>3. ASSUME NEW r \in Requests, NEW i \in Rows, NEW w \in Values \cup {None}, SE!BeginUpdate(r, i, w)
      PROVE  SE!TypeOK'
  <2> HIDE DEF SE!TypeOK, SE!HandlersTypeOK, SE!Kinds, SE!SettingRow, SE!Running,
               SE!settings, SE!Present, SE!At, SE!Start, SE!Once, SE!Goto, SE!Finish, SE!Absent,
               SE!Gone, SE!Idle, SE!Unique, SE!Held, SE!Put, SE!Of
  <2>1. setting[i] \in SE!SettingRow
        BY <1>3, SERows DEF SE!BeginUpdate, SEInv
  <2>2. setting[i].kind \in SE!Kinds /\ SE!Held(i, w) \in Values
        BY <2>1, SERows DEF SE!Held
  <2>3. [pc |-> "update", on |-> setting[i].kind, id |-> i, value |-> SE!Held(i, w), wants |-> w] \in SE!Running
        BY <2>2 DEF SE!Running
  <2> QED BY <1>3, <2>2, <2>3, MaxStartedAssumption DEF SE!BeginUpdate, SE!Start, SE!settings,
             SE!TypeOK, SE!HandlersTypeOK, SEInv
<1>4. ASSUME NEW r \in Requests, NEW i \in Rows, NEW v \in Values, SE!SetFlag(r, i, v)
      PROVE  SE!TypeOK'
  <2> HIDE DEF SE!TypeOK, SE!HandlersTypeOK, SE!Kinds, SE!SettingRow, SE!Running,
               SE!settings, SE!Present, SE!At, SE!Start, SE!Once, SE!Goto, SE!Finish, SE!Absent,
               SE!Gone, SE!Idle, SE!Unique, SE!Held, SE!Put, SE!Of
  <2>1. SEPut(i, "flag", v)
        BY <1>4, SEPuts DEF SEInv, SE!SetFlag, SE!Kinds
  <2> QED BY <1>4, <2>1, MaxStartedAssumption DEF SE!SetFlag, SE!Once, SEPut, SE!TypeOK,
             SE!HandlersTypeOK, SEInv, SE!Kinds
<1>5. ASSUME NEW r \in Requests, NEW i \in Rows, NEW v \in Values, SE!SetGlobal(r, i, v)
      PROVE  SE!TypeOK'
  <2> HIDE DEF SE!TypeOK, SE!HandlersTypeOK, SE!Kinds, SE!SettingRow, SE!Running,
               SE!settings, SE!Present, SE!At, SE!Start, SE!Once, SE!Goto, SE!Finish, SE!Absent,
               SE!Gone, SE!Idle, SE!Unique, SE!Held, SE!Put, SE!Of
  <2>1. SEPut(i, "global", v)
        BY <1>5, SEPuts DEF SEInv, SE!SetGlobal, SE!Kinds
  <2>2. globals' \in 0..SE!Cardinality(Rows)
        BY <1>5, <2>1, SEOneMore DEF SE!SetGlobal
  <2> QED BY <1>5, <2>1, <2>2, MaxStartedAssumption DEF SE!SetGlobal, SE!Once, SEPut, SE!TypeOK,
             SE!HandlersTypeOK, SEInv, SE!Kinds
<1>6. ASSUME NEW r \in Requests, NEW i \in Rows, SE!BeginDelete(r, i)
      PROVE  SE!TypeOK'
  <2> HIDE DEF SE!TypeOK, SE!HandlersTypeOK, SE!Kinds, SE!SettingRow, SE!Running,
               SE!settings, SE!Present, SE!At, SE!Start, SE!Once, SE!Goto, SE!Finish, SE!Absent,
               SE!Gone, SE!Idle, SE!Unique, SE!Held, SE!Put, SE!Of
  <2>1. setting[i] \in SE!SettingRow
        BY <1>6, SERows DEF SE!BeginDelete, SEInv
  <2>2. setting[i].kind \in SE!Kinds
        BY <2>1, SERows
  <2>3. [pc |-> "delete", on |-> setting[i].kind, id |-> i] \in SE!Running
        BY <2>2 DEF SE!Running
  <2> QED BY <1>6, <2>2, <2>3, MaxStartedAssumption DEF SE!BeginDelete, SE!Start, SE!settings,
             SE!TypeOK, SE!HandlersTypeOK, SEInv
<1>7. ASSUME NEW r \in Requests, NEW i \in Rows, SE!Insert(r, i)
      PROVE  SE!TypeOK'
  <2> HIDE DEF SE!TypeOK, SE!HandlersTypeOK, SE!Kinds, SE!SettingRow, SE!Running,
               SE!settings, SE!Present, SE!At, SE!Start, SE!Once, SE!Goto, SE!Finish, SE!Absent,
               SE!Gone, SE!Idle, SE!Unique, SE!Held, SE!Put, SE!Of
  <2>1. SEInserted(r, i)
        BY <1>7, SEInsert
  <2> QED BY <1>7, <2>1 DEF SE!Insert, SE!Goto, SE!Finish, SEInserted, SEPut, SE!TypeOK,
             SE!HandlersTypeOK, SEInv
<1>8. ASSUME NEW r \in Requests, SE!Update(r)
      PROVE  SE!TypeOK'
  <2> HIDE DEF SE!TypeOK, SE!HandlersTypeOK, SE!Kinds, SE!SettingRow, SE!Running,
               SE!settings, SE!Present, SE!At, SE!Start, SE!Once, SE!Goto, SE!Finish, SE!Absent,
               SE!Gone, SE!Idle, SE!Unique, SE!Held, SE!Put, SE!Of
  <2>1. SEUpdated(r)
        BY <1>8, SEUpdate
  <2> QED BY <1>8, <2>1 DEF SE!Update, SE!Goto, SE!Finish, SEUpdated, SE!TypeOK,
             SE!HandlersTypeOK, SEInv
<1>9. ASSUME NEW r \in Requests, SE!Delete(r)
      PROVE  SE!TypeOK'
      BY <1>9 DEF SE!Delete
<1>10. ASSUME NEW r \in Requests, SE!Abort(r)
      PROVE  SE!TypeOK'
      BY <1>10 DEF SE!Abort, SE!Stop
<1>11. CASE UNCHANGED SE!vars
      BY <1>11 DEF SE!vars
<1> HIDE DEF SE!TypeOK, SE!HandlersTypeOK, SE!Kinds, SE!SettingRow, SE!Running,
             SE!settings, SE!Present, SE!At, SE!Start, SE!Once, SE!Goto, SE!Finish, SE!Absent,
             SE!Gone, SE!Idle, SE!Unique, SE!Held, SE!Put, SE!Of,
             SEInv
<1> QED BY <1>1, <1>2, <1>3, <1>4, <1>5, <1>6, <1>7, <1>8, <1>9, <1>10, <1>11 DEF SE!Next

\* Every step keeps one row each and what it says.
LEMMA SERestStep ==
    ASSUME SEInv, [SE!Next]_SE!vars
    PROVE  SEAlone' /\ SEFound' /\ SEOne' /\ SE!SaysWhatWasAsked' /\ SE!GlobalFlagsPile'
<1> USE DEF SE!TypeOK, SE!HandlersTypeOK, SE!Kinds, SE!SettingRow, SE!Running,
            SE!settings, SE!Present, SE!At, SE!Start, SE!Once, SE!Goto, SE!Finish, SE!Absent,
            SE!Gone, SE!Idle, SE!Unique, SE!Held, SE!Put, SE!Of,
            SEInv, SEAlone, SEFound, SEOne, SE!SaysWhatWasAsked, SE!GlobalFlagsPile, SE!Handled
<1>1. ASSUME NEW r \in Requests, NEW v \in Values, NEW k \in SE!Kinds, SE!BeginCreate(r, k, v)
      PROVE  SEAlone' /\ SEFound' /\ SEOne' /\ SE!SaysWhatWasAsked' /\ SE!GlobalFlagsPile'
  <2>1. SEAlone'
        BY <1>1 DEF SE!BeginCreate
  <2>2. SEFound'
        BY <1>1 DEF SE!BeginCreate
  <2>3. SEOne' /\ SE!SaysWhatWasAsked'
        BY <1>1 DEF SE!BeginCreate
  <2>4. SE!GlobalFlagsPile'
    <3>1. SE!Of("global")' = SE!Of("global") /\ globals' = globals
          BY <1>1 DEF SE!BeginCreate
    <3> HIDE DEF SE!Of
    <3> QED BY <3>1
  <2> QED BY <2>1, <2>2, <2>3, <2>4
<1>2. ASSUME NEW r \in Requests, NEW v \in Values, SE!BeginUpsert(r, v)
      PROVE  SEAlone' /\ SEFound' /\ SEOne' /\ SE!SaysWhatWasAsked' /\ SE!GlobalFlagsPile'
  <2> HIDE DEF SE!TypeOK, SE!HandlersTypeOK, SE!Kinds, SE!SettingRow, SE!Running,
               SE!settings, SE!Present, SE!At, SE!Start, SE!Once, SE!Goto, SE!Finish, SE!Absent,
               SE!Gone, SE!Idle, SE!Unique, SE!Held, SE!Put, SE!Of,
               SEAlone, SEFound, SEOne, SE!SaysWhatWasAsked, SE!GlobalFlagsPile, SE!Handled
  <2>1. /\ UNCHANGED <<setting, asked, globals>> /\ request[r] = SE!Idle
        /\ raced \subseteq raced'
        /\ (\E q \in Requests : request[q] # SE!Idle /\ request[q].on = "preference") => "preference" \in raced'
    <3>1. CASE SE!Of("preference") = {}
          BY <1>2, <3>1 DEF SE!BeginUpsert, SE!Start, SE!settings, SE!Handled
    <3>2. CASE SE!Of("preference") # {}
          BY <1>2, <3>2 DEF SE!BeginUpsert, SE!Start, SE!settings, SE!Handled
    <3> QED BY <3>1, <3>2
  <2>2. \/ SE!Of("preference") = {} /\ SEGoes(r, [pc |-> "insert", on |-> "preference", value |-> v])
        \/ \E i \in SE!Of("preference") :
              SEGoes(r, [pc |-> "update", on |-> "preference", id |-> i, value |-> v, wants |-> v])
        BY <1>2 DEF SE!BeginUpsert, SE!Start, SEGoes, SEInv, SE!TypeOK, SE!HandlersTypeOK
  <2>3. SEOne' /\ SE!SaysWhatWasAsked' /\ SE!GlobalFlagsPile'
    <3>1. (\A k \in SE!Kinds : SE!Of(k)' = SE!Of(k)) /\ SE!Of("global")' = SE!Of("global")
          BY <2>1 DEF SE!Of, SE!Present
    <3>2. SEOne'
          BY <2>1, <3>1 DEF SEInv, SEOne
    <3>3. SE!SaysWhatWasAsked'
          BY <2>1 DEF SEInv, SE!SaysWhatWasAsked, SE!Present
    <3>4. SE!GlobalFlagsPile'
          BY <2>1, <3>1 DEF SEInv, SE!GlobalFlagsPile
    <3> QED BY <3>2, <3>3, <3>4
  <2>4. SEAlone'
    <3>1. request'[r].on = "preference" /\ \A q \in Requests \ {r} : request'[q] = request[q]
      <4>1. CASE SE!Of("preference") = {} /\ SEGoes(r, [pc |-> "insert", on |-> "preference", value |-> v])
            BY <4>1 DEF SEGoes
      <4>2. ASSUME NEW i \in SE!Of("preference"),
                   SEGoes(r, [pc |-> "update", on |-> "preference", id |-> i, value |-> v, wants |-> v])
            PROVE  request'[r].on = "preference" /\ \A q \in Requests \ {r} : request'[q] = request[q]
            BY <4>2 DEF SEGoes
      <4> QED BY <2>2, <4>1, <4>2
    <3> QED BY <2>1, <3>1 DEF SEInv, SEAlone, SE!Idle
  <2>5. SEFound'
    <3>1. CASE SE!Of("preference") = {} /\ SEGoes(r, [pc |-> "insert", on |-> "preference", value |-> v])
          BY <2>1, <3>1 DEF SEInv, SEFound, SEGoes, SE!Idle, SE!Of, SE!Present
    <3>2. ASSUME NEW i \in SE!Of("preference"),
                 SEGoes(r, [pc |-> "update", on |-> "preference", id |-> i, value |-> v, wants |-> v])
          PROVE  SEFound'
          BY <2>1, <3>2, NoneAssumption, SERows DEF SEInv, SEFound, SEGoes, SE!Idle, SE!Of,
             SE!Present
    <3> QED BY <2>2, <3>1, <3>2
  <2> QED BY <2>3, <2>4, <2>5
<1>3. ASSUME NEW r \in Requests, NEW i \in Rows, NEW w \in Values \cup {None}, SE!BeginUpdate(r, i, w)
      PROVE  SEAlone' /\ SEFound' /\ SEOne' /\ SE!SaysWhatWasAsked' /\ SE!GlobalFlagsPile'
  <2>1. SEAlone'
        BY <1>3 DEF SE!BeginUpdate
  <2>2. SEFound'
        BY <1>3 DEF SE!BeginUpdate
  <2>3. SEOne' /\ SE!SaysWhatWasAsked'
        BY <1>3 DEF SE!BeginUpdate
  <2>4. SE!GlobalFlagsPile'
    <3>1. SE!Of("global")' = SE!Of("global") /\ globals' = globals
          BY <1>3 DEF SE!BeginUpdate
    <3> HIDE DEF SE!Of
    <3> QED BY <3>1
  <2> QED BY <2>1, <2>2, <2>3, <2>4
<1>4. ASSUME NEW r \in Requests, NEW i \in Rows, NEW v \in Values, SE!SetFlag(r, i, v)
      PROVE  SEAlone' /\ SEFound' /\ SEOne' /\ SE!SaysWhatWasAsked' /\ SE!GlobalFlagsPile'
  <2> HIDE DEF SE!TypeOK, SE!HandlersTypeOK, SE!Kinds, SE!SettingRow, SE!Running,
               SE!settings, SE!Present, SE!At, SE!Start, SE!Once, SE!Goto, SE!Finish, SE!Absent,
               SE!Gone, SE!Idle, SE!Unique, SE!Held, SE!Put, SE!Of,
               SEAlone, SEFound, SEOne, SE!SaysWhatWasAsked, SE!GlobalFlagsPile, SE!Handled
  <2>1. SEPut(i, "flag", v)
        BY <1>4, SEPuts DEF SEInv, SE!SetFlag, SE!Kinds
  <2>3. /\ UNCHANGED <<request, globals>> /\ ((setting[i] = SE!Absent /\ SE!Of("flag") = {}) \/ i \in SE!Of("flag"))
        /\ raced \subseteq raced'
        /\ (\E q \in Requests : request[q] # SE!Idle /\ request[q].on = "flag") => "flag" \in raced'
        BY <1>4 DEF SE!SetFlag, SE!Once, SE!Handled
  <2>10. globals' = globals
        BY <1>4 DEF SE!SetFlag
  <2>4. SEAlone'
        BY <2>3 DEF SEInv, SEAlone
  <2>5. SEFound'
        BY <2>1, <2>3, SEOn, SERows DEF SEPut, SEInv, SEFound, SE!Of, SE!Idle, SE!Unique
  <2>6. SEOne'
        BY <2>1, <2>3, SERows DEF SEPut, SEInv, SEOne, SE!Of
  <2>7. SE!SaysWhatWasAsked'
        BY <2>1, <2>3 DEF SEPut, SEInv, SE!SaysWhatWasAsked
  <2>8. SE!Of("global")' = SE!Of("global")
        BY <2>1, <2>3, SERows DEF SEPut, SE!Of
  <2>9. SE!GlobalFlagsPile'
        BY <2>3, <2>8 DEF SEInv, SE!GlobalFlagsPile
  <2> QED BY <2>4, <2>5, <2>6, <2>7, <2>9
<1>5. ASSUME NEW r \in Requests, NEW i \in Rows, NEW v \in Values, SE!SetGlobal(r, i, v)
      PROVE  SEAlone' /\ SEFound' /\ SEOne' /\ SE!SaysWhatWasAsked' /\ SE!GlobalFlagsPile'
  <2> HIDE DEF SE!TypeOK, SE!HandlersTypeOK, SE!Kinds, SE!SettingRow, SE!Running,
               SE!settings, SE!Present, SE!At, SE!Start, SE!Once, SE!Goto, SE!Finish, SE!Absent,
               SE!Gone, SE!Idle, SE!Unique, SE!Held, SE!Put, SE!Of,
               SEAlone, SEFound, SEOne, SE!SaysWhatWasAsked, SE!GlobalFlagsPile, SE!Handled
  <2>1. SEPut(i, "global", v)
        BY <1>5, SEPuts DEF SEInv, SE!SetGlobal, SE!Kinds
  <2>2. SE!GlobalFlagsPile'
        BY <1>5, <2>1, SEOneMore DEF SE!SetGlobal
  <2>3. UNCHANGED request /\ setting[i] = SE!Absent /\ raced \subseteq raced' /\ raced' \subseteq raced \cup {"global"}
        BY <1>5 DEF SE!SetGlobal, SE!Once
  <2>4. SEAlone'
        BY <2>3 DEF SEInv, SEAlone
  <2>5. SEFound'
        BY <2>1, <2>3, SEOn, SERows DEF SEPut, SEInv, SEFound, SE!Of, SE!Idle, SE!Unique
  <2>6. SEOne'
        BY <2>1, <2>3, SERows DEF SEPut, SEInv, SEOne, SE!Of
  <2>7. SE!SaysWhatWasAsked'
        BY <2>1, <2>3 DEF SEPut, SEInv, SE!SaysWhatWasAsked
  <2> QED BY <2>2, <2>4, <2>5, <2>6, <2>7
<1>6. ASSUME NEW r \in Requests, NEW i \in Rows, SE!BeginDelete(r, i)
      PROVE  SEAlone' /\ SEFound' /\ SEOne' /\ SE!SaysWhatWasAsked' /\ SE!GlobalFlagsPile'
  <2>1. SEAlone'
        BY <1>6 DEF SE!BeginDelete
  <2>2. SEFound'
        BY <1>6 DEF SE!BeginDelete
  <2>3. SEOne' /\ SE!SaysWhatWasAsked'
        BY <1>6 DEF SE!BeginDelete
  <2>4. SE!GlobalFlagsPile'
    <3>1. SE!Of("global")' = SE!Of("global") /\ globals' = globals
          BY <1>6 DEF SE!BeginDelete
    <3> HIDE DEF SE!Of
    <3> QED BY <3>1
  <2> QED BY <2>1, <2>2, <2>3, <2>4
<1>7. ASSUME NEW r \in Requests, NEW i \in Rows, SE!Insert(r, i)
      PROVE  SEAlone' /\ SEFound' /\ SEOne' /\ SE!SaysWhatWasAsked' /\ SE!GlobalFlagsPile'
  <2> HIDE DEF SE!TypeOK, SE!HandlersTypeOK, SE!Kinds, SE!SettingRow, SE!Running,
               SE!settings, SE!Present, SE!At, SE!Start, SE!Once, SE!Goto, SE!Finish, SE!Absent,
               SE!Gone, SE!Idle, SE!Unique, SE!Held, SE!Put, SE!Of,
               SEAlone, SEFound, SEOne, SE!SaysWhatWasAsked, SE!GlobalFlagsPile, SE!Handled
  <2>1. SEInserted(r, i)
        BY <1>7, SEInsert
  <2>2. SEAlone'
        BY <2>1, SEOn DEF SEInserted, SEGoes, SEInv, SEAlone, SE!Idle, SE!At, SEPut
  <2>3. SEFound'
        BY <2>1, SEOn, SERows DEF SEInserted, SEGoes, SEInv, SEAlone, SEFound,
           SE!SaysWhatWasAsked, SE!Idle, SE!At, SE!Of, SE!Unique, SEPut
  <2>4. SEOne'
        BY <2>1, SEOn, SERows DEF SEInserted, SEInv, SEFound, SEOne, SE!At, SE!Of, SE!Unique,
           SE!Kinds, SEPut
  <2>5. SE!SaysWhatWasAsked'
        BY <2>1, SEOn, SERows DEF SEInserted, SEInv, SEFound, SE!SaysWhatWasAsked, SE!At, SEPut
  <2>6. SE!GlobalFlagsPile'
    <3>1. SE!Of("global")' = SE!Of("global") /\ globals' = globals
          BY <2>1, SEOn, SERows DEF SEInserted, SEInv, SEFound, SE!Of, SE!At, SE!Idle, SEPut
    <3> QED BY <3>1 DEF SEInv, SE!GlobalFlagsPile
  <2> QED BY <2>2, <2>3, <2>4, <2>5, <2>6
<1>8. ASSUME NEW r \in Requests, SE!Update(r)
      PROVE  SEAlone' /\ SEFound' /\ SEOne' /\ SE!SaysWhatWasAsked' /\ SE!GlobalFlagsPile'
  <2> HIDE DEF SE!TypeOK, SE!HandlersTypeOK, SE!Kinds, SE!SettingRow, SE!Running,
               SE!settings, SE!Present, SE!At, SE!Start, SE!Once, SE!Goto, SE!Finish, SE!Absent,
               SE!Gone, SE!Idle, SE!Unique, SE!Held, SE!Put, SE!Of,
               SEAlone, SEFound, SEOne, SE!SaysWhatWasAsked, SE!GlobalFlagsPile, SE!Handled
  <2>1. SEUpdated(r)
        BY <1>8, SEUpdate
  <2>2. SEAlone'
        BY <2>1, SEOn DEF SEUpdated, SEGoes, SEInv, SEAlone, SE!Idle, SE!At
  <2>3. SEFound'
        BY <2>1, SEOn, SERows DEF SEUpdated, SEGoes, SEInv, SEAlone, SEFound,
           SE!SaysWhatWasAsked, SE!Idle, SE!At, SE!Of, SE!Unique
  <2>4. SEOne'
        BY <2>1, SEOn, SERows DEF SEUpdated, SEInv, SEFound, SEOne, SE!At, SE!Of, SE!Unique,
           SE!Kinds
  <2>5. SE!SaysWhatWasAsked'
        BY <2>1, SEOn, SERows DEF SEUpdated, SEInv, SEFound, SE!SaysWhatWasAsked, SE!At
  <2>6. SE!GlobalFlagsPile'
    <3>1. SE!Of("global")' = SE!Of("global") /\ globals' = globals
          BY <2>1, SEOn, SERows DEF SEUpdated, SEInv, SEFound, SE!Of, SE!At, SE!Idle
    <3> QED BY <3>1 DEF SEInv, SE!GlobalFlagsPile
  <2> QED BY <2>2, <2>3, <2>4, <2>5, <2>6
<1>9. ASSUME NEW r \in Requests, SE!Delete(r)
      PROVE  SEAlone' /\ SEFound' /\ SEOne' /\ SE!SaysWhatWasAsked' /\ SE!GlobalFlagsPile'
  <2> HIDE DEF SE!TypeOK, SE!HandlersTypeOK, SE!Kinds, SE!SettingRow, SE!Running,
               SE!settings, SE!Present, SE!At, SE!Start, SE!Once, SE!Goto, SE!Finish, SE!Absent,
               SE!Gone, SE!Idle, SE!Unique, SE!Held, SE!Put, SE!Of,
               SEAlone, SEFound, SEOne, SE!SaysWhatWasAsked, SE!GlobalFlagsPile, SE!Handled
  <2>1. SEDeleted(r)
        BY <1>9, SEDelete
  <2>2. SEAlone'
        BY <2>1, SEOn DEF SEDeleted, SEGoes, SEInv, SEAlone, SE!Idle, SE!At
  <2>3. SEFound'
        BY <2>1, SEOn, SERows DEF SEDeleted, SEGoes, SEInv, SEAlone, SEFound,
           SE!SaysWhatWasAsked, SE!Idle, SE!At, SE!Of, SE!Unique
  <2>4. SEOne'
        BY <2>1, SEOn, SERows DEF SEDeleted, SEInv, SEFound, SEOne, SE!At, SE!Of, SE!Unique,
           SE!Kinds
  <2>5. SE!SaysWhatWasAsked'
        BY <2>1, SEOn, SERows DEF SEDeleted, SEInv, SEFound, SE!SaysWhatWasAsked, SE!At
  <2>6. SE!GlobalFlagsPile'
    <3>1. SE!Of("global")' = SE!Of("global") /\ globals' = globals
          BY <2>1, SEOn, SERows DEF SEDeleted, SEInv, SEFound, SE!Of, SE!At, SE!Idle
    <3> QED BY <3>1 DEF SEInv, SE!GlobalFlagsPile
  <2> QED BY <2>2, <2>3, <2>4, <2>5, <2>6
<1>10. ASSUME NEW r \in Requests, SE!Abort(r)
      PROVE  SEAlone' /\ SEFound' /\ SEOne' /\ SE!SaysWhatWasAsked' /\ SE!GlobalFlagsPile'
  <2>1. SEAlone'
        BY <1>10 DEF SE!Abort, SE!Stop
  <2>2. SEFound'
        BY <1>10 DEF SE!Abort, SE!Stop
  <2>3. SEOne' /\ SE!SaysWhatWasAsked'
        BY <1>10 DEF SE!Abort, SE!Stop
  <2>4. SE!GlobalFlagsPile'
    <3>1. SE!Of("global")' = SE!Of("global") /\ globals' = globals
          BY <1>10 DEF SE!Abort, SE!Stop
    <3> HIDE DEF SE!Of
    <3> QED BY <3>1
  <2> QED BY <2>1, <2>2, <2>3, <2>4
<1>11. CASE UNCHANGED SE!vars
      BY <1>11 DEF SE!vars
<1> HIDE DEF SE!TypeOK, SE!HandlersTypeOK, SE!Kinds, SE!SettingRow, SE!Running,
             SE!settings, SE!Present, SE!At, SE!Start, SE!Once, SE!Goto, SE!Finish, SE!Absent,
             SE!Gone, SE!Idle, SE!Unique, SE!Held, SE!Put, SE!Of,
             SEInv, SEAlone, SEFound, SEOne, SE!SaysWhatWasAsked, SE!GlobalFlagsPile, SE!Handled
<1> QED BY <1>1, <1>2, <1>3, <1>4, <1>5, <1>6, <1>7, <1>8, <1>9, <1>10, <1>11 DEF SE!Next

\* There is one row of a kind.
LEMMA SEOnce == SEInv => SE!OneRowEach
<1> SUFFICES ASSUME SEInv, NEW kind \in SE!Kinds \ {"global"}, kind \in SE!Unique \/ kind \notin raced
             PROVE  SE!Cardinality(SE!Of(kind)) <= 1
    BY DEF SE!OneRowEach
<1>1. CASE SE!Of(kind) = {}
      BY <1>1, SECardinality, FS_EmptySet
<1>2. ASSUME NEW i \in SE!Of(kind) PROVE SE!Cardinality(SE!Of(kind)) <= 1
  <2>1. SE!Of(kind) = {i}
        BY DEF SEInv, SEOne
  <2> QED BY <2>1, SECardinality, FS_Singleton
<1> QED BY <1>1, <1>2

\* Every step keeps the invariant.
LEMMA SEInvStep == ASSUME SEInv, [SE!Next]_SE!vars PROVE SEInv'
BY SETypeStep, SERestStep DEF SEInv

(***************************************************************************)
(* Contacts.                                                               *)
(***************************************************************************)

\* As long as no two requests handled the client at once there is one handler.
CNAlone ==
    Client \notin raced =>
        \A q, r \in Requests : request[q] # CN!Idle /\ request[r] # CN!Idle => q = r

\* A contact about to be inserted is not there, and one about to be updated is.
CNKnown ==
    Client \notin raced =>
        \A r \in Requests :
            /\ CN!At(r, "insert") => ~CN!Present(contact[request[r].id])
            /\ CN!At(r, "update") => CN!Present(contact[request[r].id])
            /\ CN!At(r, "clearPrimary") => (CN!Present(contact[request[r].id]) <=> request[r].then = "update")

CNMarked(i) == CN!Present(contact[i]) /\ contact[i].primary

\* The mark was taken from the others and is about to be given.
CNUnmarked(r) == request[r].pc \in {"insert", "update"} /\ request[r].mark = "yes"

CNMarks ==
    Client \notin raced /\ ~halfway =>
        IF \E r \in Requests : CNUnmarked(r) THEN \A i \in Rows : ~CNMarked(i)
        ELSE \A i \in Rows : CNMarked(i) <=> i = chosen

CNInv == CN!TypeOK /\ CNAlone /\ CNKnown /\ CNMarks

CNGoes(r, h) == request'[r] = h /\ \A q \in Requests \ {r} : request'[q] = request[q]

\* There are no contacts at first.
LEMMA CNStart == CN!Init => CNInv
<1> SUFFICES ASSUME CN!Init PROVE CNInv
    OBVIOUS
<1>1. CN!TypeOK
  <2>1. /\ contact \in [Rows -> CN!ContactRow \cup {CN!Absent, CN!Gone}] /\ chosen \in Rows \cup {None}
        BY DEF CN!Init
  <2>2. halfway = FALSE
        BY DEF CN!Init
  <2>3. CN!HandlersTypeOK(CN!Running, {Client})
        BY MaxStartedAssumption DEF CN!Init, CN!HandlersInit, CN!HandlersTypeOK
  <2> QED BY <2>1, <2>2, <2>3 DEF CN!TypeOK
<1> QED BY <1>1, NoneAssumption DEF CN!Init, CN!HandlersInit, CNInv, CNAlone, CNKnown, CNMarks,
           CNUnmarked, CNMarked,
             CN!Present, CN!At, CN!Idle

\* A contact that is there is neither absent nor gone.
LEMMA CNRows == \A x \in CN!ContactRow : x \notin {CN!Absent, CN!Gone} /\ x.primary \in BOOLEAN
BY DEF CN!ContactRow, CN!Absent, CN!Gone

\* A handler is about the client and a contact.
LEMMA CNOn ==
    ASSUME CNInv, NEW r \in Requests, request[r] # CN!Idle
    PROVE  request[r].on = Client /\ request[r].id \in Rows /\ (request[r].mark \in CN!Marks)
<1>1. request[r] \in CN!Running
      BY DEF CNInv, CN!TypeOK, CN!HandlersTypeOK
<1> QED BY <1>1 DEF CN!Running, CN!Marks

\* What the four statements after the first do, in records.
CNCleared(r) ==
    /\ UNCHANGED <<chosen, halfway, raced>> /\ CN!At(r, "clearPrimary") /\ request[r].id \in Rows
    /\ CNGoes(r, [pc |-> request[r].then, on |-> Client, id |-> request[r].id, mark |-> "yes"])
    /\ request[r].then \in {"insert", "update"}
    /\ \A i \in Rows : /\ CN!Present(contact'[i]) <=> CN!Present(contact[i])
                       /\ CN!Present(contact'[i]) => ~contact'[i].primary

CNInserted(r) ==
    LET i == request[r].id IN
    /\ UNCHANGED <<halfway, raced>> /\ CN!At(r, "insert") /\ i \in Rows /\ CNGoes(r, CN!Idle)
    /\ \A k \in Rows \ {i} : contact'[k] = contact[k]
    /\ CN!Present(contact'[i]) /\ (contact'[i].primary <=> request[r].mark = "yes")
    /\ chosen' = IF request[r].mark = "yes" THEN i ELSE chosen

CNUpdated(r) ==
    LET i == request[r].id IN
    /\ UNCHANGED <<halfway, raced>> /\ CN!At(r, "update") /\ i \in Rows /\ CNGoes(r, CN!Idle)
    /\ \A k \in Rows \ {i} : contact'[k] = contact[k]
    /\ \/ ~CN!Present(contact[i]) /\ UNCHANGED <<contact, chosen>>
       \/ /\ CN!Present(contact[i]) /\ CN!Present(contact'[i]) /\ request[r].mark \in CN!Marks
          /\ contact'[i] \in CN!ContactRow
          /\ request[r].mark = "yes" => contact'[i].primary /\ chosen' = i
          /\ request[r].mark = "no" =>
                 ~contact'[i].primary /\ chosen' = IF chosen = i THEN None ELSE chosen
          /\ request[r].mark = "keep" =>
                 (contact'[i].primary <=> contact[i].primary) /\ chosen' = chosen

\* Clearing leaves no contact primary.
LEMMA CNClear == ASSUME CNInv, NEW r \in Requests, CN!ClearPrimary(r) PROVE CNCleared(r)
<1>1. request[r] \in [pc : {"clearPrimary"}, then : {"insert", "update"}, on : {Client}, id : Rows, mark : {"yes"}]
      BY DEF CN!ClearPrimary, CN!At, CNInv, CN!TypeOK, CN!HandlersTypeOK, CN!Running, CN!Idle
<1>2. \A i \in Rows : contact'[i] = IF CN!Present(contact[i]) THEN [primary |-> FALSE] ELSE contact[i]
      BY DEF CN!ClearPrimary
<1>3. [primary |-> FALSE] \in CN!ContactRow
      BY DEF CN!ContactRow
<1>4. CN!Present([primary |-> FALSE])
      BY <1>3, CNRows DEF CN!Present
<1>5. CNGoes(r, [pc |-> request[r].then, on |-> Client, id |-> request[r].id, mark |-> "yes"])
      BY <1>1 DEF CN!ClearPrimary, CN!Goto, CN!Write, CNGoes, CNInv, CN!TypeOK,
         CN!HandlersTypeOK
<1> QED BY <1>1, <1>2, <1>4, <1>5 DEF CN!ClearPrimary, CN!Goto, CNCleared

\* A new contact is primary if it was asked for.
LEMMA CNInsert == ASSUME CNInv, NEW r \in Requests, CN!Insert(r) PROVE CNInserted(r)
<1> DEFINE b == request[r].mark = "yes"
           row == [primary |-> b]
<1>1. request[r].id \in Rows
      BY CNOn DEF CN!Insert, CN!At, CN!Idle
<1>2. b \in BOOLEAN /\ (b <=> request[r].mark = "yes")
      OBVIOUS
<1>3. contact' = [contact EXCEPT ![request[r].id] = row]
      BY DEF CN!Insert
<1>4. chosen' = IF request[r].mark = "yes" THEN request[r].id ELSE chosen
      BY DEF CN!Insert
<1> HIDE DEF b
<1>5. row \in CN!ContactRow /\ row.primary = b
      BY <1>2 DEF CN!ContactRow
<1>6. CN!Present(row)
      BY <1>5, CNRows DEF CN!Present
<1> HIDE DEF row
<1> QED BY <1>1, <1>2, <1>3, <1>4, <1>5, <1>6 DEF CN!Insert, CN!Finish, CN!Goto, CN!At, CNGoes,
           CNInserted, CNInv, CN!TypeOK, CN!HandlersTypeOK

\* So is an updated one.
LEMMA CNUpdate == ASSUME CNInv, NEW r \in Requests, CN!Update(r) PROVE CNUpdated(r)
<1> DEFINE i == request[r].id
           m == request[r].mark
           b == m = "yes" \/ (m = "keep" /\ contact[i].primary)
           row == [contact[i] EXCEPT !.primary = b]
<1>1. i \in Rows /\ m \in CN!Marks /\ CN!At(r, "update")
      BY CNOn DEF CN!Update, CN!At, CN!Idle
<1>2. b \in BOOLEAN /\ (m = "yes" => b) /\ (m = "no" => ~b)
      OBVIOUS
<1>3. CASE ~CN!Present(contact[i])
      BY <1>1, <1>3 DEF CN!Update, CN!Finish, CN!Goto, CNGoes, CNUpdated, CNInv, CN!TypeOK,
         CN!HandlersTypeOK
<1>4. CASE CN!Present(contact[i])
  <2>1. contact[i] \in CN!ContactRow
        BY <1>1, <1>4 DEF CNInv, CN!TypeOK, CN!Present
  <2>2. contact' = [contact EXCEPT ![i] = row]
        BY <1>1, <1>4 DEF CN!Update
  <2>3. chosen' = CASE m = "yes" -> i [] m = "no" /\ chosen = i -> None [] OTHER -> chosen
        BY <1>4 DEF CN!Update
  <2>4. (m = "keep") => (b <=> contact[i].primary)
        OBVIOUS
  <2> HIDE DEF b
  <2>5. row \in CN!ContactRow /\ row.primary = b
        BY <1>2, <2>1 DEF CN!ContactRow
  <2>6. CN!Present(row)
        BY <2>5, CNRows DEF CN!Present
  <2> HIDE DEF row
  <2>7. contact'[i] = row /\ \A k \in Rows \ {i} : contact'[k] = contact[k]
        BY <1>1, <2>2 DEF CNInv, CN!TypeOK
  <2>8. UNCHANGED <<halfway, raced>> /\ CNGoes(r, CN!Idle)
        BY DEF CN!Update, CN!Finish, CN!Goto, CNGoes, CNInv, CN!TypeOK, CN!HandlersTypeOK
  <2> QED BY <1>1, <1>2, <1>4, <2>3, <2>4, <2>5, <2>6, <2>7, <2>8 DEF CNUpdated, CN!Marks
<1> QED BY <1>3, <1>4

\* Every step keeps the types.
LEMMA CNTypeStep ==
    ASSUME CNInv, [CN!Next]_CN!vars
    PROVE  CN!TypeOK'
<1> USE MaxStartedAssumption DEF CN!TypeOK, CN!HandlersTypeOK, CN!ContactRow, CN!Marks,
        CN!Running,
            CN!contacts, CN!Present, CN!At, CN!Start, CN!Once, CN!Goto, CN!Finish, CN!Absent,
            CN!Gone, CN!Idle,
            CNInv
<1>1. ASSUME NEW r \in Requests, NEW i \in Rows, NEW m \in {"yes", "no"}, CN!BeginCreate(r, i, m)
      PROVE  CN!TypeOK'
      BY <1>1 DEF CN!BeginCreate, CN!BeginWrite, CN!Write
<1>2. ASSUME NEW r \in Requests, NEW i \in Rows, NEW n \in CN!Marks, CN!BeginUpdate(r, i, n)
      PROVE  CN!TypeOK'
      BY <1>2 DEF CN!BeginUpdate, CN!BeginWrite, CN!Write
<1>3. ASSUME NEW r \in Requests, NEW i \in Rows, CN!BeginRemove(r, i)
      PROVE  CN!TypeOK'
      BY <1>3 DEF CN!BeginRemove, CN!Write
<1>4. ASSUME NEW r \in Requests, CN!ClearPrimary(r)
      PROVE  CN!TypeOK'
  <2> HIDE DEF CN!TypeOK, CN!HandlersTypeOK, CN!ContactRow, CN!Marks, CN!Running,
               CN!contacts, CN!Present, CN!At, CN!Start, CN!Once, CN!Goto, CN!Finish, CN!Absent,
               CN!Gone, CN!Idle
  <2>1. request[r] \in [pc : {"clearPrimary"}, then : {"insert", "update"}, on : {Client}, id : Rows, mark : {"yes"}]
        BY <1>4 DEF CN!ClearPrimary, CN!At, CNInv, CN!TypeOK, CN!HandlersTypeOK, CN!Running,
           CN!Idle
  <2>2. [pc |-> request[r].then, on |-> Client, id |-> request[r].id, mark |-> request[r].mark] \in CN!Running
        BY <2>1 DEF CN!Running, CN!Marks
  <2>3. contact' \in [Rows -> CN!ContactRow \cup {CN!Absent, CN!Gone}]
        BY <1>4 DEF CN!ClearPrimary, CN!ContactRow, CNInv, CN!TypeOK
  <2> QED BY <1>4, <2>2, <2>3 DEF CN!ClearPrimary, CN!Goto, CN!Write, CN!TypeOK,
             CN!HandlersTypeOK, CNInv
<1>5. ASSUME NEW r \in Requests, CN!Insert(r)
      PROVE  CN!TypeOK'
  <2> HIDE DEF CN!TypeOK, CN!HandlersTypeOK, CN!ContactRow, CN!Marks, CN!Running,
               CN!contacts, CN!Present, CN!At, CN!Start, CN!Once, CN!Goto, CN!Finish, CN!Absent,
               CN!Gone, CN!Idle
  <2> DEFINE b == request[r].mark = "yes"
  <2>1. request[r].id \in Rows
        BY <1>5, CNOn DEF CN!Insert, CN!At, CN!Idle
  <2>2. b \in BOOLEAN
        OBVIOUS
  <2>3. contact' = [contact EXCEPT ![request[r].id] = [primary |-> b]]
        BY <1>5 DEF CN!Insert
  <2> HIDE DEF b
  <2>4. contact' \in [Rows -> CN!ContactRow \cup {CN!Absent, CN!Gone}]
        BY <2>1, <2>2, <2>3 DEF CN!ContactRow, CNInv, CN!TypeOK
  <2> QED BY <1>5, <2>1, <2>4 DEF CN!Insert, CN!Goto, CN!Finish, CN!TypeOK, CN!HandlersTypeOK,
             CNInv
<1>6. ASSUME NEW r \in Requests, CN!Update(r)
      PROVE  CN!TypeOK'
  <2> HIDE DEF CN!TypeOK, CN!HandlersTypeOK, CN!ContactRow, CN!Marks, CN!Running,
               CN!contacts, CN!Present, CN!At, CN!Start, CN!Once, CN!Goto, CN!Finish, CN!Absent,
               CN!Gone, CN!Idle
  <2>1. CNUpdated(r)
        BY <1>6, CNUpdate
  <2>2. contact' \in [Rows -> CN!ContactRow \cup {CN!Absent, CN!Gone}] /\ chosen' \in Rows \cup {None}
    <3>1. contact' \in [Rows -> CN!ContactRow \cup {CN!Absent, CN!Gone}]
      <4>1. \A k \in Rows : contact'[k] \in CN!ContactRow \cup {CN!Absent, CN!Gone}
            BY <2>1 DEF CNUpdated, CNInv, CN!TypeOK
      <4>2. contact' = [k \in Rows |-> contact'[k]]
            BY <1>6 DEF CN!Update, CNInv, CN!TypeOK
      <4> QED BY <4>1, <4>2
    <3>2. chosen' \in Rows \cup {None}
          BY <2>1 DEF CNUpdated, CNInv, CN!TypeOK, CN!Marks
    <3> QED BY <3>1, <3>2
  <2> QED BY <1>6, <2>2 DEF CN!Update, CN!Goto, CN!Finish, CN!TypeOK, CN!HandlersTypeOK, CNInv
<1>7. ASSUME NEW r \in Requests, CN!Delete(r)
      PROVE  CN!TypeOK'
      BY <1>7 DEF CN!Delete
<1>8. ASSUME NEW r \in Requests, CN!Abort(r)
      PROVE  CN!TypeOK'
      BY <1>8 DEF CN!Abort, CN!Stop
<1>9. CASE UNCHANGED CN!vars
      BY <1>9 DEF CN!vars
<1> HIDE DEF CN!TypeOK, CN!HandlersTypeOK, CN!ContactRow, CN!Marks, CN!Running,
             CN!contacts, CN!Present, CN!At, CN!Start, CN!Once, CN!Goto, CN!Finish, CN!Absent,
             CN!Gone, CN!Idle,
             CNInv
<1> QED BY <1>1, <1>2, <1>3, <1>4, <1>5, <1>6, <1>7, <1>8, <1>9 DEF CN!Next

\* Every step keeps the mark.
LEMMA CNRestStep ==
    ASSUME CNInv, [CN!Next]_CN!vars
    PROVE  CNAlone' /\ CNKnown' /\ CNMarks'
<1> USE NoneAssumption, CNOn DEF CN!TypeOK, CN!HandlersTypeOK, CN!ContactRow, CN!Marks,
        CN!Running,
            CN!contacts, CN!Present, CN!At, CN!Start, CN!Once, CN!Goto, CN!Finish, CN!Absent,
            CN!Gone, CN!Idle,
            CNInv, CNAlone, CNKnown, CNMarks, CNMarked, CNUnmarked, CN!Handled
<1>1. ASSUME NEW r \in Requests, NEW i \in Rows, NEW m \in {"yes", "no"}, CN!BeginCreate(r, i, m)
      PROVE  CNAlone' /\ CNKnown' /\ CNMarks'
  <2>1. CNAlone'
        BY <1>1 DEF CN!BeginCreate, CN!BeginWrite, CN!Write
  <2>2. CNKnown'
        BY <1>1 DEF CN!BeginCreate, CN!BeginWrite, CN!Write
  <2>3. CNMarks'
        BY <1>1 DEF CN!BeginCreate, CN!BeginWrite, CN!Write
  <2> QED BY <2>1, <2>2, <2>3
<1>2. ASSUME NEW r \in Requests, NEW i \in Rows, NEW n \in CN!Marks, CN!BeginUpdate(r, i, n)
      PROVE  CNAlone' /\ CNKnown' /\ CNMarks'
  <2>1. CNAlone'
        BY <1>2 DEF CN!BeginUpdate, CN!BeginWrite, CN!Write
  <2>2. CNKnown'
        BY <1>2 DEF CN!BeginUpdate, CN!BeginWrite, CN!Write
  <2>3. CNMarks'
        BY <1>2 DEF CN!BeginUpdate, CN!BeginWrite, CN!Write
  <2> QED BY <2>1, <2>2, <2>3
<1>3. ASSUME NEW r \in Requests, NEW i \in Rows, CN!BeginRemove(r, i)
      PROVE  CNAlone' /\ CNKnown' /\ CNMarks'
  <2>1. CNAlone'
        BY <1>3 DEF CN!BeginRemove, CN!Write
  <2>2. CNKnown'
        BY <1>3 DEF CN!BeginRemove, CN!Write
  <2>3. CNMarks'
        BY <1>3 DEF CN!BeginRemove, CN!Write
  <2> QED BY <2>1, <2>2, <2>3
<1>4. ASSUME NEW r \in Requests, CN!ClearPrimary(r)
      PROVE  CNAlone' /\ CNKnown' /\ CNMarks'
  <2> HIDE DEF CN!TypeOK, CN!HandlersTypeOK, CN!ContactRow, CN!Marks, CN!Running,
               CN!contacts, CN!Present, CN!At, CN!Start, CN!Once, CN!Goto, CN!Finish, CN!Absent,
               CN!Gone, CN!Idle,
               CNAlone, CNKnown, CNMarks, CNMarked, CNUnmarked, CN!Handled
  <2>1. CNCleared(r)
        BY <1>4, CNClear
  <2>2. CNAlone'
        BY <2>1 DEF CNCleared, CNGoes, CNInv, CNAlone, CN!At, CN!Idle
  <2>3. CNKnown'
        BY <2>1 DEF CNCleared, CNGoes, CNInv, CNAlone, CNKnown, CN!At, CN!Idle
  <2>4. CNMarks'
        BY <2>1, NoneAssumption DEF CNCleared, CNGoes, CNInv, CNAlone, CNKnown, CNMarks,
           CNMarked, CNUnmarked, CN!At, CN!Idle
  <2> QED BY <2>2, <2>3, <2>4
<1>5. ASSUME NEW r \in Requests, CN!Insert(r)
      PROVE  CNAlone' /\ CNKnown' /\ CNMarks'
  <2> HIDE DEF CN!TypeOK, CN!HandlersTypeOK, CN!ContactRow, CN!Marks, CN!Running,
               CN!contacts, CN!Present, CN!At, CN!Start, CN!Once, CN!Goto, CN!Finish, CN!Absent,
               CN!Gone, CN!Idle,
               CNAlone, CNKnown, CNMarks, CNMarked, CNUnmarked, CN!Handled
  <2>1. CNInserted(r)
        BY <1>5, CNInsert
  <2>2. CNAlone'
        BY <2>1 DEF CNInserted, CNGoes, CNInv, CNAlone, CN!At, CN!Idle
  <2>3. CNKnown'
        BY <2>1 DEF CNInserted, CNGoes, CNInv, CNAlone, CNKnown, CN!At, CN!Idle
  <2>4. CNMarks'
        BY <2>1, NoneAssumption DEF CNInserted, CNGoes, CNInv, CNAlone, CNKnown, CNMarks,
           CNMarked, CNUnmarked, CN!At, CN!Idle
  <2> QED BY <2>2, <2>3, <2>4
<1>6. ASSUME NEW r \in Requests, CN!Update(r)
      PROVE  CNAlone' /\ CNKnown' /\ CNMarks'
  <2> HIDE DEF CN!TypeOK, CN!HandlersTypeOK, CN!ContactRow, CN!Marks, CN!Running,
               CN!contacts, CN!Present, CN!At, CN!Start, CN!Once, CN!Goto, CN!Finish, CN!Absent,
               CN!Gone, CN!Idle,
               CNAlone, CNKnown, CNMarks, CNMarked, CNUnmarked, CN!Handled
  <2>1. CNUpdated(r)
        BY <1>6, CNUpdate
  <2>2. CNAlone'
        BY <2>1 DEF CNUpdated, CNGoes, CNInv, CNAlone, CN!At, CN!Idle
  <2>3. CNKnown'
        BY <2>1 DEF CNUpdated, CNGoes, CNInv, CNAlone, CNKnown, CN!At, CN!Idle
  <2>4. CNMarks'
    <3> SUFFICES ASSUME Client \notin raced', ~halfway' PROVE CNMarks'
        BY DEF CNMarks
    <3> DEFINE i == request[r].id
               m == request[r].mark
    <3>1. Client \notin raced /\ ~halfway /\ CN!At(r, "update") /\ i \in Rows /\ request'[r] = CN!Idle /\ request[r] # CN!Idle
          BY <2>1 DEF CNUpdated, CNGoes, CN!At, CN!Idle
    <3>2. \A q \in Requests : q # r => request[q] = CN!Idle /\ request'[q] = CN!Idle
          BY <2>1, <3>1 DEF CNUpdated, CNGoes, CNInv, CNAlone
    <3>3. (\A q \in Requests : ~CNUnmarked(q)') /\ (\A q \in Requests : CNUnmarked(q) <=> q = r /\ m = "yes")
          BY <3>1, <3>2 DEF CNUnmarked, CN!At, CN!Idle
    <3>4. CN!Present(contact[i])
          BY <3>1 DEF CNInv, CNKnown
    <3>5. \A k \in Rows : CNMarked(k)' <=> k = chosen'
      <4>1. CASE m = "yes"
            BY <2>1, <3>1, <3>3, <3>4, <4>1 DEF CNUpdated, CNInv, CNMarks, CNMarked
      <4>2. CASE m = "no"
            BY <2>1, <3>1, <3>3, <3>4, <4>2, NoneAssumption DEF CNUpdated, CNInv, CNMarks,
               CNMarked
      <4>3. CASE m = "keep"
            BY <2>1, <3>1, <3>3, <3>4, <4>3 DEF CNUpdated, CNInv, CNMarks, CNMarked
      <4> QED BY <2>1, <3>4, <4>1, <4>2, <4>3 DEF CNUpdated, CN!Marks
    <3> QED BY <3>3, <3>5 DEF CNMarks
  <2> QED BY <2>2, <2>3, <2>4
<1>7. ASSUME NEW r \in Requests, CN!Delete(r)
      PROVE  CNAlone' /\ CNKnown' /\ CNMarks'
  <2>1. CNAlone'
        BY <1>7 DEF CN!Delete
  <2>2. CNKnown'
        BY <1>7 DEF CN!Delete
  <2>3. CNMarks'
        BY <1>7 DEF CN!Delete
  <2> QED BY <2>1, <2>2, <2>3
<1>8. ASSUME NEW r \in Requests, CN!Abort(r)
      PROVE  CNAlone' /\ CNKnown' /\ CNMarks'
  <2>1. CNAlone'
        BY <1>8 DEF CN!Abort, CN!Stop
  <2>2. CNKnown'
        BY <1>8 DEF CN!Abort, CN!Stop
  <2>3. CNMarks'
        BY <1>8 DEF CN!Abort, CN!Stop
  <2> QED BY <2>1, <2>2, <2>3
<1>9. CASE UNCHANGED CN!vars
      BY <1>9 DEF CN!vars
<1> HIDE DEF CN!TypeOK, CN!HandlersTypeOK, CN!ContactRow, CN!Marks, CN!Running,
             CN!contacts, CN!Present, CN!At, CN!Start, CN!Once, CN!Goto, CN!Finish, CN!Absent,
             CN!Gone, CN!Idle,
             CNInv, CNAlone, CNKnown, CNMarks, CNMarked, CNUnmarked, CN!Handled
<1> QED BY <1>1, <1>2, <1>3, <1>4, <1>5, <1>6, <1>7, <1>8, <1>9 DEF CN!Next

\* The marked contact is the one that was chosen.
LEMMA CNChosen == CNInv => CN!PrimaryIsChosen
<1> SUFFICES ASSUME CNInv, raced = {}, ~halfway, ~CN!Handled(Client)
             PROVE  {i \in Rows : CN!Present(contact[i]) /\ contact[i].primary} = {chosen} \ {None}
    BY DEF CN!PrimaryIsChosen
<1>1. \A r \in Requests : request[r] = CN!Idle
      BY CNOn DEF CN!Handled
<1>2. \A i \in Rows : CNMarked(i) <=> i = chosen
      BY <1>1 DEF CNInv, CNMarks, CNUnmarked, CN!Idle
<1>3. chosen \in Rows \/ chosen = None
      BY DEF CNInv, CN!TypeOK
<1> QED BY <1>2, <1>3, NoneAssumption DEF CNMarked

\* Every step keeps the invariant.
LEMMA CNInvStep == ASSUME CNInv, [CN!Next]_CN!vars PROVE CNInv'
BY CNTypeStep, CNRestStep DEF CNInv

(***************************************************************************)
(* The inductive invariant.                                                *)
(***************************************************************************)

\* The statuses an approval leads to; no transition leaves them.
CUApprovals == {"APPROVED", "PARTIALLY_USED", "FULLY_USED", "EXPIRED", "CANCELLED"}

CUChanging(r, l) == request[r] # CU!Idle /\ request[r].pc = "writeStatus" /\ request[r].l = l
CURegistering(r, l) == request[r] # CU!Idle /\ request[r].pc = "insertUsage" /\ request[r].l = l

\* Usages belong to letters that are there, and handlers to letters that were.
CURowsInv ==
    /\ \A u \in Rows : usage[u] \notin {CU!Absent, CU!Gone} => CU!Exists(usage[u].of)
    /\ \A r \in Requests : request[r] # CU!Idle => letter[request[r].l] # CU!Absent

\* A letter that no two status changes were decided on: the one that is under
\* way starts from the status the letter has, and what was approved for a usage
\* still is.
CUApprovedOf(l) ==
    (l \notin raced /\ CU!Exists(l)) =>
        /\ \A q, r \in Requests : CUChanging(q, l) /\ CUChanging(r, l) => q = r
        /\ \A r \in Requests : CUChanging(r, l) => request[r].new \in CU!Transitions[letter[l].status]
        /\ \A r \in Requests : CURegistering(r, l) => letter[l].status \in CUApprovals
        /\ CU!UsagesOf(l) # {} => letter[l].status \in CUApprovals

CUApprovedInv == \A l \in Parts : CUApprovedOf(l)

CUInv == CU!TypeOK /\ CURowsInv /\ CUApprovedInv

(***************************************************************************)
(* Lemmas.                                                                 *)
(***************************************************************************)

\* A transition leads to a status, and from an approval to what follows one.
LEMMA CUTransitionsLead ==
    /\ \A s \in CU!Statuses : CU!Transitions[s] \subseteq CU!Statuses
    /\ \A s \in CUApprovals : s \in CU!Statuses /\ CU!Transitions[s] \subseteq CUApprovals
BY DEF CU!Transitions, CU!Statuses, CUApprovals

\* recalculateUsage never finds its letter.
LEMMA CUNeverFound ==
    ASSUME CU!TypeOK, NEW l \in Parts
    PROVE  ~CU!Found(l, "")
BY OrgsAssumption DEF CU!TypeOK, CU!Found, CU!Exists, CU!LetterRow

\* A request in progress is a record with the fields of its step.
LEMMA CUFields ==
    ASSUME CU!TypeOK, NEW r \in Requests, request[r] # CU!Idle
    PROVE  request[r] \in CU!Running /\ request[r].l \in Parts
<1>1. request[r] \in CU!Running
      BY DEF CU!TypeOK
<1> QED BY <1>1 DEF CU!Running

\* What is left of recalculateUsage.
CUUnread(r) ==
    /\ request[r].pc = "recalculate"
    /\ CU!Goto(r, CU!Idle)
    /\ UNCHANGED <<letter, usage, started, raced>>

\* recalculateUsage changes nothing but its request.
LEMMA CURecalculateEffect ==
    ASSUME CU!TypeOK, NEW r \in Requests, CU!Recalculate(r)
    PROVE  CUUnread(r)
<1> DEFINE l == request[r].l
<1>1. request[r].pc = "recalculate"
      BY DEF CU!Recalculate
<1>2. request[r] # CU!Idle
      BY <1>1 DEF CU!Idle
<1>3. ~CU!Found(l, "")
      BY <1>2, CUFields, CUNeverFound
<1>4. CU!Goto(r, CU!Idle) /\ UNCHANGED <<usage, started, raced>>
      BY DEF CU!Recalculate
<1>5. letter' = letter
      BY <1>3, Zenon DEF CU!Recalculate
<1> QED BY <1>1, <1>4, <1>5 DEF CUUnread

\* A letter with a usage among its usages is the one the usage's row names.
LEMMA CUUsagesAre ==
    \A l : CU!UsagesOf(l) # {} <=> \E u \in Rows : usage[u] \notin {CU!Absent, CU!Gone} /\ usage[u].of = l
BY DEF CU!UsagesOf

\* Without letters the invariant holds.
LEMMA CUInitInv == CU!Init => CUInv
<1> SUFFICES ASSUME CU!Init PROVE CUInv
    OBVIOUS
<1>1. CU!TypeOK
      BY NumbersAssumption, StartedAssumption DEF CU!Init, CU!TypeOK
<1>2. CURowsInv /\ CUApprovedInv
      BY DEF CU!Init, CURowsInv, CUApprovedInv, CUApprovedOf, CU!Exists
<1> QED BY <1>1, <1>2 DEF CUInv

\* Every step of Next keeps the types.
LEMMA CUTypeStep ==
    ASSUME CU!TypeOK, [CU!Next]_CU!vars
    PROVE  CU!TypeOK'
<1>1. ASSUME NEW l \in Parts, NEW org \in Others, NEW n \in CU!Quantities, CU!CreateLetter(l, org, n)
      PROVE  CU!TypeOK'
  <2>1. [org |-> org, status |-> "DRAFT", authorized |-> n, used |-> 0, remaining |-> n] \in CU!LetterRow
        BY NumbersAssumption, StartedAssumption DEF CU!LetterRow, CU!Statuses, CU!Transitions,
           CU!Quantities
  <2> QED BY <1>1, <2>1 DEF CU!CreateLetter, CU!TypeOK
<1>2. ASSUME NEW l \in Parts, CU!DeleteLetter(l)
      PROVE  CU!TypeOK'
      BY <1>2 DEF CU!DeleteLetter, CU!TypeOK
<1>3. ASSUME NEW r \in Requests, NEW record \in CU!Running, CU!Begin(r, record), UNCHANGED <<letter, usage>>,
             raced' \subseteq Parts
      PROVE  CU!TypeOK'
      BY <1>3, NumbersAssumption, StartedAssumption DEF CU!Begin, CU!TypeOK
<1>4. ASSUME NEW r \in Requests, CU!Step(r)
      PROVE  CU!TypeOK'
  <2>1. ASSUME NEW l \in Parts, NEW new \in CU!Statuses, CU!BeginChangeStatus(r, l, new)
        PROVE  CU!TypeOK'
    <3>1. [pc |-> "writeStatus", l |-> l, new |-> new] \in CU!Running
          BY DEF CU!Running
    <3> QED BY <1>3, <2>1, <3>1 DEF CU!BeginChangeStatus, CU!TypeOK
  <2>2. ASSUME NEW l \in Parts, NEW n \in CU!Quantities, CU!BeginRegisterUsage(r, l, n)
        PROVE  CU!TypeOK'
    <3>1. [pc |-> "insertUsage", l |-> l, quantity |-> n] \in CU!Running
          BY DEF CU!Running
    <3> QED BY <1>3, <2>2, <3>1 DEF CU!BeginRegisterUsage, CU!TypeOK
  <2>3. ASSUME NEW l \in Parts, NEW u \in Rows, CU!BeginDeleteUsage(r, l, u)
        PROVE  CU!TypeOK'
    <3>1. [pc |-> "deleteUsage", l |-> l, u |-> u] \in CU!Running
          BY DEF CU!Running
    <3> QED BY <1>3, <2>3, <3>1 DEF CU!BeginDeleteUsage, CU!TypeOK
  <2>4. ASSUME NEW u \in Rows, CU!InsertUsage(r, u)
        PROVE  CU!TypeOK'
    <3>1. request[r] \in CU!Running /\ request[r].pc = "insertUsage"
          BY <2>4 DEF CU!InsertUsage, CU!TypeOK, CU!Idle
    <3>2. /\ [of |-> request[r].l, quantity |-> request[r].quantity] \in CU!UsageRow
          /\ [pc |-> "recalculate", l |-> request[r].l] \in CU!Running
          BY <3>1 DEF CU!Running, CU!UsageRow
    <3> QED BY <2>4, <3>2 DEF CU!InsertUsage, CU!Goto, CU!TypeOK
  <2>5. CASE CU!WriteStatus(r)
    <3>1. request[r] \in CU!Running /\ request[r].pc = "writeStatus"
          BY <2>5 DEF CU!WriteStatus, CU!TypeOK, CU!Idle
    <3>2. request[r].l \in Parts /\ request[r].new \in CU!Statuses
          BY <3>1 DEF CU!Running
    <3>3. CU!Exists(request[r].l) =>
             [letter[request[r].l] EXCEPT !.status = request[r].new] \in CU!LetterRow
          BY <3>2 DEF CU!TypeOK, CU!Exists, CU!LetterRow
    <3>4. letter' \in [Parts -> CU!LetterRow \cup {CU!Absent, CU!Gone}]
      <4>1. CASE CU!Exists(request[r].l)
        <5>1. letter' = [letter EXCEPT ![request[r].l] =
                           [letter[request[r].l] EXCEPT !.status = request[r].new]]
              BY <2>5, <4>1 DEF CU!WriteStatus
        <5> QED BY <3>2, <3>3, <4>1, <5>1 DEF CU!TypeOK
      <4>2. CASE ~CU!Exists(request[r].l)
            BY <2>5, <4>2 DEF CU!WriteStatus, CU!TypeOK
      <4> QED BY <4>1, <4>2
    <3> QED BY <2>5, <3>4 DEF CU!WriteStatus, CU!Goto, CU!TypeOK
  <2>6. CASE CU!DeleteUsage(r)
    <3>1. request[r] \in CU!Running /\ request[r].pc = "deleteUsage"
          BY <2>6 DEF CU!DeleteUsage, CU!TypeOK, CU!Idle
    <3>2. [pc |-> "recalculate", l |-> request[r].l] \in CU!Running
          BY <3>1 DEF CU!Running
    <3> QED BY <2>6, <3>2 DEF CU!DeleteUsage, CU!Goto, CU!TypeOK
  <2>7. CASE CU!Recalculate(r)
    <3>1. CUUnread(r)
          BY <2>7, CURecalculateEffect
    <3> QED BY <3>1 DEF CUUnread, CU!Goto, CU!TypeOK
  <2> QED BY <1>4, <2>1, <2>2, <2>3, <2>4, <2>5, <2>6, <2>7 DEF CU!Step
<1>5. ASSUME NEW r \in Requests, CU!Abort(r)
      PROVE  CU!TypeOK'
      BY <1>5 DEF CU!Abort, CU!Goto, CU!TypeOK
<1>6. CASE UNCHANGED CU!vars
      BY <1>6 DEF CU!vars, CU!TypeOK
<1> QED BY <1>1, <1>2, <1>4, <1>5, <1>6 DEF CU!Next

\* A letter whose status, usages and handlers a step leaves stays approved.
LEMMA CUFrame ==
    ASSUME NEW l \in Parts, CUApprovedOf(l), raced \subseteq raced',
           CU!Exists(l)' => CU!Exists(l) /\ letter'[l].status = letter[l].status,
           \A q \in Requests :
              /\ CUChanging(q, l)' => CUChanging(q, l) /\ request'[q] = request[q]
              /\ CURegistering(q, l)' => CURegistering(q, l),
           CU!UsagesOf(l)' # {} => CU!UsagesOf(l) # {}
    PROVE  CUApprovedOf(l)'
BY DEF CUApprovedOf

\* Creating and deleting letters.
LEMMA CULetterStep ==
    ASSUME CUInv, NEW l0 \in Parts, NEW org \in Others, NEW n \in CU!Quantities,
           CU!CreateLetter(l0, org, n) \/ CU!DeleteLetter(l0)
    PROVE  CURowsInv' /\ CUApprovedInv'
<1> USE DEF CUInv
<1>1. UNCHANGED <<usage, request, raced>> /\ \A l \in Parts \ {l0} : letter'[l] = letter[l]
      BY DEF CU!CreateLetter, CU!DeleteLetter, CU!TypeOK
<1>2. letter'[l0] # CU!Absent
      BY DEF CU!CreateLetter, CU!DeleteLetter, CU!TypeOK, CU!Absent, CU!Gone
<1>3. \A u \in Rows : usage[u] \notin {CU!Absent, CU!Gone} => usage[u].of \in Parts /\ usage[u].of # l0
      BY CUUsagesAre DEF CU!CreateLetter, CU!DeleteLetter, CURowsInv, CU!Exists, CU!TypeOK,
         CU!UsageRow
<1>4. CURowsInv'
  <2>1. \A u \in Rows : usage'[u] \notin {CU!Absent, CU!Gone} => CU!Exists(usage[u].of)'
        BY <1>1, <1>3 DEF CURowsInv, CU!Exists
  <2>2. \A r \in Requests : request'[r] # CU!Idle => letter'[request'[r].l] # CU!Absent
        BY <1>1, <1>2, CUFields DEF CURowsInv
  <2> QED BY <2>1, <2>2 DEF CURowsInv
<1>5. ASSUME NEW l \in Parts \ {l0}
      PROVE  CUApprovedOf(l)'
  <2>1. CU!UsagesOf(l)' = CU!UsagesOf(l) /\ (CU!Exists(l)' <=> CU!Exists(l))
        BY <1>1 DEF CU!UsagesOf, CU!Exists
  <2> QED BY <1>1, <2>1, CUFrame DEF CUApprovedInv, CUChanging, CURegistering
<1>6. CUApprovedOf(l0)'
  <2>1. CASE CU!DeleteLetter(l0)
        BY <2>1 DEF CU!DeleteLetter, CU!TypeOK, CUApprovedOf, CU!Exists
  <2>2. CASE CU!CreateLetter(l0, org, n)
    <3>1. \A q \in Requests : ~CUChanging(q, l0)' /\ ~CURegistering(q, l0)'
          BY <1>1, <2>2 DEF CU!CreateLetter, CUChanging, CURegistering, CURowsInv
    <3>2. CU!UsagesOf(l0)' = {}
          BY <1>1, <1>3 DEF CU!UsagesOf
    <3> QED BY <3>1, <3>2 DEF CUApprovedOf
  <2> QED BY <2>1, <2>2
<1> QED BY <1>4, <1>5, <1>6 DEF CUApprovedInv

\* Requests that begin.
LEMMA CUBeginStep ==
    ASSUME CUInv, NEW r \in Requests, NEW l0 \in Parts,
           \/ \E new \in CU!Statuses : CU!BeginChangeStatus(r, l0, new)
           \/ \E n \in CU!Quantities : CU!BeginRegisterUsage(r, l0, n)
           \/ \E u \in Rows : CU!BeginDeleteUsage(r, l0, u)
    PROVE  CURowsInv' /\ CUApprovedInv'
<1> USE DEF CUInv
<1>1. /\ request[r] = CU!Idle /\ request'[r].l = l0 /\ CU!Exists(l0)
      /\ \A q \in Requests \ {r} : request'[q] = request[q]
      /\ UNCHANGED <<letter, usage>> /\ raced \subseteq raced'
      /\ \A l \in Parts \ {l0} : l \in raced' => l \in raced
      BY DEF CU!BeginChangeStatus, CU!BeginRegisterUsage, CU!BeginDeleteUsage, CU!Begin,
         CU!TypeOK
<1>2. CURowsInv'
      BY <1>1 DEF CURowsInv, CU!Exists
<1>3. \A l \in Parts : CU!UsagesOf(l)' = CU!UsagesOf(l) /\ (CU!Exists(l)' <=> CU!Exists(l))
      BY <1>1 DEF CU!UsagesOf, CU!Exists
<1>4. ASSUME NEW l \in Parts \ {l0}
      PROVE  CUApprovedOf(l)'
  <2>1. \A q \in Requests : /\ CUChanging(q, l)' => CUChanging(q, l) /\ request'[q] = request[q]
                            /\ CURegistering(q, l)' => CURegistering(q, l)
        BY <1>1 DEF CUChanging, CURegistering
  <2> QED BY <1>1, <1>3, <2>1, CUFrame DEF CUApprovedInv
<1>5. CUApprovedOf(l0)'
  <2>1. CASE \E new \in CU!Statuses : CU!BeginChangeStatus(r, l0, new)
    <3>1. PICK new \in CU!Statuses : CU!BeginChangeStatus(r, l0, new)
          BY <2>1
    <3>2. /\ request'[r] = [pc |-> "writeStatus", l |-> l0, new |-> new]
          /\ new \in CU!Transitions[letter[l0].status]
          /\ l0 \notin raced' => \A q \in Requests : ~CUChanging(q, l0)
          BY <3>1 DEF CU!BeginChangeStatus, CU!Begin, CU!TypeOK, CUChanging
    <3>3. l0 \notin raced' => \A q \in Requests : /\ CUChanging(q, l0)' => q = r
                                                  /\ CURegistering(q, l0)' => CURegistering(q, l0)
          BY <1>1, <3>2 DEF CUChanging, CURegistering
    <3> SUFFICES ASSUME l0 \notin raced', CU!Exists(l0)'
                 PROVE  /\ \A p, q \in Requests : CUChanging(p, l0)' /\ CUChanging(q, l0)' => p = q
                        /\ \A q \in Requests : CUChanging(q, l0)' =>
                             request'[q].new \in CU!Transitions[letter'[l0].status]
                        /\ \A q \in Requests : CURegistering(q, l0)' => letter'[l0].status \in CUApprovals
                        /\ CU!UsagesOf(l0)' # {} => letter'[l0].status \in CUApprovals
        BY DEF CUApprovedOf
    <3>4. l0 \notin raced /\ letter' = letter
          BY <1>1
    <3>5. CUApprovedOf(l0) /\ CU!Exists(l0)
          BY <1>1 DEF CUApprovedInv
    <3>6. /\ \A q \in Requests : CURegistering(q, l0) => letter[l0].status \in CUApprovals
          /\ CU!UsagesOf(l0) # {} => letter[l0].status \in CUApprovals
          BY <3>4, <3>5 DEF CUApprovedOf
    <3>7. \A p, q \in Requests : CUChanging(p, l0)' /\ CUChanging(q, l0)' => p = q
          BY <3>3
    <3>8. \A q \in Requests : CUChanging(q, l0)' => request'[q].new \in CU!Transitions[letter'[l0].status]
      <4>1. request'[r].new \in CU!Transitions[letter'[l0].status]
            BY <3>2, <3>4
      <4> QED BY <3>3, <4>1
    <3>9. \A q \in Requests : CURegistering(q, l0)' => letter'[l0].status \in CUApprovals
          BY <3>3, <3>4, <3>6
    <3>10. CU!UsagesOf(l0)' # {} => letter'[l0].status \in CUApprovals
          BY <1>3, <3>4, <3>6
    <3> QED BY <3>7, <3>8, <3>9, <3>10
  <2>2. CASE \E n \in CU!Quantities : CU!BeginRegisterUsage(r, l0, n)
    <3>1. letter[l0].status \in CUApprovals /\ request'[r].pc = "insertUsage"
          BY <2>2 DEF CU!BeginRegisterUsage, CU!Begin, CU!TypeOK, CUApprovals
    <3>2. \A q \in Requests : CUChanging(q, l0)' => CUChanging(q, l0) /\ request'[q] = request[q]
          BY <1>1, <3>1 DEF CUChanging
    <3> QED BY <1>1, <1>3, <3>1, <3>2 DEF CUApprovedInv, CUApprovedOf
  <2>3. CASE \E u \in Rows : CU!BeginDeleteUsage(r, l0, u)
    <3>1. request'[r].pc = "deleteUsage"
          BY <2>3 DEF CU!BeginDeleteUsage, CU!Begin, CU!TypeOK
    <3>2. \A q \in Requests : /\ CUChanging(q, l0)' => CUChanging(q, l0) /\ request'[q] = request[q]
                              /\ CURegistering(q, l0)' => CURegistering(q, l0)
          BY <1>1, <3>1 DEF CUChanging, CURegistering
    <3> QED BY <1>1, <1>3, <3>2, CUFrame DEF CUApprovedInv
  <2> QED BY <2>1, <2>2, <2>3
<1> QED BY <1>2, <1>4, <1>5 DEF CUApprovedInv

\* Statements of a request that goes on.  A status is written over the one it was
\* decided on; a usage is inserted although its approval was read before.
LEMMA CUAdvanceStep ==
    ASSUME CUInv, NEW r \in Requests,
           \/ \E u \in Rows : CU!InsertUsage(r, u)
           \/ CU!WriteStatus(r) \/ CU!DeleteUsage(r) \/ CUUnread(r) \/ CU!Abort(r)
    PROVE  CURowsInv' /\ CUApprovedInv'
<1> USE DEF CUInv
<1> DEFINE l0 == request[r].l
<1>1. request[r] \in CU!Running /\ request[r] # CU!Idle /\ l0 \in Parts
      BY CUFields DEF CU!InsertUsage, CU!WriteStatus, CU!DeleteUsage, CUUnread, CU!Abort,
         CU!Idle
<1>2. /\ \A q \in Requests \ {r} : request'[q] = request[q]
      /\ request'[r] = CU!Idle \/ request'[r] = [pc |-> "recalculate", l |-> l0]
      /\ raced' = raced
      BY DEF CU!InsertUsage, CU!WriteStatus, CU!DeleteUsage, CUUnread, CU!Abort, CU!Goto,
         CU!TypeOK
<1>3. \A l \in Parts, q \in Requests :
         /\ CUChanging(q, l)' => CUChanging(q, l) /\ request'[q] = request[q] /\ q # r
         /\ CURegistering(q, l)' => CURegistering(q, l)
      BY <1>2 DEF CUChanging, CURegistering, CU!Idle
<1>4. /\ \A l \in Parts \ {l0} : letter'[l] = letter[l]
      /\ \A l \in Parts : (letter'[l] = CU!Absent <=> letter[l] = CU!Absent) /\ (CU!Exists(l)' <=> CU!Exists(l))
      /\ \A l \in Parts : ~CU!WriteStatus(r) => letter'[l] = letter[l]
  <2>1. CASE CU!WriteStatus(r) /\ CU!Exists(l0)
    <3>1. letter' = [letter EXCEPT ![l0] = [letter[l0] EXCEPT !.status = request[r].new]]
          BY <2>1 DEF CU!WriteStatus
    <3>2. letter[l0] \in CU!LetterRow /\ request[r].new \in CU!Statuses
          BY <1>1, <2>1 DEF CU!Exists, CU!TypeOK, CU!WriteStatus, CU!Running
    <3>3. [letter[l0] EXCEPT !.status = request[r].new] \notin {CU!Absent, CU!Gone}
          BY <3>2 DEF CU!LetterRow, CU!Absent, CU!Gone
    <3> QED BY <1>1, <2>1, <3>1, <3>3 DEF CU!TypeOK, CU!Exists
  <2>2. CASE ~(CU!WriteStatus(r) /\ CU!Exists(l0))
    <3>1. letter' = letter
          BY <1>1, <2>2 DEF CU!InsertUsage, CU!WriteStatus, CU!DeleteUsage, CUUnread, CU!Abort
    <3> QED BY <3>1 DEF CU!Exists
  <2> QED BY <2>1, <2>2
<1>5. ASSUME NEW v \in Rows, usage'[v] \notin {CU!Absent, CU!Gone}
      PROVE  /\ usage'[v].of \in Parts /\ CU!Exists(usage'[v].of)
             /\ \/ usage'[v] = usage[v]
                \/ usage'[v].of = l0 /\ CURegistering(r, l0) /\ CU!Exists(l0)
  <2>1. CASE usage'[v] = usage[v]
        BY <1>5, <2>1 DEF CURowsInv, CU!TypeOK, CU!UsageRow
  <2>2. CASE usage'[v] # usage[v]
    <3>1. PICK u \in Rows : CU!InsertUsage(r, u)
          BY <1>5, <2>2 DEF CU!WriteStatus, CU!DeleteUsage, CUUnread, CU!Abort, CU!TypeOK
    <3>2. CU!Exists(l0) /\ usage' = [usage EXCEPT ![u] = [of |-> l0, quantity |-> request[r].quantity]]
          BY <2>2, <3>1 DEF CU!InsertUsage
    <3>3. usage'[v].of = l0
          BY <2>2, <3>2 DEF CU!TypeOK
    <3> QED BY <1>1, <3>1, <3>2, <3>3 DEF CU!InsertUsage, CURegistering
  <2> QED BY <2>1, <2>2
<1>6. CURowsInv'
  <2>1. ASSUME NEW v \in Rows, usage'[v] \notin {CU!Absent, CU!Gone}
        PROVE  CU!Exists(usage[v].of)'
    <3>1. PICK l \in Parts : l = usage'[v].of
          BY <1>5, <2>1
    <3> QED BY <1>4, <1>5, <2>1, <3>1 DEF CU!Exists
  <2>2. ASSUME NEW q \in Requests, request'[q] # CU!Idle
        PROVE  letter'[request'[q].l] # CU!Absent
    <3>1. request[q] # CU!Idle /\ request'[q].l = request[q].l
          BY <1>1, <1>2, <2>2
    <3> QED BY <1>4, <3>1, CUFields DEF CURowsInv
  <2> QED BY <2>1, <2>2 DEF CURowsInv
<1>7. ASSUME NEW l \in Parts, CU!Exists(l), l \notin raced
      PROVE  CU!UsagesOf(l)' # {} => letter[l].status \in CUApprovals
  <2>1. SUFFICES ASSUME NEW v \in Rows, usage'[v] \notin {CU!Absent, CU!Gone}, usage'[v].of = l
                 PROVE  letter[l].status \in CUApprovals
        BY DEF CU!UsagesOf
  <2>2. CASE usage'[v] = usage[v]
        BY <1>7, <2>1, <2>2, CUUsagesAre DEF CUApprovedInv, CUApprovedOf
  <2>3. CASE l = l0 /\ CURegistering(r, l0)
        BY <1>7, <2>3 DEF CUApprovedInv, CUApprovedOf
  <2> QED BY <1>5, <2>1, <2>2, <2>3
<1>8. ASSUME NEW l \in Parts
      PROVE  CUApprovedOf(l)'
  <2> SUFFICES ASSUME l \notin raced', CU!Exists(l)'
               PROVE  /\ \A p, q \in Requests : CUChanging(p, l)' /\ CUChanging(q, l)' => p = q
                      /\ \A q \in Requests : CUChanging(q, l)' =>
                           request'[q].new \in CU!Transitions[letter'[l].status]
                      /\ \A q \in Requests : CURegistering(q, l)' => letter'[l].status \in CUApprovals
                      /\ CU!UsagesOf(l)' # {} => letter'[l].status \in CUApprovals
      BY DEF CUApprovedOf
  <2>1. CU!Exists(l) /\ l \notin raced
        BY <1>2, <1>4
  <2>2. CASE letter'[l].status = letter[l].status
        BY <1>3, <1>7, <2>1, <2>2 DEF CUApprovedInv, CUApprovedOf
  <2>3. CASE letter'[l].status # letter[l].status
    <3>1. CU!WriteStatus(r) /\ l = l0 /\ CUChanging(r, l)
          BY <1>1, <1>4, <2>3 DEF CU!WriteStatus, CUChanging
    <3>2. letter'[l].status = request[r].new
      <4>1. letter[l] \in CU!LetterRow
            BY <2>1 DEF CU!Exists, CU!TypeOK
      <4> QED BY <2>1, <3>1, <4>1 DEF CU!WriteStatus, CU!TypeOK, CU!LetterRow
    <3>3. request[r].new \in CU!Transitions[letter[l].status]
          BY <2>1, <3>1 DEF CUApprovedInv, CUApprovedOf
    <3>4. letter[l].status \in CUApprovals => letter'[l].status \in CUApprovals
          BY <3>2, <3>3, CUTransitionsLead
    <3>5. \A q \in Requests : ~CUChanging(q, l)'
          BY <1>3, <2>1, <3>1 DEF CUApprovedInv, CUApprovedOf
    <3> QED BY <1>3, <1>7, <2>1, <3>4, <3>5 DEF CUApprovedInv, CUApprovedOf
  <2> QED BY <2>2, <2>3
<1> QED BY <1>6, <1>8 DEF CUApprovedInv

\* Every step keeps the invariant.
LEMMA CUInvStep == ASSUME CUInv, [CU!Next]_CU!vars PROVE CUInv'
<1> SUFFICES CURowsInv' /\ CUApprovedInv'
    BY CUTypeStep DEF CUInv
<1>1. CASE UNCHANGED CU!vars
      BY <1>1 DEF CU!vars, CUInv, CURowsInv, CUApprovedInv, CUApprovedOf, CU!Exists, CUChanging,
         CURegistering, CU!UsagesOf
<1>2. ASSUME NEW l \in Parts, CU!DeleteLetter(l)
      PROVE  CURowsInv' /\ CUApprovedInv'
  <2>1. PICK org \in Others, n \in CU!Quantities : TRUE
    <3>1. letter[l] \in CU!LetterRow
          BY <1>2 DEF CU!DeleteLetter, CU!Exists, CUInv, CU!TypeOK
    <3> QED BY <3>1 DEF CU!LetterRow
  <2> QED BY <1>2, <2>1, CULetterStep
<1>3. ASSUME NEW r \in Requests, CU!Recalculate(r)
      PROVE  CUUnread(r)
      BY <1>3, CURecalculateEffect DEF CUInv
<1> QED BY <1>1, <1>2, <1>3, CULetterStep, CUBeginStep, CUAdvanceStep DEF CU!Next, CU!Step

\* Usages are evidence of an approval.
LEMMA CUTells == CUInv => CU!UsedLettersWereApproved
<1> SUFFICES ASSUME CUInv, NEW l \in Parts \ raced, CU!UsagesOf(l) # {}
             PROVE  letter[l].status \notin {"DRAFT", "SUBMITTED", "REJECTED"}
    BY DEF CU!UsedLettersWereApproved
<1>1. CU!Exists(l)
      BY CUUsagesAre DEF CUInv, CURowsInv
<1>2. letter[l].status \in CUApprovals
      BY <1>1 DEF CUInv, CUApprovedInv, CUApprovedOf
<1> QED BY <1>2 DEF CUApprovals
=============================================================================
