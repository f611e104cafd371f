---------------------------- MODULE ReaderProofs ----------------------------
(***************************************************************************)
(* Proofs about the modules that read what a tool has written: for every   *)
(* output of the tool, its length and the errors that are tracked.         *)
(***************************************************************************)
EXTENDS SplintModule, SimianModule, ValgrindModule, HelgrindModule, SparseModule,
        FiniteSetTheorems, WellFoundedInduction, TLAPS

\* A set of natural numbers that has a member has a least one.
LEMMA LeastOf ==
  ASSUME NEW hits \in SUBSET Nat, hits # {}
  PROVE  \E w \in hits : \A j \in hits : w <= j
  <1> DEFINE R == {ss \in Nat \X Nat : ss[1] < ss[2]}
  <1>1. IsWellFoundedOn(R, Nat)
    BY NatLessThanWellFounded DEF OpToRel
  <1> HIDE DEF R
  <1>2. PICK w \in hits : \A j \in hits : <<j, w>> \notin R
    BY <1>1, WFMin
  <1>3. ASSUME NEW j \in hits PROVE w <= j
    <2>1. ~(j < w)
      BY <1>2 DEF R
    <2> QED  BY <2>1
  <1> QED  BY <1>3

-----------------------------------------------------------------------------
(* Splint *)

SplintError == [of : Nat, func : Name \cup {FileScope}]

\* Complaint n is tracked, and its first line shows it.
Shown(n) == WantedComplaint(n) /\ ~CutOff(n)
Due(n) == Shown(n) /\ ~SwallowedComplaint(n)

\* The errors of the complaints before b, in order.
ErrsBefore(errs, b) ==
  /\ errs \in Seq(SplintError)
  /\ \A i, j \in 1..Len(errs) : i < j => errs[i].of < errs[j].of
  /\ \A i \in 1..Len(errs) : errs[i].of \in 1..(b - 1) /\ Due(errs[i].of)
  /\ \A n \in 1..(b - 1) : Due(n) => \E i \in 1..Len(errs) : errs[i].of = n

\* The name of complaint n's function was in the line a complaint swallowed.
NameLost(n) == \E m \in 1..(n - 1) :
                 /\ SwallowsNext(m) /\ ~SwallowedComplaint(m) /\ Named(m + 1)
                 /\ \A j \in (m + 1)..n : complaints[j].func = complaints[n].func

\* What function holds, as seen from complaint n.
Attributed(n, fun) ==
  complaints[n].func = FileScope \/ fun = complaints[n].func \/ NameLost(n)

NamedUpTo(n, fun) ==
  \/ fun = FileScope
  \/ \E m \in 1..Len(complaints) : /\ m <= n /\ complaints[m].func # FileScope
                                   /\ fun = complaints[m].func

RightFunction(e) ==
  \/ complaints[e.of].kind = "static" /\ e.func = FileScope
  \/ e.func = complaints[e.of].func
  \/ complaints[e.of].func = FileScope /\ NamedUpTo(e.of, e.func)
  \/ NameLost(e.of)

\* Before line l is read, with the errors errs and the function fun.
SplintAt(l, errs, fun) ==
  /\ \/ l = EndOfOutput
     \/ l \in [kind : {"function", "complaint", "text"}, of : 1..Len(complaints)]
  /\ l.kind = "function" => Named(l.of)
  /\ l.kind = "text" => complaints[l.of].long
  /\ l.kind = "complaint" => ~SwallowedComplaint(l.of)
  /\ l.kind \in {"complaint", "text"} => Attributed(l.of, fun)
  /\ ErrsBefore(errs, IF l.kind = "text" THEN l.of + 1 ELSE l.of)
  /\ \A i \in 1..Len(errs) : RightFunction(errs[i])
  /\ fun \in Name \cup {FileScope} /\ NamedUpTo(l.of, fun)

SplintReading == SplintAt(splint_line, splint_errs, function)

SplintInv == /\ complaints \in Seq(Complaint)
             /\ splint_flags \subseteq Plain \cup {"sign"}
             /\ SplintReading

LEMMA ComplaintType ==
  ASSUME complaints \in Seq(Complaint), NEW n \in 1..Len(complaints)
  PROVE  /\ complaints[n].kind \in Plain \cup Signs
         /\ complaints[n].func \in Name \cup {FileScope}
         /\ complaints[n].sign \in BOOLEAN /\ complaints[n].long \in BOOLEAN
  <1>1. complaints[n] \in Complaint
    OBVIOUS
  <1> QED  BY <1>1 DEF Complaint

\* The runs of exposed complaints are told apart by where they begin.
LEMMA RunBegins ==
  ASSUME NEW n \in Nat \ {0}
  PROVE  \E m \in 1..n : ~Exposed(m) /\ \A j \in (m + 1)..n : Exposed(j)
  <1> DEFINE hits == {d \in 0..(n - 1) : ~Exposed(n - d)}
  <1>1. n - 1 \in hits
    <2>1. n - (n - 1) = 1 /\ n - 1 \in 0..(n - 1)
      OBVIOUS
    <2>2. ~Exposed(1)
      BY DEF Exposed
    <2> QED  BY <2>1, <2>2
  <1>2. hits \in SUBSET Nat
    OBVIOUS
  <1> HIDE DEF hits
  <1>3. PICK d \in hits : \A e \in hits : d <= e
    BY <1>1, <1>2, LeastOf
  <1>4. d \in 0..(n - 1) /\ ~Exposed(n - d)
    BY <1>3 DEF hits
  <1>5. ASSUME NEW j \in ((n - d) + 1)..n PROVE Exposed(j)
    <2>1. n - j \in 0..(n - 1) /\ ~(d <= n - j) /\ n - (n - j) = j
      BY <1>4
    <2>2. n - j \notin hits
      BY <1>3, <2>1
    <2> QED  BY <2>1, <2>2 DEF hits
  <1>6. n - d \in 1..n
    BY <1>4
  <1> QED  BY <1>4, <1>5, <1>6

\* The closed form says what the loop does: an exposed complaint is swallowed
\* unless the one before was.
LEMMA SwallowStep ==
  ASSUME NEW n \in Nat \ {0}
  PROVE  SwallowedComplaint(n) <=> Exposed(n) /\ ~SwallowedComplaint(n - 1)
  <1>1. ASSUME SwallowedComplaint(n) PROVE Exposed(n) /\ ~SwallowedComplaint(n - 1)
    <2>1. PICK m \in 1..(n - 1) : /\ ~Exposed(m) /\ \A j \in (m + 1)..n : Exposed(j)
                                  /\ (n - m) % 2 = 1
      BY <1>1 DEF SwallowedComplaint
    <2>2. Exposed(n)
      BY <2>1
    <2>3. ASSUME NEW q \in 1..((n - 1) - 1), ~Exposed(q),
                 \A j \in (q + 1)..(n - 1) : Exposed(j), ((n - 1) - q) % 2 = 1
          PROVE  FALSE
      <3>1. CASE q = m
        BY <2>1, <2>3, <3>1
      <3>2. CASE q < m
        BY <2>1, <2>3, <3>2
      <3>3. CASE m < q
        BY <2>1, <2>3, <3>3
      <3> QED  BY <3>1, <3>2, <3>3
    <2> QED  BY <2>2, <2>3 DEF SwallowedComplaint
  <1>2. ASSUME Exposed(n), ~SwallowedComplaint(n - 1) PROVE SwallowedComplaint(n)
    <2>1. n > 1
      BY <1>2 DEF Exposed
    <2>2. PICK m \in 1..(n - 1) : ~Exposed(m) /\ \A j \in (m + 1)..(n - 1) : Exposed(j)
      BY <2>1, RunBegins
    <2>3. ((n - 1) - m) % 2 # 1
      <3>1. CASE m = n - 1
        BY <3>1
      <3>2. CASE m # n - 1
        <4>1. m \in 1..((n - 1) - 1)
          BY <3>2
        <4> QED  BY <4>1, <2>2, <1>2 DEF SwallowedComplaint
      <3> QED  BY <3>1, <3>2
    <2>4. (n - m) % 2 = 1
      BY <2>1, <2>3
    <2>5. ASSUME NEW j \in (m + 1)..n PROVE Exposed(j)
      <3>1. j = n \/ j \in (m + 1)..(n - 1)
        BY <2>1
      <3> QED  BY <3>1, <1>2, <2>2
    <2> QED  BY <2>2, <2>4, <2>5 DEF SwallowedComplaint
  <1> QED  BY <1>1, <1>2

LEMMA NamedNotSwallowed ==
  ASSUME NEW n \in Nat \ {0}, Named(n)
  PROVE  ~SwallowedComplaint(n)
  BY SwallowStep DEF Exposed

\* The attribution goes over to a complaint that is not named.
LEMMA AttributedNext ==
  ASSUME complaints \in Seq(Complaint), NEW n \in 1..Len(complaints), n + 1 <= Len(complaints),
         NEW fun, Attributed(n, fun), ~Named(n + 1)
  PROVE  Attributed(n + 1, fun)
  <1>1. CASE complaints[n + 1].func = FileScope
    BY <1>1 DEF Attributed
  <1>2. CASE complaints[n + 1].func # FileScope
    <2>1. complaints[n].func = complaints[n + 1].func
      BY <1>2 DEF Named
    <2>2. CASE NameLost(n)
      <3>1. PICK m \in 1..(n - 1) :
              /\ SwallowsNext(m) /\ ~SwallowedComplaint(m) /\ Named(m + 1)
              /\ \A j \in (m + 1)..n : complaints[j].func = complaints[n].func
        BY <2>2 DEF NameLost
      <3>2. m \in 1..((n + 1) - 1)
        OBVIOUS
      <3>3. \A j \in (m + 1)..(n + 1) : j = n + 1 \/ j \in (m + 1)..n
        OBVIOUS
      <3>4. \A j \in (m + 1)..(n + 1) : complaints[j].func = complaints[n + 1].func
        BY <3>1, <3>3, <2>1
      <3> QED  BY <3>1, <3>2, <3>4 DEF NameLost, Attributed
    <2> QED  BY <1>2, <2>1, <2>2 DEF Attributed
  <1> QED  BY <1>1, <1>2

\* One complaint more: it is due and was added, or it is not due.
LEMMA ErrsNext ==
  ASSUME complaints \in Seq(Complaint), NEW n \in 1..Len(complaints), NEW errs, NEW fun,
         fun \in Name \cup {FileScope}, ErrsBefore(errs, n)
  PROVE  /\ Due(n) => ErrsBefore(Append(errs, [of |-> n, func |-> fun]), n + 1)
         /\ ~Due(n) => ErrsBefore(errs, n + 1)
  <1>0. n \in Nat \ {0} /\ \A m \in 1..((n + 1) - 1) : m = n \/ m \in 1..(n - 1)
    OBVIOUS
  <1>1. ASSUME ~Due(n) PROVE ErrsBefore(errs, n + 1)
    <2>1. 1..(n - 1) \subseteq 1..((n + 1) - 1)
      BY <1>0
    <2> QED  BY <1>0, <1>1, <2>1 DEF ErrsBefore
  <1>2. ASSUME Due(n) PROVE ErrsBefore(Append(errs, [of |-> n, func |-> fun]), n + 1)
    <2> DEFINE e == [of |-> n, func |-> fun]
               new == Append(errs, e)
    <2>1. e \in SplintError /\ e.of = n
      BY <1>0 DEF SplintError
    <2>2. errs \in Seq(SplintError) /\ Len(errs) \in Nat
      BY DEF ErrsBefore
    <2> HIDE DEF e
    <2>3. /\ new \in Seq(SplintError) /\ Len(new) = Len(errs) + 1 /\ new[Len(errs) + 1] = e
          /\ \A i \in 1..Len(errs) : new[i] = errs[i]
      BY <2>1, <2>2
    <2> HIDE DEF new
    <2>4. \A i \in 1..Len(new) : i = Len(errs) + 1 \/ i \in 1..Len(errs)
      BY <2>2, <2>3
    <2>5. \A i \in 1..Len(errs) : errs[i].of \in 1..(n - 1) /\ Due(errs[i].of)
      BY DEF ErrsBefore
    <2>6. \A i \in 1..Len(new) : new[i].of \in 1..((n + 1) - 1) /\ Due(new[i].of)
      BY <1>0, <1>2, <2>1, <2>3, <2>4, <2>5
    <2>7. ASSUME NEW i \in 1..Len(new), NEW j \in 1..Len(new), i < j PROVE new[i].of < new[j].of
      <3>1. i \in 1..Len(errs)
        BY <2>2, <2>3, <2>7
      <3>2. CASE j = Len(errs) + 1
        <4>1. new[j].of = n /\ new[i].of = errs[i].of /\ errs[i].of \in 1..(n - 1)
          BY <2>1, <2>3, <2>5, <3>1, <3>2
        <4> QED  BY <4>1, <1>0
      <3>3. CASE j \in 1..Len(errs)
        BY <2>3, <2>7, <3>1, <3>3 DEF ErrsBefore
      <3> QED  BY <2>4, <3>2, <3>3
    <2>8. ASSUME NEW m \in 1..((n + 1) - 1), Due(m) PROVE \E i \in 1..Len(new) : new[i].of = m
      <3>1. CASE m = n
        <4>1. Len(errs) + 1 \in 1..Len(new)
          BY <2>2, <2>3
        <4> QED  BY <2>1, <2>3, <3>1, <4>1
      <3>2. CASE m \in 1..(n - 1)
        <4>1. PICK i \in 1..Len(errs) : errs[i].of = m
          BY <2>8, <3>2 DEF ErrsBefore
        <4>2. i \in 1..Len(new)
          BY <2>2, <2>3
        <4> QED  BY <2>3, <4>1, <4>2
      <3> QED  BY <1>0, <3>1, <3>2
    <2> QED  BY <2>3, <2>6, <2>7, <2>8 DEF ErrsBefore, new, e
  <1> QED  BY <1>1, <1>2

LEMMA NamedLater ==
  ASSUME NEW n \in Nat, NEW m \in Nat, n <= m, NEW fun, NamedUpTo(n, fun)
  PROVE  NamedUpTo(m, fun)
  <1>1. ASSUME NEW i \in 1..Len(complaints), i <= n PROVE i <= m
    BY <1>1
  <1> QED  BY <1>1 DEF NamedUpTo

\* Complaint n is dealt with and the next line is the first of complaint n + 1.
LEMMA AtFirstLine ==
  ASSUME complaints \in Seq(Complaint), NEW n \in 1..Len(complaints), NEW errs, NEW fun,
         ErrsBefore(errs, n + 1), \A i \in 1..Len(errs) : RightFunction(errs[i]),
         fun \in Name \cup {FileScope}, NamedUpTo(n, fun), Attributed(n, fun),
         ~SwallowedComplaint(n + 1)
  PROVE  SplintAt(FirstLine(n + 1), errs, fun)
  <1> DEFINE l == FirstLine(n + 1)
  <1>0. n \in Nat \ {0} /\ Len(complaints) \in Nat /\ n <= Len(complaints)
    OBVIOUS
  <1>1. NamedUpTo(n + 1, fun)
    <2>1. n \in Nat /\ n + 1 \in Nat /\ n <= n + 1
      BY <1>0
    <2> QED  BY <2>1, NamedLater
  <1>2. CASE n + 1 > Len(complaints)
    <2>1. n = Len(complaints)
      BY <1>0, <1>2
    <2>2. l = EndOfOutput /\ l.kind = "end" /\ l.of = n + 1
      BY <1>2, <2>1 DEF FirstLine, EndOfOutput, SplintLine
    <2> QED  BY <1>1, <2>2 DEF SplintAt
  <1>3. CASE n + 1 <= Len(complaints)
    <2>0. n + 1 \in 1..Len(complaints) /\ ~(n + 1 > Len(complaints))
      BY <1>0, <1>3
    <2>1. CASE Named(n + 1)
      <3>1. l = [kind |-> "function", of |-> n + 1]
        BY <2>0, <2>1 DEF FirstLine, SplintLine
      <3>2. l.kind = "function" /\ l.of = n + 1
            /\ l \in [kind : {"function", "complaint", "text"}, of : 1..Len(complaints)]
        BY <2>0, <3>1
      <3> HIDE DEF l
      <3>3. SplintAt(l, errs, fun)
        BY <1>1, <2>1, <3>2 DEF SplintAt
      <3> QED  BY <3>3 DEF l
    <2>2. CASE ~Named(n + 1)
      <3>1. l = [kind |-> "complaint", of |-> n + 1]
        BY <2>0, <2>2 DEF FirstLine, SplintLine
      <3>2. l.kind = "complaint" /\ l.of = n + 1
            /\ l \in [kind : {"function", "complaint", "text"}, of : 1..Len(complaints)]
        BY <2>0, <3>1
      <3>3. Attributed(n + 1, fun)
        BY <1>3, <2>2, AttributedNext
      <3> HIDE DEF l
      <3>4. SplintAt(l, errs, fun)
        BY <1>1, <3>2, <3>3 DEF SplintAt
      <3> QED  BY <3>4 DEF l
    <2> QED  BY <2>1, <2>2
  <1> QED  BY <1>0, <1>2, <1>3

\* Complaint n is dealt with and its line was the last one read.
LEMMA AfterComplaint ==
  ASSUME complaints \in Seq(Complaint), NEW n \in 1..Len(complaints), NEW errs, NEW fun,
         ErrsBefore(errs, n + 1), \A i \in 1..Len(errs) : RightFunction(errs[i]),
         fun \in Name \cup {FileScope}, NamedUpTo(n, fun), Attributed(n, fun),
         NEW l, l.kind = "complaint", l.of = n,
         ~complaints[n].long => ~SwallowedComplaint(n + 1)
  PROVE  SplintAt(LineAfter(l), errs, fun)
  <1>1. CASE complaints[n].long
    <2> DEFINE t == [kind |-> "text", of |-> n]
    <2>1. LineAfter(l) = t
      BY <1>1 DEF LineAfter, SplintLine
    <2>2. t.kind = "text" /\ t.of = n
          /\ t \in [kind : {"function", "complaint", "text"}, of : 1..Len(complaints)]
      OBVIOUS
    <2> HIDE DEF t
    <2>3. SplintAt(t, errs, fun)
      BY <1>1, <2>2 DEF SplintAt
    <2> QED  BY <2>1, <2>3
  <1>2. CASE ~complaints[n].long
    <2>1. LineAfter(l) = FirstLine(n + 1)
      BY <1>2 DEF LineAfter
    <2> QED  BY <1>2, <2>1, AtFirstLine
  <1> QED  BY <1>1, <1>2

\* What follows complaint n, unless it takes the next line with it.
LEMMA NextNotSwallowed ==
  ASSUME NEW n \in Nat \ {0}, ~SwallowsNext(n) \/ SwallowedComplaint(n)
  PROVE  ~SwallowedComplaint(n + 1)
  <1>1. n + 1 \in Nat \ {0} /\ (n + 1) - 1 = n
    OBVIOUS
  <1>2. SwallowedComplaint(n + 1) <=> Exposed(n + 1) /\ ~SwallowedComplaint(n)
    BY <1>1, SwallowStep
  <1>3. Exposed(n + 1) => SwallowsNext(n)
    BY <1>1 DEF Exposed
  <1> QED  BY <1>2, <1>3

\* A short complaint about an initializer, n, takes the next line with it.
LEMMA AfterSwallowing ==
  ASSUME complaints \in Seq(Complaint), NEW n \in 1..Len(complaints), NEW errs, NEW fun,
         ErrsBefore(errs, n + 1), \A i \in 1..Len(errs) : RightFunction(errs[i]),
         fun \in Name \cup {FileScope}, NamedUpTo(n, fun), Attributed(n, fun),
         SwallowsNext(n), ~SwallowedComplaint(n), n + 1 <= Len(complaints)
  PROVE  SplintAt(LineAfter(FirstLine(n + 1)), errs, fun)
  <1> DEFINE l == FirstLine(n + 1)
             p == n + 1
  <1>0. /\ p \in Nat \ {0} /\ p \in 1..Len(complaints) /\ ~(p > Len(complaints))
        /\ n \in Nat /\ p - 1 = n
    OBVIOUS
  <1>1. NamedUpTo(p, fun)
    <2>1. n \in Nat /\ p \in Nat /\ n <= p
      BY <1>0
    <2> QED  BY <2>1, NamedLater
  <1>2. CASE Named(p)
    <2> DEFINE c == [kind |-> "complaint", of |-> p]
    <2>1. l = [kind |-> "function", of |-> p]
      BY <1>0, <1>2 DEF FirstLine, SplintLine
    <2>2. LineAfter(l) = c
      BY <2>1 DEF LineAfter, SplintLine
    <2>3. c.kind = "complaint" /\ c.of = p
          /\ c \in [kind : {"function", "complaint", "text"}, of : 1..Len(complaints)]
      BY <1>0
    <2>4. ~SwallowedComplaint(p)
      BY <1>0, <1>2, NamedNotSwallowed
    <2>5. NameLost(p)
      <3>1. n \in 1..(p - 1) /\ \A j \in (n + 1)..p : j = p
        BY <1>0
      <3> QED  BY <1>2, <3>1 DEF NameLost
    <2> HIDE DEF c
    <2>6. SplintAt(c, errs, fun)
      BY <1>1, <2>3, <2>4, <2>5 DEF SplintAt, Attributed
    <2> QED  BY <2>2, <2>6
  <1>3. CASE ~Named(p)
    <2>1. l = [kind |-> "complaint", of |-> p]
      BY <1>0, <1>3 DEF FirstLine, SplintLine
    <2>2. l.kind = "complaint" /\ l.of = p
      BY <2>1
    <2>3. SwallowedComplaint(p)
      <3>1. Exposed(p)
        BY <1>0, <1>3 DEF Exposed
      <3> QED  BY <1>0, <3>1, SwallowStep
    <2>4. ErrsBefore(errs, p + 1)
      BY <1>0, <2>3, ErrsNext DEF Due
    <2>5. Attributed(p, fun)
      BY <1>3, AttributedNext
    <2>6. ~SwallowedComplaint(p + 1)
      BY <1>0, <2>3, NextNotSwallowed
    <2> HIDE DEF l, p
    <2>7. SplintAt(LineAfter(l), errs, fun)
      BY <1>0, <1>1, <2>2, <2>4, <2>5, <2>6, AfterComplaint
    <2> QED  BY <2>7 DEF l, p
  <1> QED  BY <1>2, <1>3

\* The complaints and the flags do not change, nor what is said about them.
LEMMA SplintCarry ==
  ASSUME complaints' = complaints, splint_flags' = splint_flags, SplintInv,
         NEW l, NEW errs, NEW fun, splint_line' = l, splint_errs' = errs, function' = fun,
         SplintAt(l, errs, fun)
  PROVE  SplintInv'
  <1>1. SplintReading'
    BY SMT DEF SplintReading, SplintAt, EndOfOutput, SplintLine, Named, SwallowedComplaint, Exposed,
               SwallowsNext, Attributed, NameLost, ErrsBefore, Due, Shown, CutOff, WantedComplaint, RightFunction,
               NamedUpTo
  <1> QED  BY <1>1 DEF SplintInv

\* A complaint is being read: what is known of it.
LEMMA AtComplaint ==
  ASSUME SplintInv, splint_line.kind = "complaint"
  PROVE  /\ splint_line.of \in 1..Len(complaints) /\ splint_line.of \in Nat \ {0}
         /\ ~SwallowedComplaint(splint_line.of) /\ Attributed(splint_line.of, function)
         /\ ErrsBefore(splint_errs, splint_line.of)
         /\ \A i \in 1..Len(splint_errs) : RightFunction(splint_errs[i])
         /\ function \in Name \cup {FileScope} /\ NamedUpTo(splint_line.of, function)
  <1>1. splint_line # EndOfOutput
    BY DEF EndOfOutput, SplintLine
  <1> QED  BY <1>1 DEF SplintInv, SplintReading, SplintAt

\* splint_get_info adds the complaint at its place, under the right function.
LEMMA ErrorAdded ==
  ASSUME SplintInv, splint_line.kind = "complaint", splint_get_info(splint_line.of),
         Shown(splint_line.of)
  PROVE  /\ ErrsBefore(splint_errs', splint_line.of + 1)
         /\ \A i \in 1..Len(splint_errs') : RightFunction(splint_errs'[i])
  <1> DEFINE n == splint_line.of
             func == IF complaints[n].kind = "static" THEN FileScope ELSE function
             e == [of |-> n, func |-> func]
  <1>1. /\ n \in 1..Len(complaints) /\ ~SwallowedComplaint(n) /\ Attributed(n, function)
        /\ ErrsBefore(splint_errs, n) /\ complaints \in Seq(Complaint)
        /\ \A i \in 1..Len(splint_errs) : RightFunction(splint_errs[i])
        /\ function \in Name \cup {FileScope} /\ NamedUpTo(n, function)
    BY AtComplaint DEF SplintInv
  <1>2. splint_errs' = Append(splint_errs, e)
    BY DEF splint_get_info
  <1>3. func \in Name \cup {FileScope}
    BY <1>1
  <1>4. e.of = n /\ e.func = func
    OBVIOUS
  <1>5. RightFunction(e)
    <2>1. CASE complaints[n].kind = "static"
      BY <1>4, <2>1 DEF RightFunction
    <2>2. CASE complaints[n].kind # "static"
      BY <1>1, <1>4, <2>2 DEF RightFunction, Attributed
    <2> QED  BY <2>1, <2>2
  <1>6. Due(n)
    BY <1>1 DEF Due
  <1> HIDE DEF n, func
  <1>7. ErrsBefore(Append(splint_errs, e), n + 1)
    BY <1>1, <1>3, <1>6, ErrsNext
  <1>8. splint_errs \in Seq(SplintError) /\ e \in SplintError
    <2>1. n \in Nat
      BY <1>1
    <2> QED  BY <1>1, <1>3, <2>1 DEF ErrsBefore, SplintError
  <1> HIDE DEF e
  <1>9. \A i \in 1..Len(Append(splint_errs, e)) : RightFunction(Append(splint_errs, e)[i])
    BY <1>1, <1>5, <1>8
  <1> QED  BY <1>2, <1>7, <1>9 DEF n

LEMMA SplintInit_Inv ==
  ASSUME SplintInit
  PROVE  SplintInv
  <1>1. complaints \in Seq(Complaint) /\ splint_flags \subseteq Plain \cup {"sign"}
        /\ Len(complaints) \in Nat
    BY ReportsAssumption DEF SplintInit
  <1>2. splint_line = FirstLine(1) /\ splint_errs = <<>> /\ function = FileScope
    BY DEF SplintInit
  <1>3. ErrsBefore(splint_errs, 1)
    BY <1>2 DEF ErrsBefore
  <1>4. \A n : NamedUpTo(n, function)
    BY <1>2 DEF NamedUpTo
  <1>5. Len(splint_errs) = 0
    BY <1>2
  <1>6. CASE Len(complaints) = 0
    <2>1. splint_line.kind = "end" /\ splint_line.of = 1 /\ splint_line = EndOfOutput
      BY <1>2, <1>6 DEF FirstLine, EndOfOutput, SplintLine
    <2> QED  BY <1>1, <1>2, <1>3, <1>4, <1>5, <2>1 DEF SplintInv, SplintReading, SplintAt
  <1>7. CASE Len(complaints) > 0
    <2>0. 1 \in 1..Len(complaints) /\ ~(1 > Len(complaints))
      BY <1>1, <1>7
    <2>1. CASE Named(1)
      <3>1. splint_line = [kind |-> "function", of |-> 1]
        BY <1>2, <2>0, <2>1 DEF FirstLine, SplintLine
      <3>2. splint_line.kind = "function" /\ splint_line.of = 1 /\ splint_line \in
              [kind : {"function", "complaint", "text"}, of : 1..Len(complaints)]
        BY <2>0, <3>1
      <3> QED  BY <1>1, <1>2, <1>3, <1>4, <1>5, <2>1, <3>2 DEF SplintInv, SplintReading, SplintAt
    <2>2. CASE ~Named(1)
      <3>1. splint_line = [kind |-> "complaint", of |-> 1]
        BY <1>2, <2>0, <2>2 DEF FirstLine, SplintLine
      <3>2. splint_line.kind = "complaint" /\ splint_line.of = 1 /\ splint_line \in
              [kind : {"function", "complaint", "text"}, of : 1..Len(complaints)]
        BY <2>0, <3>1
      <3>3. ~SwallowedComplaint(1)
        BY DEF SwallowedComplaint
      <3>4. Attributed(1, function)
        BY <2>2 DEF Named, Attributed
      <3> QED  BY <1>1, <1>2, <1>3, <1>4, <1>5, <3>2, <3>3, <3>4
               DEF SplintInv, SplintReading, SplintAt
    <2> QED  BY <2>1, <2>2
  <1> QED  BY <1>1, <1>6, <1>7

LEMMA get_function_Inv ==
  ASSUME SplintInv, get_function
  PROVE  SplintInv'
  <1> DEFINE n == splint_line.of
             c == [kind |-> "complaint", of |-> n]
             fun == complaints[n].func
  <1>1. /\ splint_line.kind = "function" /\ splint_line' = LineAfter(splint_line)
        /\ function' = fun /\ complaints' = complaints /\ splint_flags' = splint_flags
        /\ splint_errs' = splint_errs
    BY DEF get_function, SplintReads
  <1>2. splint_line # EndOfOutput
    BY <1>1 DEF EndOfOutput, SplintLine
  <1>3. /\ n \in 1..Len(complaints) /\ n \in Nat \ {0} /\ Named(n) /\ ErrsBefore(splint_errs, n)
        /\ \A i \in 1..Len(splint_errs) : RightFunction(splint_errs[i])
    BY <1>1, <1>2 DEF SplintInv, SplintReading, SplintAt
  <1>4. splint_line' = c
    BY <1>1 DEF LineAfter, SplintLine
  <1>5. ~SwallowedComplaint(n)
    BY <1>3, NamedNotSwallowed
  <1>6. fun \in Name \cup {FileScope}
    BY <1>3, ComplaintType DEF SplintInv
  <1>7. Attributed(n, fun) /\ NamedUpTo(n, fun)
    BY <1>3 DEF Attributed, NamedUpTo
  <1>8. c.kind = "complaint" /\ c.of = n
        /\ c \in [kind : {"function", "complaint", "text"}, of : 1..Len(complaints)]
    BY <1>3
  <1> HIDE DEF n, c, fun
  <1>9. SplintAt(c, splint_errs, fun)
    BY <1>3, <1>5, <1>6, <1>7, <1>8 DEF SplintAt
  <1> QED  BY <1>1, <1>4, <1>9, SplintCarry

LEMMA PlainError_Inv ==
  ASSUME SplintInv, PlainError
  PROVE  SplintInv'
  <1> DEFINE n == splint_line.of
  <1>1. /\ splint_line.kind = "complaint" /\ splint_line' = LineAfter(splint_line)
        /\ function' = function /\ complaints' = complaints /\ splint_flags' = splint_flags
        /\ splint_get_info(n) /\ complaints[n].kind \in Plain \cap splint_flags
    BY DEF PlainError, SplintReads
  <1>2. /\ n \in 1..Len(complaints) /\ n \in Nat \ {0} /\ Attributed(n, function)
        /\ function \in Name \cup {FileScope} /\ NamedUpTo(n, function)
    BY <1>1, AtComplaint
  <1>3. Shown(n) /\ ~SwallowsNext(n)
    BY <1>1 DEF Shown, CutOff, WantedComplaint, SwallowsNext, Plain, Signs
  <1>4. /\ ErrsBefore(splint_errs', n + 1)
        /\ \A i \in 1..Len(splint_errs') : RightFunction(splint_errs'[i])
    BY <1>1, <1>3, ErrorAdded
  <1>5. ~SwallowedComplaint(n + 1)
    BY <1>2, <1>3, NextNotSwallowed
  <1>6. complaints \in Seq(Complaint)
    BY DEF SplintInv
  <1> HIDE DEF n
  <1>7. SplintAt(LineAfter(splint_line), splint_errs', function)
    BY <1>1, <1>2, <1>4, <1>5, <1>6, AfterComplaint DEF n
  <1> QED  BY <1>1, <1>7, SplintCarry

LEMMA OtherLine_Inv ==
  ASSUME SplintInv, OtherLine
  PROVE  SplintInv'
  <1> DEFINE n == splint_line.of
  <1>1. /\ splint_line' = LineAfter(splint_line) /\ splint_errs' = splint_errs
        /\ function' = function /\ complaints' = complaints /\ splint_flags' = splint_flags
        /\ complaints \in Seq(Complaint)
    BY DEF OtherLine, SplintReads, SplintInv
  <1>2. CASE splint_line.kind = "text"
    <2>1. splint_line # EndOfOutput
      BY <1>2 DEF EndOfOutput, SplintLine
    <2>2. /\ n \in 1..Len(complaints) /\ n \in Nat \ {0} /\ Attributed(n, function)
          /\ complaints[n].long /\ ErrsBefore(splint_errs, n + 1)
          /\ function \in Name \cup {FileScope} /\ NamedUpTo(n, function)
          /\ \A i \in 1..Len(splint_errs) : RightFunction(splint_errs[i])
      BY <1>2, <2>1 DEF SplintInv, SplintReading, SplintAt
    <2>3. ~SwallowedComplaint(n + 1)
      BY <2>2, NextNotSwallowed DEF SwallowsNext
    <2>4. LineAfter(splint_line) = FirstLine(n + 1)
      BY <1>2 DEF LineAfter
    <2> HIDE DEF n
    <2>5. SplintAt(FirstLine(n + 1), splint_errs, function)
      BY <1>1, <2>2, <2>3, AtFirstLine
    <2> QED  BY <1>1, <2>4, <2>5, SplintCarry
  <1>3. CASE splint_line.kind # "text"
    <2>1. /\ splint_line.kind = "complaint"
          /\ \/ complaints[n].kind \in Plain \ splint_flags
             \/ complaints[n].kind \in Signs /\ "sign" \notin splint_flags
      BY <1>3 DEF OtherLine
    <2>2. /\ n \in 1..Len(complaints) /\ n \in Nat \ {0} /\ Attributed(n, function)
          /\ ErrsBefore(splint_errs, n)
          /\ function \in Name \cup {FileScope} /\ NamedUpTo(n, function)
          /\ \A i \in 1..Len(splint_errs) : RightFunction(splint_errs[i])
      BY <2>1, AtComplaint
    <2>3. ~Shown(n) /\ ~SwallowsNext(n)
      BY <2>1 DEF Shown, CutOff, WantedComplaint, SwallowsNext, Plain, Signs
    <2>4. ErrsBefore(splint_errs, n + 1)
      BY <1>1, <2>2, <2>3, ErrsNext DEF Due
    <2>5. ~SwallowedComplaint(n + 1)
      BY <2>2, <2>3, NextNotSwallowed
    <2> HIDE DEF n
    <2>6. SplintAt(LineAfter(splint_line), splint_errs, function)
      BY <1>1, <2>1, <2>2, <2>4, <2>5, AfterComplaint DEF n
    <2> QED  BY <1>1, <2>6, SplintCarry
  <1> QED  BY <1>2, <1>3

LEMMA SignError_Inv ==
  ASSUME SplintInv, SignError
  PROVE  SplintInv'
  <1> DEFINE n == splint_line.of
             next == LineAfter(splint_line)
  <1>1. /\ splint_line.kind = "complaint" /\ splint_line' = SecondLine(complaints[n].kind, next)
        /\ function' = function /\ complaints' = complaints /\ splint_flags' = splint_flags
        /\ complaints[n].kind \in Signs /\ "sign" \in splint_flags /\ complaints \in Seq(Complaint)
        /\ IF is_signed_unsigned(complaints[n]) THEN splint_get_info(n)
                                                ELSE splint_errs' = splint_errs
    BY DEF SignError, SplintInv
  <1>2. /\ n \in 1..Len(complaints) /\ n \in Nat \ {0} /\ Attributed(n, function)
        /\ ErrsBefore(splint_errs, n) /\ ~SwallowedComplaint(n)
        /\ function \in Name \cup {FileScope} /\ NamedUpTo(n, function)
        /\ \A i \in 1..Len(splint_errs) : RightFunction(splint_errs[i])
    BY <1>1, AtComplaint
  <1>3. Shown(n) <=> is_signed_unsigned(complaints[n])
    BY <1>1 DEF Shown, CutOff, WantedComplaint, is_signed_unsigned
  <1>4. /\ ErrsBefore(splint_errs', n + 1)
        /\ \A i \in 1..Len(splint_errs') : RightFunction(splint_errs'[i])
    <2>1. CASE is_signed_unsigned(complaints[n])
      BY <1>1, <1>3, <2>1, ErrorAdded
    <2>2. CASE ~is_signed_unsigned(complaints[n])
      <3>1. ErrsBefore(splint_errs, n + 1)
        BY <1>1, <1>2, <1>3, <2>2, ErrsNext DEF Due
      <3> QED  BY <1>1, <1>2, <2>2, <3>1
    <2> QED  BY <2>1, <2>2
  <1>5. SplintAt(SecondLine(complaints[n].kind, next), splint_errs', function)
    <2>1. CASE complaints[n].kind # "initializer"
      <3>1. ~SwallowedComplaint(n + 1)
        BY <1>2, <2>1, NextNotSwallowed DEF SwallowsNext
      <3>2. SecondLine(complaints[n].kind, next) = LineAfter(splint_line)
        BY <2>1 DEF SecondLine
      <3> HIDE DEF n, next
      <3> QED  BY <1>1, <1>2, <1>4, <3>1, <3>2, AfterComplaint DEF n
    <2>2. CASE complaints[n].kind = "initializer" /\ complaints[n].long
      <3>1. next = [kind |-> "text", of |-> n]
        BY <1>1, <2>2 DEF LineAfter, SplintLine
      <3>2. LineAfter(next) = FirstLine(n + 1)
        BY <3>1 DEF LineAfter
      <3>3. SecondLine(complaints[n].kind, next) = FirstLine(n + 1)
        BY <2>2, <3>1, <3>2 DEF SecondLine
      <3>4. ~SwallowedComplaint(n + 1)
        BY <1>2, <2>2, NextNotSwallowed DEF SwallowsNext
      <3> HIDE DEF n, next
      <3> QED  BY <1>1, <1>2, <1>4, <3>3, <3>4, AtFirstLine
    <2>3. CASE complaints[n].kind = "initializer" /\ ~complaints[n].long
      <3>1. next = FirstLine(n + 1)
        BY <1>1, <2>3 DEF LineAfter
      <3>2. SwallowsNext(n)
        BY <1>1, <2>3 DEF SwallowsNext
      <3>3. CASE n + 1 > Len(complaints)
        <4>1. next.kind = "end"
          BY <3>1, <3>3 DEF FirstLine, EndOfOutput, SplintLine
        <4>2. SecondLine(complaints[n].kind, next) = EndOfOutput
          BY <4>1, <3>1, <3>3 DEF SecondLine, FirstLine
        <4>3. n = Len(complaints)
          BY <1>2, <3>3
        <4>4. EndOfOutput.kind = "end" /\ EndOfOutput.of = n + 1
          BY <4>3 DEF EndOfOutput, SplintLine
        <4>5. NamedUpTo(n + 1, function)
          <5>1. n \in Nat /\ n + 1 \in Nat /\ n <= n + 1
            BY <1>2
          <5> QED  BY <1>2, <5>1, NamedLater
        <4> QED  BY <1>2, <1>4, <4>2, <4>4, <4>5 DEF SplintAt
      <3>4. CASE n + 1 <= Len(complaints)
        <4>1. next.kind # "end"
          BY <1>2, <3>1, <3>4 DEF FirstLine, SplintLine
        <4>2. SecondLine(complaints[n].kind, next) = LineAfter(FirstLine(n + 1))
          BY <2>3, <3>1, <4>1 DEF SecondLine
        <4> HIDE DEF n, next
        <4> QED  BY <1>1, <1>2, <1>4, <3>2, <3>4, <4>2, AfterSwallowing
      <3> QED  BY <1>2, <3>3, <3>4
    <2> QED  BY <2>1, <2>2, <2>3
  <1> HIDE DEF n, next
  <1> QED  BY <1>1, <1>5, SplintCarry

(***************************************************************************)
(* Where run_tool (rbc_splint.c) is in splint's output, which function it  *)
(* has in mind and what it has added by then: SplintInv is inductive.      *)
(***************************************************************************)
THEOREM SplintInvariance == SplintSpec => []SplintInv
  <1>1. SplintInit => SplintInv
    BY SplintInit_Inv
  <1>2. SplintInv /\ [SplintNext]_splintVars => SplintInv'
    <2> SUFFICES ASSUME SplintInv, [SplintNext]_splintVars PROVE SplintInv'
      OBVIOUS
    <2>1. CASE UNCHANGED splintVars
      BY <2>1, SplintCarry DEF splintVars, SplintInv, SplintReading
    <2>2. CASE SplintDone
      BY <2>1, <2>2 DEF SplintDone
    <2> QED  BY <2>1, <2>2, get_function_Inv, PlainError_Inv, SignError_Inv, OtherLine_Inv
             DEF SplintNext
  <1> QED  BY <1>1, <1>2, PTL DEF SplintSpec

(***************************************************************************)
(* For every output of splint and every set of tracked errors, run_tool    *)
(* adds the tracked complaints once each and in order, and loses exactly   *)
(* those whose line it reads as the second line of another one and those   *)
(* about an assignment whose types stand on a second line.                 *)
(***************************************************************************)
THEOREM SplintAllRead == SplintSpec => []SplintReadsAll
  <1>1. ASSUME SplintInv PROVE SplintReadsAll
    <2>1. SUFFICES ASSUME splint_line.kind = "end"
                   PROVE  /\ \A j, w \in 1..Len(splint_errs) :
                               j < w => splint_errs[j].of < splint_errs[w].of
                          /\ {splint_errs[w].of : w \in 1..Len(splint_errs)} =
                               {n \in 1..Len(complaints) :
                                  /\ WantedComplaint(n)
                                  /\ ~SwallowedComplaint(n) /\ ~CutOff(n)}
      BY DEF SplintReadsAll
    <2>2. splint_line.of = Len(complaints) + 1 /\ Len(complaints) \in Nat
      BY <1>1, <2>1 DEF SplintInv, SplintReading, SplintAt, EndOfOutput, SplintLine
    <2>3. (Len(complaints) + 1) - 1 = Len(complaints)
      BY <2>2
    <2>4. ErrsBefore(splint_errs, Len(complaints) + 1)
      BY <1>1, <2>1, <2>2 DEF SplintInv, SplintReading, SplintAt
    <2>5. /\ \A i \in 1..Len(splint_errs) :
               splint_errs[i].of \in 1..Len(complaints) /\ Due(splint_errs[i].of)
          /\ \A n \in 1..Len(complaints) :
               Due(n) => \E i \in 1..Len(splint_errs) : splint_errs[i].of = n
      BY <2>3, <2>4 DEF ErrsBefore
    <2>6. {splint_errs[w].of : w \in 1..Len(splint_errs)} = {n \in 1..Len(complaints) : Due(n)}
      BY <2>5
    <2> QED  BY <2>4, <2>6 DEF ErrsBefore, Due, Shown
  <1> QED  BY <1>1, SplintInvariance, PTL

(***************************************************************************)
(* For every output of splint, an error found inside a function is         *)
(* reported under it, unless the line that names the function was read as  *)
(* the second line of a complaint; at file scope it is reported under a    *)
(* function named before.                                                  *)
(***************************************************************************)
THEOREM SplintAttributed == SplintSpec => []SplintAttribution
  <1>1. ASSUME SplintInv PROVE SplintAttribution
    <2>1. ASSUME NEW w \in 1..Len(splint_errs)
          PROVE  LET n == splint_errs[w].of
                     named == {m \in 1..n : complaints[m].func # FileScope}
                 IN  \/ complaints[n].kind = "static" /\ splint_errs[w].func = FileScope
                     \/ splint_errs[w].func = complaints[n].func
                     \/ /\ complaints[n].func = FileScope
                        /\ \E m \in named : splint_errs[w].func = complaints[m].func
                     \/ \E m \in 1..(n - 1) :
                          /\ SwallowsNext(m) /\ ~SwallowedComplaint(m) /\ Named(m + 1)
                          /\ \A j \in (m + 1)..n : complaints[j].func = complaints[n].func
      <3> DEFINE e == splint_errs[w]
                 n == e.of
      <3>1. RightFunction(e)
        BY <1>1 DEF SplintInv, SplintReading, SplintAt
      <3>2. n \in Nat
        BY <1>1 DEF SplintInv, SplintReading, SplintAt, ErrsBefore, SplintError
      <3> HIDE DEF e
      <3>3. CASE NamedUpTo(n, e.func) /\ complaints[n].func = FileScope
        <4>1. CASE e.func = FileScope
          BY <3>3, <4>1 DEF e
        <4>2. CASE e.func # FileScope
          <5>1. PICK m \in 1..Len(complaints) : /\ m <= n /\ complaints[m].func # FileScope
                                                /\ e.func = complaints[m].func
            BY <3>3, <4>2 DEF NamedUpTo
          <5>2. m \in 1..n
            BY <3>2, <5>1
          <5> QED  BY <3>3, <5>1, <5>2 DEF e
        <4> QED  BY <4>1, <4>2
      <3> QED  BY <3>1, <3>3 DEF RightFunction, NameLost, e
    <2> QED  BY <2>1 DEF SplintAttribution
  <1> QED  BY <1>1, SplintInvariance, PTL

-----------------------------------------------------------------------------
(* Simian *)

\* The block whose places message holds or held, and how many of its lines
\* have been read, before line l.
BlockAt(l) == IF l.place = 0 \/ l.block > Len(blocks) THEN l.block - 1 ELSE l.block
PlacesAt(l) == IF l.place = 0 \/ l.block > Len(blocks) THEN Len(blocks[BlockAt(l)])
                                                        ELSE l.place - 1

\* With an open message, the blocks before block c have been added and message
\* holds the first g places of block c; with none, block c has been added too.
Gathered(bm, msg, errs, c, g) ==
  /\ errs \in Seq(Seq(Place)) /\ bm \in {"taken", "open"}
  /\ \A n \in 1..Len(errs) : /\ StartOf(errs[n], blocks[n])
                             /\ NoFoundName => errs[n] = blocks[n]
  /\ bm = "open" => /\ c > 0 /\ Len(errs) = c - 1
                    /\ msg \in Seq(Place) /\ Len(msg) = g /\ StartOf(msg, blocks[c])
  /\ bm = "taken" => Len(errs) = c

SimianLineOK(l) == \/ /\ l \in [block : 1..Len(blocks), place : Nat]
                      /\ l.place <= Len(blocks[l.block])
                   \/ l = SummaryLine
                   \/ l = AfterSummary

SimianAt(l, bm, msg, errs) ==
  /\ SimianLineOK(l)
  /\ Gathered(bm, msg, errs, BlockAt(l), PlacesAt(l))
  /\ bm = "open" => l # AfterSummary
  /\ NoFoundName /\ bm = "taken" => l = BlockLine(1, 0) \/ l = AfterSummary

Fits == \A n \in 1..Len(blocks) : Len(blocks[n]) <= Room

SimianReading == SimianAt(simian_line, block_msg, message, simian_errs)

SimianInv == /\ blocks \in Seq(Seq(Place))
             /\ simian_pc \in {"read", "done", "undefined"}
             /\ Fits => simian_pc # "undefined"
             /\ SimianReading

LEMMA SimianCarry ==
  ASSUME blocks' = blocks, SimianInv, NEW l, NEW bm, NEW msg, NEW errs,
         simian_line' = l, block_msg' = bm, message' = msg, simian_errs' = errs,
         simian_pc' \in {"read", "done", "undefined"}, Fits => simian_pc' # "undefined",
         SimianAt(l, bm, msg, errs)
  PROVE  SimianInv'
  <1>1. SimianReading'
    BY SMT DEF SimianReading, SimianAt, SimianLineOK, SummaryLine, AfterSummary, BlockLine, Gathered,
               BlockAt, PlacesAt, NoFoundName, StartOf
  <1> QED  BY <1>1 DEF SimianInv, Fits

\* Line l of a block has been dealt with.
LEMMA SimianAdvance ==
  ASSUME blocks \in Seq(Seq(Place)), NEW l \in [block : 1..Len(blocks), place : Nat],
         l.place <= Len(blocks[l.block]), NEW bm, NEW msg, NEW errs,
         Gathered(bm, msg, errs, l.block, l.place), NoFoundName => bm = "open"
  PROVE  SimianAt(NextLine(l), bm, msg, errs)
  <1> DEFINE b == l.block
             p == l.place
             n == NextLine(l)
  <1>1. /\ b \in 1..Len(blocks) /\ p \in Nat /\ Len(blocks) \in Nat /\ blocks[b] \in Seq(Place)
        /\ Len(blocks[b]) \in Nat /\ p <= Len(blocks[b])
    OBVIOUS
  <1>2. l # SummaryLine
    BY <1>1 DEF SummaryLine, BlockLine
  <1>3. bm \in {"taken", "open"}
    BY DEF Gathered
  <1>4. CASE p < Len(blocks[b])
    <2>1. n = [block |-> b, place |-> p + 1]
      BY <1>2, <1>4 DEF NextLine, BlockLine
    <2>a. n.block = b /\ n.place = p + 1
      BY <2>1
    <2>b. p + 1 # 0 /\ ~(b > Len(blocks)) /\ (p + 1) - 1 = p
      BY <1>1
    <2>2. n.block = b /\ n.place = p + 1 /\ n.place # 0 /\ ~(n.block > Len(blocks))
          /\ (p + 1) - 1 = p
      BY <2>a, <2>b
    <2>3. SimianLineOK(n)
      BY <1>1, <1>4, <2>1 DEF SimianLineOK
    <2>4. BlockAt(n) = b /\ PlacesAt(n) = p
      BY <2>2 DEF BlockAt, PlacesAt
    <2>5. n # AfterSummary
      BY <1>1, <2>2 DEF AfterSummary, BlockLine
    <2> HIDE DEF n
    <2>6. SimianAt(n, bm, msg, errs)
      BY <2>3, <2>4, <2>5 DEF SimianAt
    <2> QED  BY <2>6 DEF n
  <1>5. CASE p = Len(blocks[b])
    <2>1. n = [block |-> b + 1, place |-> 0]
      BY <1>1, <1>2, <1>5 DEF NextLine, BlockLine
    <2>2. n.block = b + 1 /\ n.place = 0 /\ (b + 1) - 1 = b
      BY <1>1, <2>1
    <2>3. SimianLineOK(n)
      <3>1. CASE b = Len(blocks)
        BY <2>1, <3>1 DEF SimianLineOK, SummaryLine, BlockLine
      <3>2. CASE b # Len(blocks)
        <4>1. b + 1 \in 1..Len(blocks)
          BY <1>1, <3>2
        <4>2. Len(blocks[b + 1]) \in Nat
          BY <4>1
        <4> QED  BY <2>1, <4>1, <4>2 DEF SimianLineOK
      <3> QED  BY <3>1, <3>2
    <2>4. BlockAt(n) = b /\ PlacesAt(n) = p
      BY <2>2, <1>5 DEF BlockAt, PlacesAt
    <2>5. n # AfterSummary
      BY <2>2 DEF AfterSummary, BlockLine
    <2> HIDE DEF n
    <2>6. SimianAt(n, bm, msg, errs)
      BY <2>3, <2>4, <2>5 DEF SimianAt
    <2> QED  BY <2>6 DEF n
  <1> QED  BY <1>1, <1>4, <1>5

\* A start as long as the sequence it starts is that sequence.
LEMMA FullStart ==
  ASSUME NEW S, NEW m \in Seq(S), NEW whole \in Seq(S), StartOf(m, whole), Len(m) = Len(whole)
  PROVE  m = whole
  <1>1. \A i \in 1..Len(m) : m[i] = whole[i]
    BY DEF StartOf
  <1> QED  BY <1>1

\* The open message, if there is one, is added.
LEMMA SimianFlush ==
  ASSUME blocks \in Seq(Seq(Place)), NEW c \in 0..Len(blocks), NEW g,
         NEW bm, NEW msg, NEW errs, NEW new, Gathered(bm, msg, errs, c, g),
         new = (IF bm = "open" THEN Append(errs, msg) ELSE errs),
         NoFoundName => g = Len(blocks[c])
  PROVE  \A m, h : Gathered("taken", m, new, c, h)
  <1>1. CASE bm = "taken"
    BY <1>1 DEF Gathered
  <1>2. CASE bm = "open"
    <2>1. /\ errs \in Seq(Seq(Place)) /\ c \in 1..Len(blocks) /\ Len(errs) = c - 1
          /\ msg \in Seq(Place) /\ Len(msg) = g /\ StartOf(msg, blocks[c])
          /\ new = Append(errs, msg)
      BY <1>2 DEF Gathered
    <2>2. new \in Seq(Seq(Place)) /\ Len(new) = c /\ new[c] = msg
          /\ \A n \in 1..Len(errs) : new[n] = errs[n]
      BY <2>1
    <2>3. \A n \in 1..Len(new) : n = c \/ n \in 1..Len(errs)
      BY <2>1, <2>2
    <2>4. NoFoundName => msg = blocks[c]
      <3>1. blocks[c] \in Seq(Place)
        BY <2>1
      <3> QED  BY <2>1, <3>1, FullStart
    <2>5. \A n \in 1..Len(new) : /\ StartOf(new[n], blocks[n])
                                 /\ NoFoundName => new[n] = blocks[n]
      BY <2>1, <2>2, <2>3, <2>4 DEF Gathered
    <2> QED  BY <2>2, <2>5 DEF Gathered
  <1> QED  BY <1>1, <1>2 DEF Gathered

LEMMA OpenBlock_Inv ==
  ASSUME SimianInv, OpenBlock
  PROVE  SimianInv'
  <1> DEFINE l == simian_line
             b == l.block
  <1>1. /\ simian_line' = NextLine(l) /\ block_msg' = "open" /\ message' = <<>>
        /\ blocks' = blocks /\ simian_pc' = simian_pc
        /\ blocks \in Seq(Seq(Place)) /\ simian_pc \in {"read", "done", "undefined"}
        /\ Fits => simian_pc # "undefined"
        /\ SimianAt(l, block_msg, message, simian_errs)
        /\ b <= Len(blocks) /\ l.place = 0 /\ l # AfterSummary
    BY DEF OpenBlock, SimianReads, IsHeader, SimianInv, SimianReading
  <1>2. l # SummaryLine
    BY <1>1 DEF SummaryLine, BlockLine
  <1>3. l \in [block : 1..Len(blocks), place : Nat] /\ b \in 1..Len(blocks) /\ b - 1 \in 0..Len(blocks)
    BY <1>1, <1>2 DEF SimianAt, SimianLineOK
  <1>4. simian_errs' = IF block_msg = "open" THEN Append(simian_errs, message) ELSE simian_errs
    BY <1>1 DEF OpenBlock, Flush, Flushes, SaysFound, IsBetween
  <1>5. BlockAt(l) = b - 1 /\ PlacesAt(l) = Len(blocks[b - 1])
    BY <1>1 DEF BlockAt, PlacesAt
  <1> HIDE DEF l, b
  <1>6. Gathered(block_msg, message, simian_errs, b - 1, Len(blocks[b - 1]))
    BY <1>1, <1>5 DEF SimianAt
  <1>7. Gathered("taken", message, simian_errs', b - 1, 0)
    BY <1>1, <1>3, <1>4, <1>6, SimianFlush
  <1>8. Gathered("open", <<>>, simian_errs', b, 0)
    <2>1. <<>> \in Seq(Place) /\ Len(<<>>) = 0 /\ StartOf(<<>>, blocks[b])
      BY <1>1, <1>3 DEF StartOf
    <2> QED  BY <1>3, <1>7, <2>1 DEF Gathered
  <1>9. l.place <= Len(blocks[b])
    BY <1>1, <1>3
  <1>10. SimianAt(NextLine(l), "open", <<>>, simian_errs')
    BY <1>1, <1>3, <1>8, <1>9, SimianAdvance DEF b
  <1> QED  BY <1>1, <1>10, SimianCarry

\* A line of a place: what is known of it.
LEMMA AtPlace ==
  ASSUME SimianInv, IsBetween(simian_line)
  PROVE  /\ simian_line \in [block : 1..Len(blocks), place : Nat]
         /\ simian_line.place \in 1..Len(blocks[simian_line.block])
         /\ BlockAt(simian_line) = simian_line.block
         /\ PlacesAt(simian_line) = simian_line.place - 1
         /\ simian_line # AfterSummary /\ simian_line # BlockLine(1, 0)
         /\ Gathered(block_msg, message, simian_errs, simian_line.block, simian_line.place - 1)
  <1> DEFINE l == simian_line
  <1>1. l.block <= Len(blocks) /\ l.place > 0 /\ blocks \in Seq(Seq(Place)) /\ Len(blocks) \in Nat
    BY DEF IsBetween, SimianInv
  <1>2. l # SummaryLine /\ l # AfterSummary /\ l # BlockLine(1, 0)
    BY <1>1 DEF SummaryLine, AfterSummary, BlockLine
  <1>3. l \in [block : 1..Len(blocks), place : Nat] /\ l.place <= Len(blocks[l.block])
    BY <1>2 DEF SimianInv, SimianReading, SimianAt, SimianLineOK
  <1>4. l.place # 0 /\ ~(l.block > Len(blocks))
    BY <1>1, <1>3
  <1>5. BlockAt(l) = l.block /\ PlacesAt(l) = l.place - 1
    BY <1>4 DEF BlockAt, PlacesAt
  <1>6. Gathered(block_msg, message, simian_errs, l.block, l.place - 1)
    BY <1>5 DEF SimianInv, SimianReading, SimianAt
  <1> QED  BY <1>1, <1>2, <1>3, <1>5, <1>6

LEMMA AddPlace_Inv ==
  ASSUME SimianInv, AddPlace
  PROVE  SimianInv'
  <1> DEFINE l == simian_line
             b == l.block
             p == l.place
  <1>1. /\ simian_line' = NextLine(l) /\ block_msg' = block_msg /\ message' = Append(message, place)
        /\ blocks' = blocks /\ simian_errs' = simian_errs
        /\ simian_pc' = IF Len(message) < Room THEN "read" ELSE "undefined"
        /\ blocks \in Seq(Seq(Place)) /\ IsBetween(l) /\ ~Taken
    BY DEF AddPlace, SimianReads, SimianInv
  <1>2. /\ l \in [block : 1..Len(blocks), place : Nat] /\ p \in 1..Len(blocks[b])
        /\ Gathered(block_msg, message, simian_errs, b, p - 1)
    BY <1>1, AtPlace
  <1>3. block_msg = "open"
    BY <1>1, <1>2 DEF Taken, Gathered
  <1>4. /\ b \in 1..Len(blocks) /\ blocks[b] \in Seq(Place) /\ Len(blocks[b]) \in Nat
        /\ message \in Seq(Place) /\ Len(message) = p - 1 /\ StartOf(message, blocks[b])
        /\ place = blocks[b][p] /\ p \in Nat /\ p <= Len(blocks[b])
    BY <1>1, <1>2, <1>3 DEF Gathered, place
  <1> HIDE DEF l, b, p
  <1>5. message' \in Seq(Place) /\ Len(message') = p /\ StartOf(message', blocks[b])
    <2>1. place \in Place
      BY <1>2, <1>4
    <2>2. /\ message' \in Seq(Place) /\ Len(message') = p /\ message'[p] = place
          /\ \A n \in 1..(p - 1) : message'[n] = message[n]
      BY <1>1, <1>2, <1>4, <2>1
    <2>3. \A n \in 1..p : n = p \/ n \in 1..(p - 1)
      BY <1>4
    <2> QED  BY <1>4, <2>2, <2>3 DEF StartOf
  <1>6. Gathered(block_msg, message', simian_errs, b, p)
    BY <1>2, <1>3, <1>5 DEF Gathered
  <1>7. SimianAt(NextLine(l), block_msg, message', simian_errs)
    BY <1>1, <1>2, <1>3, <1>4, <1>6, SimianAdvance DEF b, p
  <1>8. simian_pc' \in {"read", "done", "undefined"}
    BY <1>1
  <1>9. Fits => simian_pc' # "undefined"
    <2>1. ASSUME Fits PROVE Len(message) < Room
      <3>1. Len(blocks[b]) <= Room
        BY <1>4, <2>1 DEF Fits
      <3> QED  BY <1>4, <3>1, SimianAssumption
    <2> QED  BY <1>1, <2>1
  <1> QED  BY <1>1, <1>7, <1>8, <1>9, SimianCarry

LEMMA SkipLine_Inv ==
  ASSUME SimianInv, SkipLine
  PROVE  SimianInv'
  <1> DEFINE l == simian_line
             b == l.block
  <1>1. /\ simian_line' = NextLine(l) /\ message' = message
        /\ blocks' = blocks /\ simian_pc' = simian_pc
        /\ blocks \in Seq(Seq(Place)) /\ simian_pc \in {"read", "done", "undefined"}
        /\ Len(blocks) \in Nat
        /\ Fits => simian_pc # "undefined"
        /\ SimianAt(l, block_msg, message, simian_errs) /\ block_msg \in {"taken", "open"}
    BY DEF SkipLine, SimianReads, SimianInv, SimianReading, SimianAt, Gathered
  <1>2. CASE l = SummaryLine
    <2>1. SaysFound /\ (Flushes <=> block_msg = "open") /\ Taken
      BY <1>1, <1>2 DEF SaysFound, IsBetween, SummaryLine, BlockLine, Flushes, Taken
    <2>2. /\ block_msg' = "taken"
          /\ simian_errs' = IF block_msg = "open" THEN Append(simian_errs, message) ELSE simian_errs
      BY <2>1 DEF SkipLine, Flush
    <2>3. NextLine(l) = AfterSummary
      BY <1>2 DEF NextLine
    <2>4. BlockAt(l) = Len(blocks) /\ PlacesAt(l) = Len(blocks[Len(blocks)])
      BY <1>1, <1>2 DEF BlockAt, PlacesAt, SummaryLine, BlockLine
    <2>5. BlockAt(AfterSummary) = Len(blocks) /\ SimianLineOK(AfterSummary)
      BY <1>1 DEF BlockAt, AfterSummary, BlockLine, SimianLineOK
    <2>6. Gathered(block_msg, message, simian_errs, Len(blocks), Len(blocks[Len(blocks)]))
      BY <1>1, <2>4 DEF SimianAt
    <2>7. Gathered("taken", message, simian_errs', Len(blocks), PlacesAt(AfterSummary))
      <3>1. Len(blocks) \in 0..Len(blocks)
        BY <1>1
      <3> QED  BY <1>1, <2>2, <2>6, <3>1, SimianFlush
    <2>8. SimianAt(AfterSummary, "taken", message, simian_errs')
      BY <2>5, <2>7 DEF SimianAt
    <2> QED  BY <1>1, <2>2, <2>3, <2>8, SimianCarry
  <1>3. CASE l # SummaryLine
    <2>1. IsBetween(l) /\ Taken
      BY <1>3 DEF SkipLine
    <2>2. /\ l \in [block : 1..Len(blocks), place : Nat] /\ l.place \in 1..Len(blocks[b])
          /\ Gathered(block_msg, message, simian_errs, b, l.place - 1)
          /\ l # AfterSummary /\ l # BlockLine(1, 0)
      BY <2>1, AtPlace
    <2>3. place = blocks[b][l.place] /\ b \in 1..Len(blocks)
      BY <2>2 DEF place
    <2>4. ~NoFoundName
      <3>1. SUFFICES ASSUME NoFoundName PROVE FALSE
        OBVIOUS
      <3>2. block_msg = "open"
        BY <1>1, <2>2, <3>1 DEF SimianAt
      <3>3. place \in FoundIn
        BY <2>1, <3>2 DEF Taken, Flushes, SaysFound
      <3> QED  BY <2>2, <2>3, <3>1, <3>3 DEF NoFoundName
    <2>5. /\ block_msg' = "taken"
          /\ simian_errs' = IF block_msg = "open" THEN Append(simian_errs, message) ELSE simian_errs
      BY <1>1, <2>1 DEF SkipLine, Flush, Taken, Flushes
    <2>6. l.place <= Len(blocks[b])
      BY <2>2
    <2> HIDE DEF l, b
    <2>7. Gathered("taken", message, simian_errs', b, l.place)
      <3>1. b \in 0..Len(blocks)
        BY <2>3
      <3> QED  BY <1>1, <2>2, <2>4, <2>5, <3>1, SimianFlush
    <2>8. SimianAt(NextLine(l), "taken", message, simian_errs')
      BY <1>1, <2>2, <2>4, <2>6, <2>7, SimianAdvance DEF b
    <2> QED  BY <1>1, <2>5, <2>8, SimianCarry
  <1> QED  BY <1>2, <1>3

LEMMA SimianInit_Inv ==
  ASSUME SimianInit
  PROVE  SimianInv
  <1>1. /\ blocks \in Seq(Seq(Place)) /\ Len(blocks) \in Nat
        /\ simian_line = [block |-> 1, place |-> 0] /\ block_msg = "taken"
        /\ simian_errs = <<>> /\ simian_pc = "read"
    BY SimianAssumption DEF SimianInit, BlockLine
  <1>2. SimianLineOK(simian_line)
    <2>1. CASE Len(blocks) = 0
      BY <1>1, <2>1 DEF SimianLineOK, SummaryLine, BlockLine
    <2>2. CASE Len(blocks) > 0
      <3>1. 1 \in 1..Len(blocks) /\ Len(blocks[1]) \in Nat
        BY <1>1, <2>2
      <3> QED  BY <1>1, <3>1 DEF SimianLineOK
    <2> QED  BY <1>1, <2>1, <2>2
  <1>3. BlockAt(simian_line) = 0
    BY <1>1 DEF BlockAt
  <1>4. \A g : Gathered(block_msg, message, simian_errs, 0, g)
    BY <1>1 DEF Gathered
  <1>5. simian_line = BlockLine(1, 0)
    BY <1>1 DEF BlockLine
  <1> QED  BY <1>1, <1>2, <1>3, <1>4, <1>5 DEF SimianInv, SimianReading, SimianAt

(***************************************************************************)
(* Where run_tool (rbc_simian.c) is in Simian's output, and which blocks   *)
(* are in message and among the errors by then: SimianInv is inductive.    *)
(***************************************************************************)
THEOREM SimianInvariance == SimianSpec => []SimianInv
  <1>1. SimianInit => SimianInv
    BY SimianInit_Inv
  <1>2. SimianInv /\ [SimianNext]_simianVars => SimianInv'
    <2> SUFFICES ASSUME SimianInv, [SimianNext]_simianVars PROVE SimianInv'
      OBVIOUS
    <2>1. CASE UNCHANGED simianVars
      BY <2>1, SimianCarry DEF simianVars, SimianInv, SimianReading
    <2>2. CASE SimianStopped
      BY <2>1, <2>2 DEF SimianStopped
    <2>3. CASE EndOfFile
      BY <2>3, SimianCarry DEF EndOfFile, SimianInv, SimianReading
    <2> QED  BY <2>1, <2>2, <2>3, OpenBlock_Inv, AddPlace_Inv, SkipLine_Inv DEF SimianNext
  <1> QED  BY <1>1, <1>2, PTL DEF SimianSpec

\* In an output without "Found" in a file's name, the closed blocks are the
\* ones that have been added.
LEMMA ClosedAdded ==
  ASSUME SimianInv, NoFoundName
  PROVE  /\ Closed = 1..Len(simian_errs)
         /\ Len(simian_errs) <= Len(blocks)
         /\ Complete => Len(simian_errs) = Len(blocks)
  <1> DEFINE l == simian_line
             N == Len(blocks)
             E == Len(simian_errs)
  <1>1. /\ SimianLineOK(l) /\ N \in Nat /\ E \in Nat
        /\ Gathered(block_msg, message, simian_errs, BlockAt(l), PlacesAt(l))
        /\ block_msg = "open" => l # AfterSummary
        /\ block_msg = "taken" => l = BlockLine(1, 0) \/ l = AfterSummary
    BY DEF SimianInv, SimianReading, SimianAt, Gathered
  <1>2. block_msg \in {"open", "taken"} /\ (block_msg = "open" => E = BlockAt(l) - 1)
        /\ (block_msg = "open" => BlockAt(l) > 0) /\ (block_msg = "taken" => E = BlockAt(l))
    BY <1>1 DEF Gathered
  <1>3. CASE l = AfterSummary
    <2>1. l.block = N + 1 /\ l.place = 1 /\ Complete
      BY <1>3 DEF AfterSummary, BlockLine, Complete
    <2>2. E = N
      BY <1>1, <1>2, <1>3, <2>1 DEF BlockAt
    <2>3. Closed = 1..N
      BY <1>1, <2>1 DEF Closed
    <2> QED  BY <1>1, <2>2, <2>3
  <1>4. CASE l # AfterSummary /\ block_msg = "taken"
    <2>1. l.block = 1 /\ l.place = 0 /\ ~Complete
      BY <1>1, <1>4 DEF BlockLine, Complete
    <2>2. E = 0
      BY <1>2, <1>4, <2>1 DEF BlockAt
    <2>3. Closed = {}
      BY <1>1, <2>1 DEF Closed
    <2> QED  BY <1>1, <2>1, <2>2, <2>3
  <1>5. CASE l # AfterSummary /\ block_msg = "open"
    <2>1. ~Complete
      BY <1>5 DEF Complete
    <2>2. CASE l.place = 0
      <3>1. l.block \in 1..(N + 1)
        BY <1>1, <1>5 DEF SimianLineOK, SummaryLine, BlockLine
      <3>2. E = l.block - 2
        BY <1>2, <1>5, <2>2, <3>1 DEF BlockAt
      <3>3. Closed = 1..(l.block - 2)
        BY <1>1, <2>2, <3>1 DEF Closed
      <3> QED  BY <1>1, <2>1, <3>1, <3>2, <3>3
    <2>3. CASE l.place # 0
      <3>1. l.block \in 1..N /\ l.place > 0
        BY <1>1, <1>5, <2>3 DEF SimianLineOK, SummaryLine, BlockLine
      <3>2. E = l.block - 1
        BY <1>1, <1>2, <1>5, <2>3, <3>1 DEF BlockAt
      <3>3. Closed = 1..(l.block - 1)
        BY <1>1, <3>1 DEF Closed
      <3> QED  BY <1>1, <2>1, <3>1, <3>2, <3>3
    <2> QED  BY <2>2, <2>3
  <1> QED  BY <1>2, <1>3, <1>4, <1>5

(***************************************************************************)
(* For every report of Simian, wherever its output ends and whatever the   *)
(* files are called, the errors of run_tool are the duplicated blocks:     *)
(* each complete one whole if its file names and its length let it, and    *)
(* never places of two blocks in one.                                      *)
(***************************************************************************)
THEOREM SimianAlwaysFaithful == SimianSpec => []SimianFaithful
  <1>1. ASSUME SimianInv PROVE SimianReadsAll
    <2>1. SUFFICES ASSUME simian_pc # "read", NoFoundName, Fits
                   PROVE  /\ simian_pc = "done"
                          /\ simian_errs = [n \in Closed |-> blocks[n]]
                          /\ Complete => simian_errs = blocks
      BY DEF SimianReadsAll, Fits
    <2>2. simian_pc = "done"
      BY <1>1, <2>1 DEF SimianInv
    <2>3. /\ simian_errs \in Seq(Seq(Place)) /\ blocks \in Seq(Seq(Place))
          /\ \A n \in 1..Len(simian_errs) : simian_errs[n] = blocks[n]
      BY <1>1, <2>1 DEF SimianInv, SimianReading, SimianAt, Gathered
    <2>4. /\ Closed = 1..Len(simian_errs)
          /\ Complete => Len(simian_errs) = Len(blocks)
      BY <1>1, <2>1, ClosedAdded
    <2>5. simian_errs = [n \in Closed |-> blocks[n]]
      BY <2>3, <2>4
    <2>6. Complete => simian_errs = blocks
      BY <2>3, <2>4
    <2> QED  BY <2>2, <2>5, <2>6
  <1>2. ASSUME SimianInv PROVE SimianBlocksApart
    <2> DEFINE l == simian_line
    <2>1. /\ SimianLineOK(l) /\ Len(blocks) \in Nat /\ Len(simian_errs) \in Nat
          /\ Gathered(block_msg, message, simian_errs, BlockAt(l), PlacesAt(l))
      BY <1>2 DEF SimianInv, SimianReading, SimianAt, Gathered
    <2>2. BlockAt(l) \in 0..Len(blocks)
      BY <2>1 DEF BlockAt, SimianLineOK, SummaryLine, AfterSummary, BlockLine
    <2>3. Len(simian_errs) <= Len(blocks)
      BY <2>1, <2>2 DEF Gathered
    <2>4. \A n \in 1..Len(simian_errs) : StartOf(simian_errs[n], blocks[n])
      BY <2>1 DEF Gathered
    <2> QED  BY <2>3, <2>4 DEF SimianBlocksApart
  <1> QED  BY <1>1, <1>2, SimianInvariance, PTL DEF SimianFaithful

-----------------------------------------------------------------------------
(* Lists of errors in the order of a log file *)

LEMMA ListsNone ==
  ASSUME NEW e, DOMAIN e = {}
  PROVE  Lists(e, <<>>)
  <1> DEFINE h == [n \in 1..Len(<<>>) |-> n]
  <1>1. Len(<<>>) = 0
    OBVIOUS
  <1>2. h \in [1..Len(<<>>) -> DOMAIN e]
    BY <1>1
  <1>3. \A m, n \in 1..Len(<<>>) : m < n => h[m] < h[n]
    BY <1>1
  <1>4. \A n \in 1..Len(<<>>) : <<>>[n] = e[h[n]]
    BY <1>1
  <1> HIDE DEF h
  <1> QED  BY <1>2, <1>3, <1>4 DEF Lists

\* Only the values of e on its domain matter.
LEMMA ListsSame ==
  ASSUME NEW e, NEW f, NEW d, DOMAIN f = DOMAIN e, \A i \in DOMAIN e : f[i] = e[i],
         Lists(e, d)
  PROVE  Lists(f, d)
  <1>1. PICK h \in [1..Len(d) -> DOMAIN e] :
          /\ \A i \in DOMAIN e : \E n \in 1..Len(d) : h[n] = i
          /\ \A m, n \in 1..Len(d) : m < n => h[m] < h[n]
          /\ \A n \in 1..Len(d) : d[n] = e[h[n]]
    BY DEF Lists
  <1>2. \A n \in 1..Len(d) : d[n] = f[h[n]]
    BY <1>1
  <1> QED  BY <1>1, <1>2 DEF Lists

\* An error announced after all the others is listed last.
LEMMA ListsAppend ==
  ASSUME NEW e, NEW f, NEW d \in Seq(Finding), NEW x \in Finding, NEW i \in Nat,
         DOMAIN e \subseteq 1..(i - 1), DOMAIN f = DOMAIN e \cup {i},
         \A j \in DOMAIN e : f[j] = e[j], f[i] = x,
         Lists(e, d)
  PROVE  Lists(f, Append(d, x))
  <1>1. PICK h \in [1..Len(d) -> DOMAIN e] :
          /\ \A j \in DOMAIN e : \E n \in 1..Len(d) : h[n] = j
          /\ \A m, n \in 1..Len(d) : m < n => h[m] < h[n]
          /\ \A n \in 1..Len(d) : d[n] = e[h[n]]
    BY DEF Lists
  <1> DEFINE D == Append(d, x)
             g == [n \in 1..Len(D) |-> IF n = Len(d) + 1 THEN i ELSE h[n]]
  <1>2. /\ Len(d) \in Nat /\ Len(D) = Len(d) + 1
        /\ D[Len(d) + 1] = x /\ \A n \in 1..Len(d) : D[n] = d[n]
    OBVIOUS
  <1>3. \A n \in 1..Len(D) : n = Len(d) + 1 \/ n \in 1..Len(d)
    BY <1>2
  <1>4. \A n \in 1..Len(d) : n \in 1..Len(D) /\ n # Len(d) + 1
    BY <1>2
  <1>5. Len(d) + 1 \in 1..Len(D)
    BY <1>2
  <1> HIDE DEF D
  <1>6. g[Len(d) + 1] = i /\ \A n \in 1..Len(d) : g[n] = h[n]
    BY <1>4, <1>5
  <1>7. g \in [1..Len(D) -> DOMAIN f]
    BY <1>1, <1>3
  <1> HIDE DEF g
  <1>8. ASSUME NEW j \in DOMAIN f PROVE \E n \in 1..Len(D) : g[n] = j
    <2>1. CASE j = i
      BY <1>5, <1>6, <2>1
    <2>2. CASE j \in DOMAIN e
      <3>1. PICK n \in 1..Len(d) : h[n] = j
        BY <1>1, <2>2
      <3> QED  BY <3>1, <1>4, <1>6
    <2> QED  BY <2>1, <2>2
  <1>9. ASSUME NEW m \in 1..Len(D), NEW n \in 1..Len(D), m < n
        PROVE  g[m] < g[n]
    <2>1. m \in 1..Len(d)
      BY <1>2, <1>9
    <2>2. CASE n = Len(d) + 1
      <3>1. h[m] \in 1..(i - 1)
        BY <1>1, <2>1
      <3>2. g[m] = h[m] /\ g[n] = i
        BY <1>6, <2>1, <2>2
      <3> QED  BY <3>1, <3>2
    <2>3. CASE n \in 1..Len(d)
      BY <1>1, <1>6, <1>9, <2>1, <2>3
    <2> QED  BY <1>3, <2>2, <2>3
  <1>10. ASSUME NEW n \in 1..Len(D) PROVE D[n] = f[g[n]]
    <2>1. CASE n = Len(d) + 1
      BY <1>2, <1>6, <2>1
    <2>2. CASE n \in 1..Len(d)
      <3>1. D[n] = d[n] /\ g[n] = h[n]
        BY <1>2, <1>6, <2>2
      <3>2. h[n] \in DOMAIN e /\ d[n] = e[h[n]]
        BY <1>1, <2>2
      <3> QED  BY <3>1, <3>2
    <2> QED  BY <1>3, <2>1, <2>2
  <1> QED  BY <1>7, <1>8, <1>9, <1>10 DEF Lists, D

\* Two lines that end the same call trace are one.
LEMMA TraceUnique ==
  ASSUME NEW l, NEW i \in Nat, NEW j \in Nat, NEW n \in Nat,
         Traces(l, i, j), Traces(l, i, n)
  PROVE  j = n
  <1>1. CASE j < n
    BY <1>1 DEF Traces
  <1>2. CASE n < j
    BY <1>2 DEF Traces
  <1> QED  BY <1>1, <1>2

LEMMA TraceOf ==
  ASSUME NEW S, NEW l \in Seq(S), NEW i \in Nat, NEW j \in 1..Len(l), Traces(l, i, j)
  PROVE  HasTrace(l, i) /\ Trace(l, i) = l[j].m
  <1> DEFINE n == CHOOSE q \in 1..Len(l) : Traces(l, i, q)
  <1>1. n \in 1..Len(l) /\ Traces(l, i, n)
    OBVIOUS
  <1>2. n = j
    BY <1>1, TraceUnique
  <1> QED  BY <1>2 DEF HasTrace, Trace

\* Only foreign frames up to the end of the log, or up to a line that is no
\* frame: no trace.
LEMMA NoTrace ==
  ASSUME NEW S, NEW l \in Seq(S), NEW i \in Nat, NEW a \in Nat, i <= a, a <= Len(l),
         \A n \in (i + 1)..a : l[n].k = "foreign",
         a < Len(l) => l[a + 1].k \notin {"own", "foreign"}
  PROVE  ~HasTrace(l, i)
  <1>1. ASSUME NEW j \in 1..Len(l), Traces(l, i, j) PROVE FALSE
    <2>1. l[j].k = "own" /\ i < j /\ \A n \in (i + 1)..(j - 1) : l[n].k = "foreign"
      BY <1>1 DEF Traces
    <2>2. ~(j <= a)
      <3>1. SUFFICES ASSUME j <= a PROVE FALSE
        OBVIOUS
      <3>2. j \in (i + 1)..a
        BY <2>1, <3>1
      <3>3. l[j].k = "foreign"
        BY <3>2
      <3> QED  BY <2>1, <3>3
    <2>3. a + 1 = j \/ a + 1 \in (i + 1)..(j - 1)
      BY <2>2
    <2>4. a < Len(l)
      BY <2>2
    <2> QED  BY <2>1, <2>3, <2>4
  <1> QED  BY <1>1 DEF HasTrace

-----------------------------------------------------------------------------
(* Valgrind *)

LEMMA ValLineType ==
  ASSUME NEW x \in ValLine
  PROVE  /\ x.k = "header" => x.t \in ErrType
         /\ x.k \in {"own", "open"} => x.m \in Message
         /\ x.k = "fds" => x.n \in Nat
         /\ x.k \in {"header", "own", "foreign", "bare", "break", "text", "fds", "open",
                     "unnamed", "inherited"}
  BY DEF ValLine, GrindLine

\* What the assumption says of one log, in the form the steps use it.
ValLog(l) ==
  /\ l \in Seq(ValLine)
  /\ \A j \in 1..Len(l) :
       /\ l[j].k \in {"header", "fds"} => Begins(l, j)
       /\ l[j].k \in {"open", "unnamed"} =>
            /\ j > 1 /\ l[j - 1].k \in {"break", "fds"}
            /\ \E f \in 1..(j - 1) :
                 l[f].k = "fds" /\ Cardinality(Descriptors(l, j)) <= l[f].n
       /\ l[j].k = "break" /\ j > 1 => l[j - 1].k # "open"
  /\ \A f \in 1..Len(l) : l[f].k = "fds" =>
       /\ \A g \in 1..Len(l) : l[g].k = "fds" => g = f
       /\ \A j \in (f + 1)..Len(l) :
            l[j - 1].k \in {"break", "fds"} /\ Cardinality(Descriptors(l, j - 1)) < l[f].n =>
              l[j].k \in {"break", "open", "unnamed"}

LEMMA ValLogs ==
  ASSUME NEW l \in ValgrindLog
  PROVE  ValLog(l)
  BY ValgrindLogAssumption DEF ValLog

LEMMA DescriptorsStep ==
  ASSUME NEW l, NEW a \in Nat
  PROVE  /\ Cardinality(Descriptors(l, a)) \in Nat
         /\ Cardinality(Descriptors(l, a + 1)) =
              IF l[a + 1].k \in {"open", "unnamed"} THEN Cardinality(Descriptors(l, a)) + 1
                                                    ELSE Cardinality(Descriptors(l, a))
  <1>1. IsFiniteSet(1..a)
    BY FS_Interval
  <1>2. Descriptors(l, a) \in SUBSET (1..a)
    BY DEF Descriptors
  <1>3. IsFiniteSet(Descriptors(l, a))
    BY <1>1, <1>2, FS_Subset
  <1>4. a + 1 \notin Descriptors(l, a)
    BY <1>2
  <1>5. CASE l[a + 1].k \in {"open", "unnamed"}
    <2>1. Descriptors(l, a + 1) = Descriptors(l, a) \cup {a + 1}
      BY <1>5 DEF Descriptors
    <2> QED  BY <2>1, <1>3, <1>4, <1>5, FS_AddElement, FS_CardinalityType
  <1>6. CASE l[a + 1].k \notin {"open", "unnamed"}
    <2>1. Descriptors(l, a + 1) = Descriptors(l, a)
      BY <1>6 DEF Descriptors
    <2> QED  BY <2>1, <1>3, <1>6, FS_CardinalityType
  <1> QED  BY <1>5, <1>6

\* The heading comes before the descriptors.
LEMMA NoneBeforeHeading ==
  ASSUME NEW l, ValLog(l), NEW f \in 1..Len(l), l[f].k = "fds"
  PROVE  Cardinality(Descriptors(l, f)) = 0
  <1>1. ASSUME NEW j \in Descriptors(l, f) PROVE FALSE
    <2>1. j \in 1..f /\ l[j].k \in {"open", "unnamed"}
      BY <1>1 DEF Descriptors
    <2>2. j \in 1..Len(l)
      BY <2>1
    <2>3. PICK g \in 1..(j - 1) : l[g].k = "fds"
      BY <2>1, <2>2 DEF ValLog
    <2>4. g \in 1..Len(l) /\ g < f
      BY <2>1, <2>2, <2>3
    <2>5. g = f
      BY <2>3, <2>4 DEF ValLog
    <2> QED  BY <2>4, <2>5
  <1>2. Descriptors(l, f) = {}
    BY <1>1
  <1> QED  BY <1>2, FS_EmptySet

\* All the descriptors of the log are among its first a lines.
CountDone(l, a) ==
  ERR_FILE_DESCRIPTORS \in Tracked =>
    \A f \in 1..a : l[f].k = "fds" => Cardinality(Descriptors(l, a)) >= l[f].n

LEMMA CountStep ==
  ASSUME NEW l, ValLog(l), NEW a \in Nat, a < Len(l), CountDone(l, a), l[a + 1].k # "fds"
  PROVE  CountDone(l, a + 1)
  <1> SUFFICES ASSUME ERR_FILE_DESCRIPTORS \in Tracked, NEW f \in 1..(a + 1), l[f].k = "fds"
               PROVE  Cardinality(Descriptors(l, a + 1)) >= l[f].n
    BY DEF CountDone
  <1>1. f # a + 1
    OBVIOUS
  <1>2. f \in 1..a
    BY <1>1
  <1>3. Cardinality(Descriptors(l, a)) >= l[f].n
    BY <1>2 DEF CountDone
  <1>4. l[f] \in ValLine
    BY <1>2 DEF ValLog
  <1>5. l[f].n \in Nat
    BY <1>4, ValLineType
  <1> DEFINE c == Cardinality(Descriptors(l, a))
             c1 == Cardinality(Descriptors(l, a + 1))
  <1>6. c \in Nat /\ (c1 = c \/ c1 = c + 1)
    BY DescriptorsStep
  <1>7. c >= l[f].n
    BY <1>3
  <1> HIDE DEF c, c1
  <1>8. c1 >= l[f].n
    BY <1>5, <1>6, <1>7
  <1> QED  BY <1>8 DEF c1

\* n of the descriptors that the heading counts come after line a.
FdLeft(l, a, n) ==
  /\ ERR_FILE_DESCRIPTORS \in Tracked /\ n \in Nat
  /\ \E f \in 1..a : l[f].k = "fds" /\ Cardinality(Descriptors(l, a)) = l[f].n - n

LEMMA NoneLeft ==
  ASSUME NEW l, ValLog(l), NEW a \in 0..Len(l), FdLeft(l, a, 0)
  PROVE  CountDone(l, a)
  <1>1. PICK f \in 1..a : l[f].k = "fds" /\ Cardinality(Descriptors(l, a)) = l[f].n - 0
    BY DEF FdLeft
  <1>2. ASSUME NEW g \in 1..a, l[g].k = "fds" PROVE g = f
    <2>1. f \in 1..Len(l) /\ g \in 1..Len(l)
      OBVIOUS
    <2> QED  BY <1>1, <1>2, <2>1 DEF ValLog
  <1>3. l[f] \in ValLine
    BY DEF ValLog
  <1>4. l[f].n \in Nat
    BY <1>1, <1>3, ValLineType
  <1>5. Cardinality(Descriptors(l, a)) >= l[f].n
    BY <1>1, <1>4
  <1> QED  BY <1>2, <1>5 DEF CountDone

\* A line that is no descriptor leaves the number as it is.
LEMMA FdLeftStep ==
  ASSUME NEW l, NEW a \in Nat, NEW n, FdLeft(l, a, n)
  PROVE  /\ l[a + 1].k \notin {"open", "unnamed"} => FdLeft(l, a + 1, n)
         /\ l[a + 1].k \in {"open", "unnamed"} /\ ValLog(l) /\ a < Len(l) /\ n > 0
              => FdLeft(l, a + 1, n - 1)
  <1>1. PICK f \in 1..a : l[f].k = "fds" /\ Cardinality(Descriptors(l, a)) = l[f].n - n
    BY DEF FdLeft
  <1>2. f \in 1..(a + 1) /\ n \in Nat
    BY DEF FdLeft
  <1>3. ASSUME l[a + 1].k \notin {"open", "unnamed"} PROVE FdLeft(l, a + 1, n)
    <2>1. Cardinality(Descriptors(l, a + 1)) = l[f].n - n
      BY <1>1, <1>3, DescriptorsStep
    <2> QED  BY <1>1, <1>2, <2>1 DEF FdLeft
  <1>4. ASSUME l[a + 1].k \in {"open", "unnamed"}, ValLog(l), a < Len(l), n > 0
        PROVE  FdLeft(l, a + 1, n - 1)
    <2>1. l[f] \in ValLine
      BY <1>4 DEF ValLog
    <2>2. l[f].n \in Nat
      BY <1>1, <2>1, ValLineType
    <2>3. Cardinality(Descriptors(l, a + 1)) = (l[f].n - n) + 1
      BY <1>1, <1>4, DescriptorsStep
    <2>4. Cardinality(Descriptors(l, a + 1)) = l[f].n - (n - 1)
      BY <1>2, <2>2, <2>3
    <2>5. n - 1 \in Nat
      BY <1>2, <1>4
    <2> QED  BY <1>1, <1>2, <2>4, <2>5 DEF FdLeft
  <1> QED  BY <1>3, <1>4

-----------------------------------------------------------------------------

Announces(l, j) == IsError(l, j) \/ IsLeft(l, j)

LEMMA ValErrorsAre ==
  ASSUME NEW l, NEW n
  PROVE  /\ DOMAIN ValgrindErrors(l, n) = {j \in 1..n : Announces(l, j)}
         /\ \A i \in DOMAIN ValgrindErrors(l, n) : ValgrindErrors(l, n)[i] =
              IF l[i].k = "open" THEN [err_type |-> ERR_FILE_DESCRIPTORS, err_msg |-> l[i].m]
                                 ELSE [err_type |-> l[i].t, err_msg |-> Trace(l, i)]
  BY DEF ValgrindErrors, Announces

\* Lines that announce nothing add no error.
LEMMA ValSkip ==
  ASSUME NEW l, NEW a \in Int, NEW b \in Nat, a <= b, NEW d,
         \A j \in (a + 1)..b : j \in 1..b => ~Announces(l, j),
         Lists(ValgrindErrors(l, a), d)
  PROVE  Lists(ValgrindErrors(l, b), d)
  <1> DEFINE e == ValgrindErrors(l, a)
             f == ValgrindErrors(l, b)
  <1>1. ASSUME NEW j PROVE j \in {q \in 1..a : Announces(l, q)}
                             <=> j \in {q \in 1..b : Announces(l, q)}
    <2>1. j \in 1..b => j \in 1..a \/ j \in (a + 1)..b
      OBVIOUS
    <2>2. j \in 1..a => j \in 1..b
      OBVIOUS
    <2> QED  BY <2>1, <2>2
  <1>2. DOMAIN f = DOMAIN e
    BY <1>1, ValErrorsAre
  <1>3. \A i \in DOMAIN e : f[i] = e[i]
    BY <1>2, ValErrorsAre
  <1> QED  BY <1>2, <1>3, ListsSame

LEMMA ValAppend ==
  ASSUME NEW l, NEW i \in Nat \ {0}, NEW d \in Seq(Finding), NEW x \in Finding,
         Announces(l, i),
         x = IF l[i].k = "open" THEN [err_type |-> ERR_FILE_DESCRIPTORS, err_msg |-> l[i].m]
                                ELSE [err_type |-> l[i].t, err_msg |-> Trace(l, i)],
         Lists(ValgrindErrors(l, i - 1), d)
  PROVE  Lists(ValgrindErrors(l, i), Append(d, x))
  <1> DEFINE e == ValgrindErrors(l, i - 1)
             f == ValgrindErrors(l, i)
  <1>1. 1..i = (1..(i - 1)) \cup {i}
    OBVIOUS
  <1>2. DOMAIN e = {j \in 1..(i - 1) : Announces(l, j)}
    BY ValErrorsAre
  <1>3. DOMAIN f = {j \in 1..i : Announces(l, j)}
    BY ValErrorsAre
  <1>4. DOMAIN f = DOMAIN e \cup {i}
    BY <1>1, <1>2, <1>3
  <1>5. ASSUME NEW j \in DOMAIN e PROVE f[j] = e[j]
    <2>1. j \in DOMAIN f
      BY <1>4
    <2>2. e[j] = IF l[j].k = "open"
                 THEN [err_type |-> ERR_FILE_DESCRIPTORS, err_msg |-> l[j].m]
                 ELSE [err_type |-> l[j].t, err_msg |-> Trace(l, j)]
      BY ValErrorsAre
    <2>3. f[j] = IF l[j].k = "open"
                 THEN [err_type |-> ERR_FILE_DESCRIPTORS, err_msg |-> l[j].m]
                 ELSE [err_type |-> l[j].t, err_msg |-> Trace(l, j)]
      BY <2>1, ValErrorsAre
    <2> QED  BY <2>2, <2>3
  <1>6. f[i] = x
    BY <1>4, ValErrorsAre
  <1>7. DOMAIN e \subseteq 1..(i - 1)
    BY <1>2
  <1> HIDE DEF e, f
  <1>8. Lists(e, d)
    BY DEF e
  <1>9. Lists(f, Append(d, x))
    BY <1>4, <1>5, <1>6, <1>7, <1>8, ListsAppend
  <1> QED  BY <1>9 DEF f

\* A line that is neither a header nor a named descriptor announces nothing.
LEMMA AnnouncesNothing ==
  ASSUME NEW l, NEW j,
         l[j].k # "open" \/ ERR_FILE_DESCRIPTORS \notin Tracked,
         l[j].k # "header" \/ l[j].t \notin Tracked
  PROVE  ~Announces(l, j)
  BY DEF Announces, IsError, IsLeft

\* Below a line that is neither a break line nor the heading, a line continues
\* the record.
LEMMA Continues ==
  ASSUME NEW l, ValLog(l), NEW a \in Nat \ {0}, a < Len(l), l[a].k \notin {"break", "fds"}
  PROVE  l[a + 1].k \notin {"header", "fds", "open", "unnamed"}
  <1>1. a + 1 \in 1..Len(l) /\ (a + 1) - 1 = a /\ a + 1 # 1
    BY DEF ValLog
  <1> QED  BY <1>1 DEF ValLog, Begins

ValScan(l, a, d) == Lists(ValgrindErrors(l, a), d) /\ CountDone(l, a)

ValInfo(l, a, d, t) ==
  /\ CountDone(l, a)
  /\ \E i \in 1..a : /\ l[i].k = "header" /\ l[i].t = t /\ t \in Tracked
                     /\ \A j \in (i + 1)..a : l[j].k = "foreign"
                     /\ Lists(ValgrindErrors(l, i - 1), d)

ValFd(l, a, d, n) ==
  /\ a > 0 /\ l[a].k \in {"break", "fds"} /\ n > 0
  /\ FdLeft(l, a, n) /\ Lists(ValgrindErrors(l, a), d)

ValFdNext(l, a, d, n, m) ==
  /\ a > 0 /\ l[a].k = "open" /\ m = l[a].m /\ n \in Nat /\ n > 0
  /\ FdLeft(l, a, n - 1) /\ Lists(ValgrindErrors(l, a - 1), d)

ValVoid(l, a, d, n) ==
  /\ a > 0 /\ l[a].k \notin {"break", "fds"} /\ n \in Nat /\ n > 0
  /\ FdLeft(l, a, n - 1) /\ Lists(ValgrindErrors(l, a), d)

ValDone(l, d) == Lists(ValgrindErrors(l, Len(l)), d)

\* After a lines of l, in the loop m, with the errors d.
ValAt(l, a, m, t, n, msg, d) ==
  /\ ValLog(l) /\ a \in 0..Len(l) /\ d \in Seq(Finding)
  /\ m \in {"scan", "info", "fd", "fd_next", "void_fd", "done"}
  /\ m = "scan" => ValScan(l, a, d)
  /\ m = "info" => ValInfo(l, a, d, t)
  /\ m = "fd" => ValFd(l, a, d, n)
  /\ m = "fd_next" => ValFdNext(l, a, d, n, msg)
  /\ m = "void_fd" => ValVoid(l, a, d, n)
  /\ m = "done" => ValDone(l, d)

ValInv == ValAt(log, at, mode, err_type, nr_fds, err_msg, detected)

\* What a step that reads a line starts from.
LEMMA ValReads ==
  ASSUME ValInv, NEW m, Reads(m)
  PROVE  /\ mode = m /\ at \in Nat /\ at < Len(log) /\ at' = at + 1 /\ log' = log
         /\ at + 1 \in 1..Len(log) /\ at + 1 \in 0..Len(log)
         /\ ValLog(log) /\ line = log[at + 1] /\ line \in ValLine /\ detected \in Seq(Finding)
  <1>1. /\ mode = m /\ at < Len(log) /\ at' = at + 1 /\ log' = log /\ line = log[at + 1]
    BY DEF Reads, line
  <1>2. ValLog(log) /\ at \in 0..Len(log) /\ detected \in Seq(Finding)
    BY DEF ValInv, ValAt
  <1>3. log \in Seq(ValLine)
    BY <1>2 DEF ValLog
  <1>4. at \in Nat /\ at + 1 \in 1..Len(log) /\ at + 1 \in 0..Len(log)
    BY <1>1, <1>2, <1>3
  <1>5. log[at + 1] \in ValLine
    BY <1>3, <1>4
  <1> QED  BY <1>1, <1>2, <1>4, <1>5

\* One line that announces nothing.
LEMMA ValSkipOne ==
  ASSUME NEW l, NEW a \in Nat, NEW d, ~Announces(l, a + 1), Lists(ValgrindErrors(l, a), d)
  PROVE  Lists(ValgrindErrors(l, a + 1), d)
  <1>1. \A j \in (a + 1)..(a + 1) : ~Announces(l, j)
    <2>1. \A j \in (a + 1)..(a + 1) : j = a + 1
      OBVIOUS
    <2> QED  BY <2>1
  <1>2. a \in Int /\ a + 1 \in Nat /\ a <= a + 1
    OBVIOUS
  <1> QED  BY <1>1, <1>2, ValSkip

LEMMA ValScanHeader ==
  ASSUME ValInv, ScanHeader, UNCHANGED fdVars
  PROVE  ValInv'
  <1>1. Reads("scan")
    BY DEF ScanHeader
  <1>2. /\ mode = "scan" /\ at \in Nat /\ at < Len(log) /\ at' = at + 1 /\ log' = log
        /\ at + 1 \in 1..Len(log) /\ at + 1 \in 0..Len(log)
        /\ ValLog(log) /\ line = log[at + 1] /\ line \in ValLine /\ detected \in Seq(Finding)
    BY <1>1, ValReads
  <1>3. /\ log[at + 1].k = "header" /\ log[at + 1].t \in Tracked /\ mode' = "info"
        /\ err_type' = log[at + 1].t /\ detected' = detected
    BY <1>2 DEF ScanHeader, listVars
  <1>4. Lists(ValgrindErrors(log, at), detected) /\ CountDone(log, at)
    BY <1>2 DEF ValInv, ValAt, ValScan
  <1>5. CountDone(log, at + 1)
    BY <1>2, <1>3, <1>4, CountStep
  <1>6. ValInfo(log, at + 1, detected, err_type')
    <2>1. at + 1 \in 1..(at + 1) /\ (at + 1) - 1 = at
          /\ \A j \in ((at + 1) + 1)..(at + 1) : log[j].k = "foreign"
      BY <1>2
    <2> QED  BY <1>3, <1>4, <1>5, <2>1 DEF ValInfo
  <1> QED  BY <1>2, <1>3, <1>6 DEF ValInv, ValAt

LEMMA ValSkipLine ==
  ASSUME ValInv, SkipInValgrind
  PROVE  ValInv'
  <1>1. Reads("scan")
    BY DEF SkipInValgrind
  <1>2. /\ mode = "scan" /\ at \in Nat /\ at < Len(log) /\ at' = at + 1 /\ log' = log
        /\ at + 1 \in 1..Len(log) /\ at + 1 \in 0..Len(log)
        /\ ValLog(log) /\ line = log[at + 1] /\ line \in ValLine /\ detected \in Seq(Finding)
    BY <1>1, ValReads
  <1> DEFINE x == log[at + 1]
  <1>3. /\ \/ x.k \notin {"header", "fds"}
           \/ x.k = "header" /\ x.t \notin Tracked
           \/ x.k = "fds" /\ ERR_FILE_DESCRIPTORS \notin Tracked
        /\ mode' = mode /\ detected' = detected
    BY <1>2 DEF SkipInValgrind, listVars
  <1>4. Lists(ValgrindErrors(log, at), detected) /\ CountDone(log, at)
    BY <1>2 DEF ValInv, ValAt, ValScan
  <1>5. CountDone(log, at + 1)
    <2>1. CASE x.k = "fds"
      BY <1>3, <2>1 DEF CountDone
    <2>2. CASE x.k # "fds"
      BY <1>2, <1>4, <2>2, CountStep
    <2> QED  BY <2>1, <2>2
  <1>6. ASSUME x.k = "open", ERR_FILE_DESCRIPTORS \in Tracked PROVE FALSE
    <2>1. (at + 1) - 1 = at
      BY <1>2
    <2>2. PICK f \in 1..((at + 1) - 1) :
            log[f].k = "fds" /\ Cardinality(Descriptors(log, at + 1)) <= log[f].n
      BY <1>2, <1>6 DEF ValLog
    <2>3. f \in 1..at /\ log[f].k = "fds"
      BY <2>1, <2>2
    <2>4. Cardinality(Descriptors(log, at)) >= log[f].n
      BY <1>4, <1>6, <2>3 DEF CountDone
    <2>5. Cardinality(Descriptors(log, at + 1)) = Cardinality(Descriptors(log, at)) + 1
          /\ Cardinality(Descriptors(log, at)) \in Nat
      BY <1>2, <1>6, DescriptorsStep
    <2>6. log[f] \in ValLine
      BY <1>2, <2>3 DEF ValLog
    <2>7. log[f].n \in Nat
      BY <2>3, <2>6, ValLineType
    <2> HIDE DEF x
    <2> QED  BY <2>2, <2>4, <2>5, <2>7
  <1>7. ~Announces(log, at + 1)
    BY <1>3, <1>6, AnnouncesNothing
  <1>8. Lists(ValgrindErrors(log, at + 1), detected)
    BY <1>2, <1>4, <1>7, ValSkipOne
  <1> QED  BY <1>2, <1>3, <1>5, <1>8 DEF ValInv, ValAt, ValScan

LEMMA ValScanDescriptors ==
  ASSUME ValInv, ScanDescriptors
  PROVE  ValInv'
  <1>1. Reads("scan")
    BY DEF ScanDescriptors
  <1>2. /\ mode = "scan" /\ at \in Nat /\ at < Len(log) /\ at' = at + 1 /\ log' = log
        /\ at + 1 \in 1..Len(log) /\ at + 1 \in 0..Len(log)
        /\ ValLog(log) /\ line = log[at + 1] /\ line \in ValLine /\ detected \in Seq(Finding)
    BY <1>1, ValReads
  <1> DEFINE x == log[at + 1]
  <1>3. /\ x.k = "fds" /\ ERR_FILE_DESCRIPTORS \in Tracked /\ nr_fds' = x.n
        /\ mode' = (IF x.n = 0 THEN "scan" ELSE "fd") /\ detected' = detected
    BY <1>2 DEF ScanDescriptors, listVars
  <1>4. Lists(ValgrindErrors(log, at), detected)
    BY <1>2 DEF ValInv, ValAt, ValScan
  <1>5. Lists(ValgrindErrors(log, at + 1), detected)
    BY <1>2, <1>3, <1>4, AnnouncesNothing, ValSkipOne
  <1>6. Cardinality(Descriptors(log, at + 1)) = 0 /\ x.n \in Nat
    BY <1>2, <1>3, NoneBeforeHeading, ValLineType
  <1>7. at + 1 \in 1..(at + 1) /\ x.n - x.n = 0 /\ at + 1 > 0
    BY <1>2, <1>6
  <1>8. FdLeft(log, at + 1, x.n)
    BY <1>3, <1>6, <1>7 DEF FdLeft
  <1>9. CASE x.n = 0
    <2>1. CountDone(log, at + 1)
      BY <1>2, <1>8, <1>9, NoneLeft
    <2> QED  BY <1>2, <1>3, <1>5, <1>9, <2>1 DEF ValInv, ValAt, ValScan
  <1>10. CASE x.n # 0
    <2>1. x.n > 0
      BY <1>6, <1>10
    <2>2. ValFd(log, at + 1, detected, x.n)
      BY <1>3, <1>5, <1>7, <1>8, <2>1 DEF ValFd
    <2> QED  BY <1>2, <1>3, <1>10, <2>2 DEF ValInv, ValAt
  <1> QED  BY <1>9, <1>10

LEMMA FindingOf ==
  ASSUME NEW t \in ErrType, NEW m \in Message
  PROVE  [err_type |-> t, err_msg |-> m] \in Finding
  BY DEF Finding

\* A call trace continues below its header: no line of it announces an error.
LEMMA FramesAnnounceNothing ==
  ASSUME NEW l, NEW i \in Nat, NEW a \in Nat,
         \A j \in (i + 1)..a : l[j].k = "foreign"
  PROVE  \A j \in (i + 1)..a : ~Announces(l, j)
  <1> SUFFICES ASSUME NEW j \in (i + 1)..a PROVE ~Announces(l, j)
    OBVIOUS
  <1>1. l[j].k = "foreign"
    OBVIOUS
  <1> QED  BY <1>1, AnnouncesNothing

\* The last line of a trace is no break line.
LEMMA InTrace ==
  ASSUME NEW l, NEW i \in Nat, NEW a \in Nat, i <= a, l[i].k = "header",
         \A j \in (i + 1)..a : l[j].k = "foreign"
  PROVE  l[a].k \in {"header", "foreign"}
  <1>1. CASE a = i
    BY <1>1
  <1>2. CASE a # i
    <2>1. a \in (i + 1)..a
      BY <1>2
    <2> QED  BY <2>1
  <1> QED  BY <1>1, <1>2

LEMMA ValGetInfo ==
  ASSUME ValInv, get_info, UNCHANGED fdVars
  PROVE  ValInv'
  <1>1. Reads("info")
    BY DEF get_info
  <1>2. /\ mode = "info" /\ at \in Nat /\ at < Len(log) /\ at' = at + 1 /\ log' = log
        /\ at + 1 \in 1..Len(log) /\ at + 1 \in 0..Len(log)
        /\ ValLog(log) /\ line = log[at + 1] /\ line \in ValLine /\ detected \in Seq(Finding)
    BY <1>1, ValReads
  <1> DEFINE x == log[at + 1]
  <1>3. ValInfo(log, at, detected, err_type)
    BY <1>2 DEF ValInv, ValAt
  <1>4. CountDone(log, at)
    BY <1>3 DEF ValInfo
  <1>5. PICK i \in 1..at : /\ log[i].k = "header" /\ log[i].t = err_type /\ err_type \in Tracked
                           /\ \A j \in (i + 1)..at : log[j].k = "foreign"
                           /\ Lists(ValgrindErrors(log, i - 1), detected)
    BY <1>3 DEF ValInfo
  <1>6. i \in Nat /\ i <= at /\ i \in Nat \ {0} /\ at \in Nat \ {0} /\ i <= at + 1
    BY <1>2
  <1>7. log[at].k \in {"header", "foreign"}
    BY <1>5, <1>6, InTrace
  <1>8. x.k \notin {"header", "fds", "open", "unnamed"}
    BY <1>2, <1>6, <1>7, Continues
  <1>9. CountDone(log, at + 1)
    BY <1>2, <1>4, <1>8, CountStep
  <1>10. log \in Seq(ValLine)
    BY <1>2 DEF ValLog
  <1>11. CASE x.k = "foreign"
    <2>1. mode' = mode /\ err_type' = err_type /\ detected' = detected
      BY <1>2, <1>11 DEF get_info, listVars
    <2>2. \A j \in (i + 1)..(at + 1) : log[j].k = "foreign"
      <3>1. \A j \in (i + 1)..(at + 1) : j = at + 1 \/ j \in (i + 1)..at
        BY <1>2
      <3> QED  BY <1>5, <1>11, <3>1
    <2>3. i \in 1..(at + 1)
      BY <1>2
    <2>4. ValInfo(log, at + 1, detected, err_type)
      BY <1>5, <1>9, <2>2, <2>3 DEF ValInfo
    <2> QED  BY <1>2, <2>1, <2>4 DEF ValInv, ValAt
  <1>12. \A j \in (i + 1)..(at + 1) : ~Announces(log, j)
    <2>1. \A j \in (i + 1)..(at + 1) : j = at + 1 \/ j \in (i + 1)..at
      BY <1>2
    <2>2. \A j \in (i + 1)..at : ~Announces(log, j)
      BY <1>2, <1>5, <1>6, FramesAnnounceNothing
    <2>3. ~Announces(log, at + 1)
      BY <1>8, AnnouncesNothing
    <2> QED  BY <2>1, <2>2, <2>3
  <1>13. CASE x.k = "own"
    <2> DEFINE node == [err_type |-> err_type, err_msg |-> x.m]
    <2>1. mode' = "scan" /\ detected' = Append(detected, node)
      BY <1>2, <1>13 DEF get_info, add
    <2>2. Traces(log, i, at + 1)
      <3>1. i < at + 1 /\ (at + 1) - 1 = at
        BY <1>2
      <3> QED  BY <1>5, <1>13, <3>1 DEF Traces
    <2>3. HasTrace(log, i) /\ Trace(log, i) = x.m
      BY <1>2, <1>6, <1>10, <2>2, TraceOf
    <2>4. Announces(log, i)
      BY <1>5, <2>3 DEF Announces, IsError
    <2>5. x.m \in Message /\ err_type \in ErrType
      BY <1>2, <1>5, <1>13, ValLineType, TrackedAssumption
    <2>6. node \in Finding
      BY <2>5, FindingOf
    <2>7. node = IF log[i].k = "open"
                 THEN [err_type |-> ERR_FILE_DESCRIPTORS, err_msg |-> log[i].m]
                 ELSE [err_type |-> log[i].t, err_msg |-> Trace(log, i)]
      BY <1>5, <2>3
    <2> HIDE DEF node
    <2>8. Lists(ValgrindErrors(log, i), Append(detected, node))
      BY <1>2, <1>5, <1>6, <2>4, <2>6, <2>7, ValAppend
    <2>9. Lists(ValgrindErrors(log, at + 1), Append(detected, node))
      <3>1. i \in Int /\ at + 1 \in Nat
        BY <1>2
      <3> QED  BY <1>6, <1>12, <2>8, <3>1, ValSkip
    <2>10. Append(detected, node) \in Seq(Finding)
      BY <1>2, <2>6
    <2> QED  BY <1>2, <1>9, <2>1, <2>9, <2>10 DEF ValInv, ValAt, ValScan
  <1>14. CASE x.k \notin {"own", "foreign"}
    <2>1. mode' = "scan" /\ detected' = detected
      BY <1>2, <1>14 DEF get_info, listVars
    <2>2. ~HasTrace(log, i)
      <3>1. at <= Len(log)
        BY <1>2
      <3> QED  BY <1>2, <1>5, <1>6, <1>10, <1>14, <3>1, NoTrace
    <2>3. ~Announces(log, i)
      BY <1>5, <2>2 DEF Announces, IsError, IsLeft
    <2>4. \A j \in ((i - 1) + 1)..(at + 1) : ~Announces(log, j)
      <3>1. \A j \in ((i - 1) + 1)..(at + 1) : j = i \/ j \in (i + 1)..(at + 1)
        BY <1>2
      <3> QED  BY <1>12, <2>3, <3>1
    <2>5. i - 1 \in Int /\ at + 1 \in Nat /\ i - 1 <= at + 1
      BY <1>2
    <2>6. Lists(ValgrindErrors(log, at + 1), detected)
      BY <1>5, <2>4, <2>5, ValSkip
    <2> QED  BY <1>2, <1>9, <2>1, <2>6 DEF ValInv, ValAt, ValScan
  <1> QED  BY <1>11, <1>13, <1>14

LEMMA ValFdName ==
  ASSUME ValInv, fd_name
  PROVE  ValInv'
  <1>1. Reads("fd")
    BY DEF fd_name
  <1>2. /\ mode = "fd" /\ at \in Nat /\ at < Len(log) /\ at' = at + 1 /\ log' = log
        /\ at + 1 \in 1..Len(log) /\ at + 1 \in 0..Len(log)
        /\ ValLog(log) /\ line = log[at + 1] /\ line \in ValLine /\ detected \in Seq(Finding)
    BY <1>1, ValReads
  <1> DEFINE x == log[at + 1]
  <1>3. detected' = detected /\ nr_fds' = nr_fds
    BY DEF fd_name, listVars
  <1>4. /\ at > 0 /\ log[at].k \in {"break", "fds"} /\ nr_fds > 0
        /\ FdLeft(log, at, nr_fds) /\ Lists(ValgrindErrors(log, at), detected)
    BY <1>2 DEF ValInv, ValAt, ValFd
  <1>5. x.k \in {"break", "open", "unnamed"}
    <2>1. PICK f \in 1..at :
            log[f].k = "fds" /\ Cardinality(Descriptors(log, at)) = log[f].n - nr_fds
      BY <1>4 DEF FdLeft
    <2>2. nr_fds \in Nat
      BY <1>4 DEF FdLeft
    <2>3. f \in 1..Len(log) /\ at + 1 \in (f + 1)..Len(log) /\ (at + 1) - 1 = at
      BY <1>2
    <2>4. log[f] \in ValLine
      BY <1>2, <2>3 DEF ValLog
    <2>5. log[f].n \in Nat
      BY <2>1, <2>4, ValLineType
    <2>6. Cardinality(Descriptors(log, at)) < log[f].n
      BY <1>4, <2>1, <2>2, <2>5
    <2> QED  BY <1>2, <1>4, <2>1, <2>3, <2>6 DEF ValLog
  <1>6. at + 1 > 0 /\ (at + 1) - 1 = at /\ nr_fds \in Nat
    BY <1>2, <1>4 DEF FdLeft
  <1>7. CASE x.k = "break"
    <2>1. mode' = mode
      BY <1>2, <1>7 DEF fd_name
    <2>2. Lists(ValgrindErrors(log, at + 1), detected)
      BY <1>2, <1>4, <1>7, AnnouncesNothing, ValSkipOne
    <2>3. FdLeft(log, at + 1, nr_fds)
      BY <1>2, <1>4, <1>7, FdLeftStep
    <2>4. ValFd(log, at + 1, detected, nr_fds)
      BY <1>4, <1>6, <1>7, <2>2, <2>3 DEF ValFd
    <2> QED  BY <1>2, <1>3, <2>1, <2>4 DEF ValInv, ValAt
  <1>8. CASE x.k = "unnamed"
    <2>1. mode' = "void_fd"
      BY <1>2, <1>8 DEF fd_name
    <2>2. Lists(ValgrindErrors(log, at + 1), detected)
      BY <1>2, <1>4, <1>8, AnnouncesNothing, ValSkipOne
    <2>3. FdLeft(log, at + 1, nr_fds - 1)
      BY <1>2, <1>4, <1>8, FdLeftStep
    <2>4. ValVoid(log, at + 1, detected, nr_fds)
      BY <1>4, <1>6, <1>8, <2>2, <2>3 DEF ValVoid
    <2> QED  BY <1>2, <1>3, <2>1, <2>4 DEF ValInv, ValAt
  <1>9. CASE x.k = "open"
    <2>1. mode' = "fd_next" /\ err_msg' = x.m
      BY <1>2, <1>9 DEF fd_name
    <2>2. FdLeft(log, at + 1, nr_fds - 1)
      BY <1>2, <1>4, <1>9, FdLeftStep
    <2>3. ValFdNext(log, at + 1, detected, nr_fds, x.m)
      BY <1>4, <1>6, <1>9, <2>2 DEF ValFdNext
    <2> QED  BY <1>2, <1>3, <2>1, <2>3 DEF ValInv, ValAt
  <1> QED  BY <1>5, <1>7, <1>8, <1>9

LEMMA ValFdBelow ==
  ASSUME ValInv, fd_next
  PROVE  ValInv'
  <1>1. Reads("fd_next")
    BY DEF fd_next
  <1>2. /\ mode = "fd_next" /\ at \in Nat /\ at < Len(log) /\ at' = at + 1 /\ log' = log
        /\ at + 1 \in 1..Len(log) /\ at + 1 \in 0..Len(log)
        /\ ValLog(log) /\ line = log[at + 1] /\ line \in ValLine /\ detected \in Seq(Finding)
    BY <1>1, ValReads
  <1> DEFINE x == log[at + 1]
             node == [err_type |-> ERR_FILE_DESCRIPTORS, err_msg |-> log[at].m]
  <1>3. /\ at > 0 /\ log[at].k = "open" /\ err_msg = log[at].m
        /\ nr_fds \in Nat /\ nr_fds > 0
        /\ FdLeft(log, at, nr_fds - 1) /\ Lists(ValgrindErrors(log, at - 1), detected)
    BY <1>2 DEF ValInv, ValAt, ValFdNext
  <1>4. mode' = "void_fd" /\ nr_fds' = nr_fds
    BY DEF fd_next
  <1>5. at \in Nat \ {0} /\ at \in 1..Len(log) /\ at + 1 > 0 /\ at + 1 # 1
        /\ (at + 1) - 1 = at /\ at - 1 \in Nat /\ (at - 1) + 1 = at
    BY <1>2, <1>3
  <1>6. x.k \notin {"header", "fds", "open", "unnamed"}
    BY <1>2, <1>3, <1>5, Continues
  <1>7. x.k # "break"
    <2>1. at + 1 > 1
      BY <1>5
    <2> QED  BY <1>2, <1>3, <1>5, <2>1 DEF ValLog
  <1>8. FdLeft(log, at + 1, nr_fds - 1)
    BY <1>2, <1>3, <1>6, FdLeftStep
  <1>9. ERR_FILE_DESCRIPTORS \in Tracked
    BY <1>3 DEF FdLeft
  <1>10. CASE x.k = "inherited"
    <2>1. detected' = detected
      BY <1>2, <1>10 DEF fd_next, listVars
    <2>2. ~Announces(log, at)
      BY <1>3, <1>10 DEF Announces, IsError, IsLeft
    <2>3. Lists(ValgrindErrors(log, at), detected)
      <3>1. ~Announces(log, (at - 1) + 1)
        BY <1>5, <2>2
      <3>2. Lists(ValgrindErrors(log, (at - 1) + 1), detected)
        BY <1>3, <1>5, <3>1, ValSkipOne
      <3> QED  BY <1>5, <3>2
    <2>4. Lists(ValgrindErrors(log, at + 1), detected)
      BY <1>2, <1>6, <2>3, AnnouncesNothing, ValSkipOne
    <2>5. ValVoid(log, at + 1, detected, nr_fds)
      BY <1>3, <1>5, <1>6, <1>7, <1>8, <2>4 DEF ValVoid
    <2> QED  BY <1>2, <1>4, <2>1, <2>5 DEF ValInv, ValAt
  <1>11. CASE x.k # "inherited"
    <2>1. detected' = Append(detected, node)
      BY <1>2, <1>3, <1>11 DEF fd_next, add
    <2>2. Announces(log, at)
      BY <1>2, <1>3, <1>9, <1>11 DEF Announces, IsLeft
    <2>3. log[at] \in ValLine
      BY <1>2, <1>5 DEF ValLog
    <2>4. log[at].m \in Message
      BY <1>3, <2>3, ValLineType
    <2>5. node \in Finding
      BY <2>4, FindingOf, ValgrindLogAssumption
    <2>6. node = IF log[at].k = "open"
                 THEN [err_type |-> ERR_FILE_DESCRIPTORS, err_msg |-> log[at].m]
                 ELSE [err_type |-> log[at].t, err_msg |-> Trace(log, at)]
      BY <1>3
    <2> HIDE DEF node
    <2>7. Lists(ValgrindErrors(log, at), Append(detected, node))
      BY <1>2, <1>3, <1>5, <2>2, <2>5, <2>6, ValAppend
    <2>8. Lists(ValgrindErrors(log, at + 1), Append(detected, node))
      BY <1>2, <1>6, <2>7, AnnouncesNothing, ValSkipOne
    <2>9. Append(detected, node) \in Seq(Finding)
      BY <1>2, <2>5
    <2>10. ValVoid(log, at + 1, Append(detected, node), nr_fds)
      BY <1>3, <1>5, <1>6, <1>7, <1>8, <2>8 DEF ValVoid
    <2> QED  BY <1>2, <1>4, <2>1, <2>9, <2>10 DEF ValInv, ValAt
  <1> QED  BY <1>10, <1>11

LEMMA ValVoidFd ==
  ASSUME ValInv, void_fd
  PROVE  ValInv'
  <1>1. Reads("void_fd")
    BY DEF void_fd
  <1>2. /\ mode = "void_fd" /\ at \in Nat /\ at < Len(log) /\ at' = at + 1 /\ log' = log
        /\ at + 1 \in 1..Len(log) /\ at + 1 \in 0..Len(log)
        /\ ValLog(log) /\ line = log[at + 1] /\ line \in ValLine /\ detected \in Seq(Finding)
    BY <1>1, ValReads
  <1> DEFINE x == log[at + 1]
  <1>3. /\ at > 0 /\ log[at].k \notin {"break", "fds"} /\ nr_fds \in Nat /\ nr_fds > 0
        /\ FdLeft(log, at, nr_fds - 1) /\ Lists(ValgrindErrors(log, at), detected)
    BY <1>2 DEF ValInv, ValAt, ValVoid
  <1>4. detected' = detected
    BY DEF void_fd, listVars
  <1>5. at \in Nat \ {0} /\ at + 1 > 0
    BY <1>2, <1>3
  <1>6. x.k \notin {"header", "fds", "open", "unnamed"}
    BY <1>2, <1>3, <1>5, Continues
  <1>7. FdLeft(log, at + 1, nr_fds - 1)
    BY <1>2, <1>3, <1>6, FdLeftStep
  <1>8. Lists(ValgrindErrors(log, at + 1), detected)
    BY <1>2, <1>3, <1>6, AnnouncesNothing, ValSkipOne
  <1>9. CASE x.k # "break"
    <2>1. mode' = mode /\ nr_fds' = nr_fds
      BY <1>2, <1>9 DEF void_fd
    <2>2. ValVoid(log, at + 1, detected, nr_fds)
      BY <1>3, <1>5, <1>6, <1>7, <1>8, <1>9 DEF ValVoid
    <2> QED  BY <1>2, <1>4, <2>1, <2>2 DEF ValInv, ValAt
  <1>10. CASE x.k = "break"
    <2>1. nr_fds' = nr_fds - 1 /\ mode' = (IF nr_fds = 1 THEN "scan" ELSE "fd")
      BY <1>2, <1>10 DEF void_fd
    <2>2. CASE nr_fds = 1
      <3>1. nr_fds - 1 = 0
        BY <2>2
      <3>2. CountDone(log, at + 1)
        BY <1>2, <1>7, <3>1, NoneLeft
      <3> QED  BY <1>2, <1>4, <1>8, <2>1, <2>2, <3>2 DEF ValInv, ValAt, ValScan
    <2>3. CASE nr_fds # 1
      <3>1. nr_fds - 1 > 0
        BY <1>3, <2>3
      <3>2. ValFd(log, at + 1, detected, nr_fds - 1)
        BY <1>5, <1>7, <1>8, <1>10, <3>1 DEF ValFd
      <3> QED  BY <1>2, <1>4, <2>1, <2>3, <3>2 DEF ValInv, ValAt
    <2> QED  BY <2>2, <2>3
  <1> QED  BY <1>9, <1>10

LEMMA ValEnd ==
  ASSUME ValInv, EndOfLog
  PROVE  ValInv'
  <1>1. /\ at = Len(log) /\ mode' = "done" /\ log' = log /\ at' = at /\ detected' = detected
        /\ mode # "done"
    BY DEF EndOfLog, listVars
  <1>2. /\ ValLog(log) /\ at \in 0..Len(log) /\ detected \in Seq(Finding)
        /\ mode \in {"scan", "info", "fd", "fd_next", "void_fd", "done"}
    BY DEF ValInv, ValAt
  <1>3. log \in Seq(ValLine)
    BY <1>2 DEF ValLog
  <1>4. at \in Nat /\ Len(log) \in Nat
    BY <1>2, <1>3
  <1>5. Lists(ValgrindErrors(log, at), detected)
    <2>1. CASE mode \in {"scan", "fd", "void_fd"}
      BY <2>1 DEF ValInv, ValAt, ValScan, ValFd, ValVoid
    <2>2. CASE mode = "info"
      <3>1. PICK i \in 1..at : /\ log[i].k = "header"
                               /\ \A j \in (i + 1)..at : log[j].k = "foreign"
                               /\ Lists(ValgrindErrors(log, i - 1), detected)
        BY <2>2 DEF ValInv, ValAt, ValInfo
      <3>2. i \in Nat /\ i <= at /\ i - 1 \in Int /\ i - 1 <= at
        BY <1>4
      <3>3. ~HasTrace(log, i)
        <4>1. at <= Len(log) /\ ~(at < Len(log))
          BY <1>1, <1>4
        <4> QED  BY <1>3, <1>4, <3>1, <3>2, <4>1, NoTrace
      <3>4. ~Announces(log, i)
        BY <3>1, <3>3 DEF Announces, IsError, IsLeft
      <3>5. \A j \in (i + 1)..at : ~Announces(log, j)
        BY <1>4, <3>1, <3>2, FramesAnnounceNothing
      <3>6. \A j \in ((i - 1) + 1)..at : ~Announces(log, j)
        <4>1. \A j \in ((i - 1) + 1)..at : j = i \/ j \in (i + 1)..at
          BY <1>4, <3>2
        <4> QED  BY <3>4, <3>5, <4>1
      <3> QED  BY <1>4, <3>1, <3>2, <3>6, ValSkip
    <2>3. CASE mode = "fd_next"
      <3>1. at > 0 /\ log[at].k = "open" /\ Lists(ValgrindErrors(log, at - 1), detected)
        BY <2>3 DEF ValInv, ValAt, ValFdNext
      <3>2. at - 1 \in Nat /\ (at - 1) + 1 = at /\ ~(at < Len(log))
        BY <1>1, <1>4, <3>1
      <3>3. ~Announces(log, at)
        BY <3>1, <3>2 DEF Announces, IsError, IsLeft
      <3>4. ~Announces(log, (at - 1) + 1)
        BY <3>2, <3>3
      <3>5. Lists(ValgrindErrors(log, (at - 1) + 1), detected)
        BY <3>1, <3>2, <3>4, ValSkipOne
      <3> QED  BY <3>2, <3>5
    <2> QED  BY <1>1, <1>2, <2>1, <2>2, <2>3
  <1>6. ValDone(log, detected)
    BY <1>1, <1>5 DEF ValDone
  <1> QED  BY <1>1, <1>2, <1>6 DEF ValInv, ValAt

LEMMA ValFirst ==
  ASSUME ValInit
  PROVE  ValInv
  <1>1. log \in ValgrindLog /\ at = 0 /\ mode = "scan" /\ detected = <<>>
    BY DEF ValInit, LogInit, ListInit
  <1>2. ValLog(log)
    BY <1>1, ValLogs
  <1>3. log \in Seq(ValLine)
    BY <1>2 DEF ValLog
  <1>4. at \in 0..Len(log) /\ detected \in Seq(Finding)
    BY <1>1, <1>3
  <1>5. DOMAIN ValgrindErrors(log, 0) = {}
    <2>1. DOMAIN ValgrindErrors(log, 0) = {j \in 1..0 : Announces(log, j)}
      BY ValErrorsAre
    <2> QED  BY <2>1
  <1>6. Lists(ValgrindErrors(log, 0), <<>>)
    BY <1>5, ListsNone
  <1>7. CountDone(log, 0)
    BY DEF CountDone
  <1> QED  BY <1>1, <1>2, <1>4, <1>6, <1>7 DEF ValInv, ValAt, ValScan

(***************************************************************************)
(* Where the nested loops of rbc_valgrind.c are in the log, and what they  *)
(* have detected by then: ValInv is an inductive invariant.                *)
(***************************************************************************)
THEOREM ValgrindInvariance == ValSpec => []ValInv
  <1>1. ValInit => ValInv
    BY ValFirst
  <1>2. ValInv /\ [ValNext]_valVars => ValInv'
    <2> SUFFICES ASSUME ValInv, [ValNext]_valVars PROVE ValInv'
      OBVIOUS
    <2>1. CASE ScanDescriptors
      BY <2>1, ValScanDescriptors
    <2>2. CASE SkipInValgrind
      BY <2>2, ValSkipLine
    <2>3. CASE fd_name
      BY <2>3, ValFdName
    <2>4. CASE fd_next
      BY <2>4, ValFdBelow
    <2>5. CASE void_fd
      BY <2>5, ValVoidFd
    <2>6. CASE ScanHeader /\ UNCHANGED fdVars
      BY <2>6, ValScanHeader
    <2>7. CASE get_info /\ UNCHANGED fdVars
      BY <2>7, ValGetInfo
    <2>8. CASE EndOfLog /\ UNCHANGED fdVars
      BY <2>8, ValEnd
    <2>9. CASE UNCHANGED valVars
      BY <2>9 DEF valVars, logVars, listVars, ValInv
    <2> QED  BY <2>1, <2>2, <2>3, <2>4, <2>5, <2>6, <2>7, <2>8, <2>9 DEF ValNext
  <1> QED  BY <1>1, <1>2, PTL DEF ValSpec

(***************************************************************************)
(* From every log valgrind may write, whatever its length and wherever it  *)
(* is cut off, the Valgrind module detects exactly the tracked errors with *)
(* a frame in the program and the descriptors the program opened, in the   *)
(* order of the file.                                                      *)
(***************************************************************************)
THEOREM ValgrindAllRead == ValSpec => []ValgrindReadsAll
  <1>1. ValInv => ValgrindReadsAll
    BY DEF ValInv, ValAt, ValDone, ValgrindReadsAll
  <1> QED  BY <1>1, ValgrindInvariance, PTL

-----------------------------------------------------------------------------
(* Helgrind *)

LEMMA HelLineType ==
  ASSUME NEW x \in HelLine
  PROVE  /\ x.k = "header" => x.t \in ErrType
         /\ x.k \in {"own", "holds"} => x.m \in Message
         /\ x.k \in {"header", "own", "foreign", "bare", "break", "text", "race",
                     "conflicts", "holds"}
  BY DEF HelLine, GrindLine

\* What the assumption says of one log.
HelLog(l) ==
  /\ l \in Seq(HelLine)
  /\ \A j \in 1..Len(l) : /\ l[j].k \in {"header", "race", "holds"} => Begins(l, j)
                          /\ l[j].k \in {"own", "foreign"} => ~Begins(l, j)

LEMMA HelLogs ==
  ASSUME NEW l \in HelgrindLog
  PROVE  HelLog(l)
  BY HelgrindLogAssumption DEF HelLog

LEMMA HelContinues ==
  ASSUME NEW l, HelLog(l), NEW a \in Nat \ {0}, a < Len(l)
  PROVE  /\ l[a].k # "break" => l[a + 1].k \notin {"header", "race", "holds"}
         /\ l[a].k = "break" => l[a + 1].k \notin {"own", "foreign"}
  <1>1. a + 1 \in 1..Len(l) /\ (a + 1) - 1 = a /\ a + 1 # 1
    BY DEF HelLog
  <1> QED  BY <1>1 DEF HelLog, Begins

LEMMA AccessUnique ==
  ASSUME NEW l, NEW i \in Nat, NEW j \in Nat, NEW n \in Nat,
         FirstAccess(l, i, j), FirstAccess(l, i, n)
  PROVE  j = n
  <1>1. l[j].k \notin {"own", "foreign"} /\ l[n].k \notin {"own", "foreign"} /\ i < j /\ i < n
    BY DEF FirstAccess
  <1>2. ~(j < n)
    <2>1. SUFFICES ASSUME j < n PROVE FALSE
      OBVIOUS
    <2>2. j \in (i + 1)..(n - 1)
      BY <1>1, <2>1
    <2> QED  BY <1>1, <2>2 DEF FirstAccess
  <1>3. ~(n < j)
    <2>1. SUFFICES ASSUME n < j PROVE FALSE
      OBVIOUS
    <2>2. n \in (i + 1)..(j - 1)
      BY <1>1, <2>1
    <2> QED  BY <1>1, <2>2 DEF FirstAccess
  <1> QED  BY <1>2, <1>3

-----------------------------------------------------------------------------
(* The lines that are swallowed: the choice in Swallowed is possible, since  *)
(* whether a line is swallowed depends on earlier lines only.                *)

Handed(l) == {i \in 1..Len(l) : \E h \in 1..Len(l) : Hands(l, h, i)}

\* S is the answer for the first n lines.
Settles(l, n, S) ==
  /\ S \subseteq Handed(l) \cap (1..n)
  /\ \A i \in Handed(l) \cap (1..n) : i \in S <=> \E h \in (1..Len(l)) \ S : Hands(l, h, i)

Settled(l, n) == \E S : Settles(l, n, S)

LEMMA SettleNone ==
  ASSUME NEW l
  PROVE  Settled(l, 0)
  <1>1. Settles(l, 0, {})
    BY DEF Settles
  <1> QED  BY <1>1 DEF Settled

LEMMA SettleOne ==
  ASSUME NEW l, HelLog(l), NEW n \in Nat, Settled(l, n)
  PROVE  Settled(l, n + 1)
  <1>1. PICK S : Settles(l, n, S)
    BY DEF Settled
  <1> DEFINE H(i, T) == \E h \in (1..Len(l)) \ T : Hands(l, h, i)
             U == {n + 1}
             T == IF n + 1 \in Handed(l) /\ H(n + 1, S) THEN S \cup U ELSE S
  <1>2. \A h, i : Hands(l, h, i) => h < i
    BY DEF Hands
  <1>3. S \subseteq T /\ T \subseteq S \cup U
    OBVIOUS
  <1>4. Handed(l) \subseteq 1..Len(l)
    BY DEF Handed
  <1>5. S \subseteq Handed(l) /\ S \subseteq 1..n
    BY <1>1 DEF Settles
  <1>6. Len(l) \in Nat
    BY DEF HelLog
  <1>7. ASSUME NEW i \in Nat, i <= n + 1 PROVE H(i, S) <=> H(i, T)
    <2>1. ASSUME NEW h \in 1..Len(l), Hands(l, h, i) PROVE h \in S <=> h \in T
      <3>1. h < i
        BY <1>2, <2>1
      <3>2. h # n + 1
        BY <1>7, <3>1
      <3> QED  BY <1>3, <3>2
    <2> QED  BY <2>1
  <1>8. ASSUME NEW i \in Handed(l) \cap (1..n) PROVE i \in T <=> H(i, T)
    <2>1. i \in Nat /\ i <= n + 1 /\ i # n + 1
      BY <1>4
    <2>2. i \in S <=> i \in T
      BY <1>3, <2>1
    <2>3. i \in S <=> H(i, S)
      BY <1>1 DEF Settles
    <2> QED  BY <1>7, <2>1, <2>2, <2>3
  <1>9. ASSUME n + 1 \in Handed(l) PROVE n + 1 \in T <=> H(n + 1, T)
    <2>1. n + 1 \notin S
      BY <1>5
    <2>2. H(n + 1, S) <=> H(n + 1, T)
      BY <1>7
    <2>3. n + 1 \in T <=> H(n + 1, S)
      BY <1>9, <2>1
    <2> QED  BY <2>2, <2>3
  <1>10. T \subseteq Handed(l) \cap (1..(n + 1))
    <2>1. 1..n \subseteq 1..(n + 1) /\ n + 1 \in 1..(n + 1)
      OBVIOUS
    <2>2. n + 1 \in T => n + 1 \in Handed(l)
      BY <1>5
    <2> QED  BY <1>3, <1>5, <2>1, <2>2
  <1> HIDE DEF T
  <1>11. ASSUME NEW i \in Handed(l) \cap (1..(n + 1)) PROVE i \in T <=> H(i, T)
    <2>1. i = n + 1 \/ i \in 1..n
      OBVIOUS
    <2>2. CASE i = n + 1
      BY <1>9, <2>2
    <2>3. CASE i \in 1..n
      BY <1>8, <2>3
    <2> QED  BY <2>1, <2>2, <2>3
  <1>12. Settles(l, n + 1, T)
    BY <1>10, <1>11 DEF Settles
  <1> QED  BY <1>12 DEF Settled

LEMMA SettleAll ==
  ASSUME NEW l, HelLog(l)
  PROVE  Settled(l, Len(l))
  <1>1. Len(l) \in Nat
    BY DEF HelLog
  <1> DEFINE hits == {n \in Nat : ~Settled(l, n)}
  <1>2. SUFFICES ASSUME ~Settled(l, Len(l)) PROVE FALSE
    OBVIOUS
  <1>3. hits # {} /\ hits \in SUBSET Nat
    BY <1>1, <1>2
  <1> HIDE DEF hits
  <1>4. PICK w \in hits : \A j \in hits : w <= j
    BY <1>3, LeastOf
  <1>5. w \in Nat /\ ~Settled(l, w)
    BY DEF hits
  <1>6. w # 0
    BY <1>5, SettleNone
  <1>7. w - 1 \in Nat /\ ~(w <= w - 1) /\ (w - 1) + 1 = w
    BY <1>5, <1>6
  <1>8. Settled(l, w - 1)
    BY <1>4, <1>7 DEF hits
  <1>9. Settled(l, (w - 1) + 1)
    BY <1>7, <1>8, SettleOne
  <1> QED  BY <1>5, <1>7, <1>9

\* A line is swallowed exactly when a race that is not swallowed hands it over.
LEMMA SwallowedIs ==
  ASSUME NEW l, HelLog(l)
  PROVE  /\ Swallowed(l) \subseteq 1..Len(l)
         /\ \A i \in 1..Len(l) :
              i \in Swallowed(l) <=> \E h \in (1..Len(l)) \ Swallowed(l) : Hands(l, h, i)
  <1> DEFINE Q(S) == \A i \in Handed(l) : i \in S <=> \E h \in (1..Len(l)) \ S : Hands(l, h, i)
  <1>1. PICK S : Settles(l, Len(l), S)
    BY SettleAll DEF Settled
  <1>2. Handed(l) \cap (1..Len(l)) = Handed(l)
    BY DEF Handed
  <1>3. S \in SUBSET Handed(l) /\ Q(S)
    BY <1>1, <1>2 DEF Settles
  <1>4. Swallowed(l) = CHOOSE T \in SUBSET Handed(l) : Q(T)
    BY DEF Swallowed, Handed
  <1> HIDE DEF Q
  <1>5. Swallowed(l) \in SUBSET Handed(l) /\ Q(Swallowed(l))
    BY <1>3, <1>4
  <1>6. ASSUME NEW i \in 1..Len(l)
        PROVE  i \in Swallowed(l) <=> \E h \in (1..Len(l)) \ Swallowed(l) : Hands(l, h, i)
    <2>1. CASE i \in Handed(l)
      BY <1>5, <2>1 DEF Q
    <2>2. CASE i \notin Handed(l)
      <3>1. \A h \in 1..Len(l) : ~Hands(l, h, i)
        BY <2>2 DEF Handed
      <3> QED  BY <1>5, <2>2, <3>1
    <2> QED  BY <2>1, <2>2
  <1>7. Handed(l) \subseteq 1..Len(l)
    BY DEF Handed
  <1> QED  BY <1>5, <1>6, <1>7

\* Every race that data_race was called for has ended its first access.
RaceDone(l, a) ==
  \A h \in 1..a :
    l[h].k = "race" /\ ERR_DATA_RACE \in Tracked /\ h \notin Swallowed(l) =>
      \E n \in (h + 1)..a : l[n].k \notin {"own", "foreign"}

LEMMA DoneNext ==
  ASSUME NEW l, HelLog(l), NEW a \in Nat, a + 2 \in 1..Len(l), RaceDone(l, a)
  PROVE  a + 2 \notin Swallowed(l)
  <1> SUFFICES ASSUME a + 2 \in Swallowed(l) PROVE FALSE
    OBVIOUS
  <1>1. PICK h \in (1..Len(l)) \ Swallowed(l) : Hands(l, h, a + 2)
    BY SwallowedIs
  <1>2. (a + 2) - 1 = a + 1
    OBVIOUS
  <1>3. /\ ERR_DATA_RACE \in Tracked /\ l[h].k = "race" /\ FirstAccess(l, h, a + 1)
    BY <1>1, <1>2 DEF Hands, Unpaired
  <1>4. h < a + 1 /\ \A n \in (h + 1)..((a + 1) - 1) : l[n].k \in {"own", "foreign"}
    BY <1>3 DEF FirstAccess
  <1>5. h \in 1..a /\ (a + 1) - 1 = a
    BY <1>4
  <1>6. PICK n \in (h + 1)..a : l[n].k \notin {"own", "foreign"}
    BY <1>1, <1>3, <1>5 DEF RaceDone
  <1> QED  BY <1>4, <1>5, <1>6

LEMMA DoneStep ==
  ASSUME NEW l, NEW a \in Nat, RaceDone(l, a),
         l[a + 1].k # "race" \/ ERR_DATA_RACE \notin Tracked \/ a + 1 \in Swallowed(l)
  PROVE  RaceDone(l, a + 1)
  <1> SUFFICES ASSUME NEW h \in 1..(a + 1), l[h].k = "race", ERR_DATA_RACE \in Tracked,
                      h \notin Swallowed(l)
               PROVE  \E n \in (h + 1)..(a + 1) : l[n].k \notin {"own", "foreign"}
    BY DEF RaceDone
  <1>1. h # a + 1
    OBVIOUS
  <1>2. h \in 1..a
    BY <1>1
  <1>3. PICK n \in (h + 1)..a : l[n].k \notin {"own", "foreign"}
    BY <1>2 DEF RaceDone
  <1>4. n \in (h + 1)..(a + 1)
    BY <1>2
  <1> QED  BY <1>3, <1>4

\* The first access of the race at line i ends at line a.
LEMMA DoneRace ==
  ASSUME NEW l, NEW i \in Nat \ {0}, NEW a \in Nat, i < a, RaceDone(l, i - 1),
         \A n \in (i + 1)..(a - 1) : l[n].k \in {"own", "foreign"},
         l[a].k \notin {"own", "foreign", "race"}
  PROVE  RaceDone(l, a)
  <1> SUFFICES ASSUME NEW h \in 1..a, l[h].k = "race", ERR_DATA_RACE \in Tracked,
                      h \notin Swallowed(l)
               PROVE  \E n \in (h + 1)..a : l[n].k \notin {"own", "foreign"}
    BY DEF RaceDone
  <1>1. h \in 1..(i - 1) \/ h = i \/ h \in (i + 1)..(a - 1) \/ h = a
    OBVIOUS
  <1>2. CASE h \in 1..(i - 1)
    <2>1. PICK n \in (h + 1)..(i - 1) : l[n].k \notin {"own", "foreign"}
      BY <1>2 DEF RaceDone
    <2>2. n \in (h + 1)..a
      BY <1>2
    <2> QED  BY <2>1, <2>2
  <1>3. CASE h = i
    <2>1. a \in (h + 1)..a
      BY <1>3
    <2> QED  BY <2>1
  <1>4. CASE h \in (i + 1)..(a - 1)
    <2>1. l[h].k \in {"own", "foreign"}
      BY <1>4
    <2> QED  BY <2>1
  <1> QED  BY <1>1, <1>2, <1>3, <1>4

-----------------------------------------------------------------------------

Heard(l, j) == Detectable(l, j) /\ j \notin Swallowed(l)

LEMMA HelErrorsAre ==
  ASSUME NEW l, NEW n
  PROVE  /\ DOMAIN HelgrindErrors(l, n) = {j \in 1..n : Heard(l, j)}
         /\ \A i \in DOMAIN HelgrindErrors(l, n) : HelgrindErrors(l, n)[i] = ErrorAt(l, i)
  BY DEF HelgrindErrors, Heard

LEMMA HelSkip ==
  ASSUME NEW l, NEW a \in Int, NEW b \in Nat, a <= b, NEW d,
         \A j \in (a + 1)..b : ~Heard(l, j),
         Lists(HelgrindErrors(l, a), d)
  PROVE  Lists(HelgrindErrors(l, b), d)
  <1> DEFINE e == HelgrindErrors(l, a)
             f == HelgrindErrors(l, b)
  <1>1. ASSUME NEW j PROVE j \in {q \in 1..a : Heard(l, q)}
                             <=> j \in {q \in 1..b : Heard(l, q)}
    <2>1. j \in 1..b => j \in 1..a \/ j \in (a + 1)..b
      OBVIOUS
    <2>2. j \in 1..a => j \in 1..b
      OBVIOUS
    <2> QED  BY <2>1, <2>2
  <1>2. DOMAIN f = DOMAIN e
    BY <1>1, HelErrorsAre
  <1>3. \A i \in DOMAIN e : f[i] = e[i]
    BY <1>2, HelErrorsAre
  <1> QED  BY <1>2, <1>3, ListsSame

LEMMA HelSkipOne ==
  ASSUME NEW l, NEW a \in Nat, NEW d, ~Heard(l, a + 1), Lists(HelgrindErrors(l, a), d)
  PROVE  Lists(HelgrindErrors(l, a + 1), d)
  <1>1. \A j \in (a + 1)..(a + 1) : ~Heard(l, j)
    <2>1. \A j \in (a + 1)..(a + 1) : j = a + 1
      OBVIOUS
    <2> QED  BY <2>1
  <1>2. a \in Int /\ a + 1 \in Nat /\ a <= a + 1
    OBVIOUS
  <1> QED  BY <1>1, <1>2, HelSkip

LEMMA HelAppend ==
  ASSUME NEW l, NEW i \in Nat \ {0}, NEW d \in Seq(Finding), NEW x \in Finding,
         Heard(l, i), x = ErrorAt(l, i), Lists(HelgrindErrors(l, i - 1), d)
  PROVE  Lists(HelgrindErrors(l, i), Append(d, x))
  <1> DEFINE e == HelgrindErrors(l, i - 1)
             f == HelgrindErrors(l, i)
  <1>1. 1..i = (1..(i - 1)) \cup {i}
    OBVIOUS
  <1>2. DOMAIN e = {j \in 1..(i - 1) : Heard(l, j)}
    BY HelErrorsAre
  <1>3. DOMAIN f = {j \in 1..i : Heard(l, j)}
    BY HelErrorsAre
  <1>4. DOMAIN f = DOMAIN e \cup {i}
    BY <1>1, <1>2, <1>3
  <1>5. ASSUME NEW j \in DOMAIN e PROVE f[j] = e[j]
    <2>1. j \in DOMAIN f
      BY <1>4
    <2>2. e[j] = ErrorAt(l, j)
      BY HelErrorsAre
    <2>3. f[j] = ErrorAt(l, j)
      BY <2>1, HelErrorsAre
    <2> QED  BY <2>2, <2>3
  <1>6. f[i] = x
    BY <1>4, HelErrorsAre
  <1>7. DOMAIN e \subseteq 1..(i - 1)
    BY <1>2
  <1> HIDE DEF e, f
  <1>8. Lists(e, d)
    BY DEF e
  <1>9. Lists(f, Append(d, x))
    BY <1>4, <1>5, <1>6, <1>7, <1>8, ListsAppend
  <1> QED  BY <1>9 DEF f

LEMMA HeardNothing ==
  ASSUME NEW l, NEW j, l[j].k \notin {"header", "race", "holds"}
  PROVE  ~Heard(l, j)
  BY DEF Heard, Detectable, IsError, IsPaired

\* A race whose first access ends otherwise than with "This conflicts with",
\* or whose second one has no own frame, is not detectable.
LEMMA NotPaired ==
  ASSUME NEW l, HelLog(l), NEW i \in Nat, NEW j \in 1..Len(l), l[i].k = "race",
         FirstAccess(l, i, j), l[j].k = "break" \/ ~HasTrace(l, j)
  PROVE  ~Heard(l, i)
  <1>1. ASSUME NEW q \in 1..Len(l), FirstAccess(l, i, q), l[q].k = "conflicts", HasTrace(l, q)
        PROVE  FALSE
    <2>1. q = j
      BY <1>1, AccessUnique
    <2> QED  BY <1>1, <2>1
  <1>2. ~IsPaired(l, i, TRUE)
    BY <1>1 DEF IsPaired
  <1> QED  BY <1>2 DEF Heard, Detectable, IsError

\* The first access of the race at line i reaches line a and no further line
\* ends it.
LEMMA NoAccess ==
  ASSUME NEW l, HelLog(l), NEW i \in Nat, NEW a \in Nat, i <= a, a <= Len(l), l[i].k = "race",
         \A n \in (i + 1)..a : l[n].k \in {"own", "foreign"},
         a < Len(l) => l[a + 1].k \notin {"own", "foreign", "conflicts", "break"}
  PROVE  ~Heard(l, i)
  <1>0. Len(l) \in Nat
    BY DEF HelLog
  <1>1. ASSUME NEW j \in 1..Len(l), FirstAccess(l, i, j) PROVE FALSE
    <2>1. /\ l[j].k \in {"conflicts", "break"} /\ i < j
          /\ \A n \in (i + 1)..(j - 1) : l[n].k \in {"own", "foreign"}
      BY <1>1 DEF FirstAccess
    <2>2. ~(j <= a)
      <3>1. SUFFICES ASSUME j <= a PROVE FALSE
        OBVIOUS
      <3>2. j \in (i + 1)..a
        BY <2>1, <3>1
      <3>3. l[j].k \in {"own", "foreign"}
        BY <3>2
      <3> QED  BY <2>1, <3>3
    <2>3. a + 1 = j \/ a + 1 \in (i + 1)..(j - 1)
      BY <2>2
    <2>4. a < Len(l)
      BY <1>0, <2>2
    <2> QED  BY <2>1, <2>3, <2>4
  <1>2. ~IsPaired(l, i, TRUE)
    BY <1>1 DEF IsPaired
  <1> QED  BY <1>2 DEF Heard, Detectable, IsError

-----------------------------------------------------------------------------

HelScan(l, a, d) == /\ Lists(HelgrindErrors(l, a), d) /\ RaceDone(l, a)
                    /\ a + 1 \notin Swallowed(l)

HelInfo(l, a, d, t) ==
  /\ RaceDone(l, a)
  /\ \E i \in 1..a : /\ l[i].k = "header" /\ l[i].t = t /\ t \in Tracked
                     /\ i \notin Swallowed(l)
                     /\ \A j \in (i + 1)..a : l[j].k = "foreign"
                     /\ Lists(HelgrindErrors(l, i - 1), d)

\* Line i is a race that data_race is called for.
Called(l, i) == l[i].k = "race" /\ ERR_DATA_RACE \in Tracked /\ i \notin Swallowed(l)

OwnIn(l, i, a) == \E n \in i..a : l[n].k = "own"

HelRace(l, a, d, f) ==
  \E i \in 1..a : /\ Called(l, i) /\ RaceDone(l, i - 1)
                  /\ \A n \in (i + 1)..a : l[n].k \in {"own", "foreign"}
                  /\ f <=> OwnIn(l, i, a)
                  /\ Lists(HelgrindErrors(l, i - 1), d)

HelConflicts(l, a, d, f) ==
  /\ RaceDone(l, a)
  /\ \E i \in 1..a : \E j \in 1..a :
       /\ Called(l, i) /\ FirstAccess(l, i, j)
       /\ l[j].k = "break" => a = j
       /\ \A n \in (j + 1)..a : l[n].k = "foreign"
       /\ f <=> OwnIn(l, i, j)
       /\ Lists(HelgrindErrors(l, i - 1), d)

HelUndefined(l, a, d) ==
  \E i \in 1..a : IsPaired(l, i, FALSE) /\ Lists(HelgrindErrors(l, i - 1), d)

HelDone(l, d) == Lists(HelgrindErrors(l, Len(l)), d)

HelAt(l, a, m, t, f, d) ==
  /\ HelLog(l) /\ a \in 0..Len(l) /\ d \in Seq(Finding) /\ f \in BOOLEAN
  /\ m \in {"scan", "info", "race", "conflicts_with", "undefined", "done"}
  /\ m = "scan" => HelScan(l, a, d)
  /\ m = "info" => HelInfo(l, a, d, t)
  /\ m = "race" => HelRace(l, a, d, f)
  /\ m = "conflicts_with" => HelConflicts(l, a, d, f)
  /\ m = "undefined" => HelUndefined(l, a, d)
  /\ m = "done" => HelDone(l, d)

HelInv == HelAt(log, at, mode, err_type, found_a_file, detected)

LEMMA HelReads ==
  ASSUME HelInv, NEW m, Reads(m)
  PROVE  /\ mode = m /\ at \in Nat /\ at < Len(log) /\ at' = at + 1 /\ log' = log
         /\ at + 1 \in 1..Len(log) /\ at + 1 \in 0..Len(log)
         /\ HelLog(log) /\ line = log[at + 1] /\ line \in HelLine /\ detected \in Seq(Finding)
         /\ found_a_file \in BOOLEAN
  <1>1. /\ mode = m /\ at < Len(log) /\ at' = at + 1 /\ log' = log /\ line = log[at + 1]
    BY DEF Reads, line
  <1>2. /\ HelLog(log) /\ at \in 0..Len(log) /\ detected \in Seq(Finding)
        /\ found_a_file \in BOOLEAN
    BY DEF HelInv, HelAt
  <1>3. log \in Seq(HelLine)
    BY <1>2 DEF HelLog
  <1>4. at \in Nat /\ at + 1 \in 1..Len(log) /\ at + 1 \in 0..Len(log)
    BY <1>1, <1>2, <1>3
  <1>5. log[at + 1] \in HelLine
    BY <1>3, <1>4
  <1> QED  BY <1>1, <1>2, <1>4, <1>5

\* After the last line there is none to swallow.
LEMMA DoneAfter ==
  ASSUME NEW l, HelLog(l), NEW a \in Nat, RaceDone(l, a)
  PROVE  (a + 1) + 1 \notin Swallowed(l)
  <1>1. CASE a + 2 \in 1..Len(l)
    <2>1. a + 2 \notin Swallowed(l) /\ (a + 1) + 1 = a + 2
      BY <1>1, DoneNext
    <2> QED  BY <2>1
  <1>2. CASE a + 2 \notin 1..Len(l)
    <2>1. Swallowed(l) \subseteq 1..Len(l)
      BY SwallowedIs
    <2>2. (a + 1) + 1 = a + 2
      OBVIOUS
    <2> QED  BY <1>2, <2>1, <2>2
  <1> QED  BY <1>1, <1>2

LEMMA HelScanHeader ==
  ASSUME HelInv, ScanHeader, UNCHANGED found_a_file
  PROVE  HelInv'
  <1>1. Reads("scan")
    BY DEF ScanHeader
  <1>2. /\ mode = "scan" /\ at \in Nat /\ at < Len(log) /\ at' = at + 1 /\ log' = log
        /\ at + 1 \in 1..Len(log) /\ at + 1 \in 0..Len(log)
        /\ HelLog(log) /\ line = log[at + 1] /\ line \in HelLine /\ detected \in Seq(Finding)
        /\ found_a_file \in BOOLEAN
    BY <1>1, HelReads
  <1>3. /\ log[at + 1].k = "header" /\ log[at + 1].t \in Tracked /\ mode' = "info"
        /\ err_type' = log[at + 1].t /\ detected' = detected /\ found_a_file' = found_a_file
    BY <1>2 DEF ScanHeader, listVars
  <1>4. /\ Lists(HelgrindErrors(log, at), detected) /\ RaceDone(log, at)
        /\ at + 1 \notin Swallowed(log)
    BY <1>2 DEF HelInv, HelAt, HelScan
  <1>5. RaceDone(log, at + 1)
    BY <1>2, <1>3, <1>4, DoneStep
  <1>6. HelInfo(log, at + 1, detected, err_type')
    <2>1. at + 1 \in 1..(at + 1) /\ (at + 1) - 1 = at
          /\ \A j \in ((at + 1) + 1)..(at + 1) : log[j].k = "foreign"
      BY <1>2
    <2> QED  BY <1>3, <1>4, <1>5, <2>1 DEF HelInfo
  <1> QED  BY <1>2, <1>3, <1>6 DEF HelInv, HelAt

LEMMA HelScanRace ==
  ASSUME HelInv, ScanRace
  PROVE  HelInv'
  <1>1. Reads("scan")
    BY DEF ScanRace
  <1>2. /\ mode = "scan" /\ at \in Nat /\ at < Len(log) /\ at' = at + 1 /\ log' = log
        /\ at + 1 \in 1..Len(log) /\ at + 1 \in 0..Len(log)
        /\ HelLog(log) /\ line = log[at + 1] /\ line \in HelLine /\ detected \in Seq(Finding)
        /\ found_a_file \in BOOLEAN
    BY <1>1, HelReads
  <1>3. /\ log[at + 1].k = "race" /\ ERR_DATA_RACE \in Tracked /\ mode' = "race"
        /\ found_a_file' = FALSE /\ detected' = detected
    BY <1>2 DEF ScanRace, listVars
  <1>4. /\ Lists(HelgrindErrors(log, at), detected) /\ RaceDone(log, at)
        /\ at + 1 \notin Swallowed(log)
    BY <1>2 DEF HelInv, HelAt, HelScan
  <1>5. at + 1 \in 1..(at + 1) /\ (at + 1) - 1 = at
    BY <1>2
  <1>6. \A n \in ((at + 1) + 1)..(at + 1) : log[n].k \in {"own", "foreign"}
    BY <1>2
  <1>7. ~OwnIn(log, at + 1, at + 1)
    <2>1. \A n \in (at + 1)..(at + 1) : n = at + 1
      BY <1>2
    <2> QED  BY <1>3, <2>1 DEF OwnIn
  <1>8. Called(log, at + 1)
    BY <1>3, <1>4 DEF Called
  <1>9. HelRace(log, at + 1, detected, FALSE)
    BY <1>4, <1>5, <1>6, <1>7, <1>8 DEF HelRace
  <1> QED  BY <1>2, <1>3, <1>9 DEF HelInv, HelAt

LEMMA HelScanHold ==
  ASSUME HelInv, ScanHold
  PROVE  HelInv'
  <1>1. Reads("scan")
    BY DEF ScanHold
  <1>2. /\ mode = "scan" /\ at \in Nat /\ at < Len(log) /\ at' = at + 1 /\ log' = log
        /\ at + 1 \in 1..Len(log) /\ at + 1 \in 0..Len(log)
        /\ HelLog(log) /\ line = log[at + 1] /\ line \in HelLine /\ detected \in Seq(Finding)
        /\ found_a_file \in BOOLEAN
    BY <1>1, HelReads
  <1> DEFINE x == log[at + 1]
             node == [err_type |-> ERR_HOLD_LOCK, err_msg |-> x.m]
  <1>3. /\ x.k = "holds" /\ ERR_HOLD_LOCK \in Tracked /\ mode' = mode
        /\ detected' = Append(detected, node) /\ found_a_file' = found_a_file
    BY <1>2 DEF ScanHold, add
  <1>4. /\ Lists(HelgrindErrors(log, at), detected) /\ RaceDone(log, at)
        /\ at + 1 \notin Swallowed(log)
    BY <1>2 DEF HelInv, HelAt, HelScan
  <1>5. RaceDone(log, at + 1)
    BY <1>2, <1>3, <1>4, DoneStep
  <1>6. (at + 1) + 1 \notin Swallowed(log)
    BY <1>2, <1>4, DoneAfter
  <1>7. x.m \in Message
    BY <1>2, <1>3, HelLineType
  <1>8. node \in Finding
    BY <1>7, FindingOf, HelgrindLogAssumption
  <1>9. Heard(log, at + 1)
    BY <1>3, <1>4 DEF Heard, Detectable
  <1>10. node = ErrorAt(log, at + 1)
    BY <1>3 DEF ErrorAt
  <1>11. at + 1 \in Nat \ {0} /\ (at + 1) - 1 = at
    BY <1>2
  <1> HIDE DEF node
  <1>12. Lists(HelgrindErrors(log, at + 1), Append(detected, node))
    BY <1>2, <1>4, <1>8, <1>9, <1>10, <1>11, HelAppend
  <1>13. Append(detected, node) \in Seq(Finding)
    BY <1>2, <1>8
  <1> QED  BY <1>2, <1>3, <1>5, <1>6, <1>12, <1>13 DEF HelInv, HelAt, HelScan

LEMMA HelSkipLine ==
  ASSUME HelInv, SkipInHelgrind
  PROVE  HelInv'
  <1>1. Reads("scan")
    BY DEF SkipInHelgrind
  <1>2. /\ mode = "scan" /\ at \in Nat /\ at < Len(log) /\ at' = at + 1 /\ log' = log
        /\ at + 1 \in 1..Len(log) /\ at + 1 \in 0..Len(log)
        /\ HelLog(log) /\ line = log[at + 1] /\ line \in HelLine /\ detected \in Seq(Finding)
        /\ found_a_file \in BOOLEAN
    BY <1>1, HelReads
  <1> DEFINE x == log[at + 1]
  <1>3. /\ x.k = "header" => x.t \notin Tracked
        /\ x.k = "race" => ERR_DATA_RACE \notin Tracked
        /\ x.k = "holds" => ERR_HOLD_LOCK \notin Tracked
        /\ mode' = mode /\ detected' = detected /\ found_a_file' = found_a_file
    BY <1>2 DEF SkipInHelgrind, listVars
  <1>4. /\ Lists(HelgrindErrors(log, at), detected) /\ RaceDone(log, at)
        /\ at + 1 \notin Swallowed(log)
    BY <1>2 DEF HelInv, HelAt, HelScan
  <1>5. RaceDone(log, at + 1)
    BY <1>2, <1>3, <1>4, DoneStep
  <1>6. (at + 1) + 1 \notin Swallowed(log)
    BY <1>2, <1>4, DoneAfter
  <1>7. ~Heard(log, at + 1)
    BY <1>3 DEF Heard, Detectable, IsError, IsPaired
  <1>8. Lists(HelgrindErrors(log, at + 1), detected)
    BY <1>2, <1>4, <1>7, HelSkipOne
  <1> QED  BY <1>2, <1>3, <1>5, <1>6, <1>8 DEF HelInv, HelAt, HelScan

LEMMA HelGetInfo ==
  ASSUME HelInv, get_info, UNCHANGED found_a_file
  PROVE  HelInv'
  <1>1. Reads("info")
    BY DEF get_info
  <1>2. /\ mode = "info" /\ at \in Nat /\ at < Len(log) /\ at' = at + 1 /\ log' = log
        /\ at + 1 \in 1..Len(log) /\ at + 1 \in 0..Len(log)
        /\ HelLog(log) /\ line = log[at + 1] /\ line \in HelLine /\ detected \in Seq(Finding)
        /\ found_a_file \in BOOLEAN
    BY <1>1, HelReads
  <1> DEFINE x == log[at + 1]
  <1>3. HelInfo(log, at, detected, err_type)
    BY <1>2 DEF HelInv, HelAt
  <1>4. RaceDone(log, at)
    BY <1>3 DEF HelInfo
  <1>5. PICK i \in 1..at : /\ log[i].k = "header" /\ log[i].t = err_type /\ err_type \in Tracked
                           /\ i \notin Swallowed(log)
                           /\ \A j \in (i + 1)..at : log[j].k = "foreign"
                           /\ Lists(HelgrindErrors(log, i - 1), detected)
    BY <1>3 DEF HelInfo
  <1>6. i \in Nat /\ i <= at /\ i \in Nat \ {0} /\ at \in Nat \ {0} /\ i <= at + 1
    BY <1>2
  <1>7. log[at].k \in {"header", "foreign"}
    BY <1>5, <1>6, InTrace
  <1>8. x.k \notin {"header", "race", "holds"}
    BY <1>2, <1>6, <1>7, HelContinues
  <1>9. RaceDone(log, at + 1) /\ (at + 1) + 1 \notin Swallowed(log)
    BY <1>2, <1>4, <1>8, DoneStep, DoneAfter
  <1>10. log \in Seq(HelLine)
    BY <1>2 DEF HelLog
  <1>11. CASE x.k = "foreign"
    <2>1. mode' = mode /\ err_type' = err_type /\ detected' = detected
      BY <1>2, <1>11 DEF get_info, listVars
    <2>2. \A j \in (i + 1)..(at + 1) : log[j].k = "foreign"
      <3>1. \A j \in (i + 1)..(at + 1) : j = at + 1 \/ j \in (i + 1)..at
        BY <1>2
      <3> QED  BY <1>5, <1>11, <3>1
    <2>3. i \in 1..(at + 1)
      BY <1>2
    <2>4. HelInfo(log, at + 1, detected, err_type)
      BY <1>5, <1>9, <2>2, <2>3 DEF HelInfo
    <2> QED  BY <1>2, <2>1, <2>4 DEF HelInv, HelAt
  <1>12. \A j \in (i + 1)..(at + 1) : ~Heard(log, j)
    <2>1. \A j \in (i + 1)..(at + 1) : j = at + 1 \/ j \in (i + 1)..at
      BY <1>2
    <2>2. \A j \in (i + 1)..at : ~Heard(log, j)
      BY <1>5, HeardNothing
    <2>3. ~Heard(log, at + 1)
      BY <1>8, HeardNothing
    <2> QED  BY <2>1, <2>2, <2>3
  <1>13. CASE x.k = "own"
    <2> DEFINE node == [err_type |-> err_type, err_msg |-> x.m]
    <2>1. mode' = "scan" /\ detected' = Append(detected, node)
      BY <1>2, <1>13 DEF get_info, add
    <2>2. Traces(log, i, at + 1)
      <3>1. i < at + 1 /\ (at + 1) - 1 = at
        BY <1>2
      <3> QED  BY <1>5, <1>13, <3>1 DEF Traces
    <2>3. HasTrace(log, i) /\ Trace(log, i) = x.m
      BY <1>2, <1>6, <1>10, <2>2, TraceOf
    <2>4. Heard(log, i)
      BY <1>5, <2>3 DEF Heard, Detectable, IsError
    <2>5. x.m \in Message /\ err_type \in ErrType
      BY <1>2, <1>5, <1>13, HelLineType, TrackedAssumption
    <2>6. node \in Finding
      BY <2>5, FindingOf
    <2>7. node = ErrorAt(log, i)
      BY <1>5, <2>3 DEF ErrorAt
    <2> HIDE DEF node
    <2>8. Lists(HelgrindErrors(log, i), Append(detected, node))
      BY <1>2, <1>5, <1>6, <2>4, <2>6, <2>7, HelAppend
    <2>9. Lists(HelgrindErrors(log, at + 1), Append(detected, node))
      <3>1. i \in Int /\ at + 1 \in Nat
        BY <1>2
      <3> QED  BY <1>6, <1>12, <2>8, <3>1, HelSkip
    <2>10. Append(detected, node) \in Seq(Finding)
      BY <1>2, <2>6
    <2> QED  BY <1>2, <1>9, <2>1, <2>9, <2>10 DEF HelInv, HelAt, HelScan
  <1>14. CASE x.k \notin {"own", "foreign"}
    <2>1. mode' = "scan" /\ detected' = detected
      BY <1>2, <1>14 DEF get_info, listVars
    <2>2. ~HasTrace(log, i)
      <3>1. at <= Len(log)
        BY <1>2
      <3> QED  BY <1>2, <1>5, <1>6, <1>10, <1>14, <3>1, NoTrace
    <2>3. ~Heard(log, i)
      BY <1>5, <2>2 DEF Heard, Detectable, IsError, IsPaired
    <2>4. \A j \in ((i - 1) + 1)..(at + 1) : ~Heard(log, j)
      <3>1. \A j \in ((i - 1) + 1)..(at + 1) : j = i \/ j \in (i + 1)..(at + 1)
        BY <1>2
      <3> QED  BY <1>12, <2>3, <3>1
    <2>5. i - 1 \in Int /\ at + 1 \in Nat /\ i - 1 <= at + 1
      BY <1>2
    <2>6. Lists(HelgrindErrors(log, at + 1), detected)
      BY <1>5, <2>4, <2>5, HelSkip
    <2> QED  BY <1>2, <1>9, <2>1, <2>6 DEF HelInv, HelAt, HelScan
  <1> QED  BY <1>11, <1>13, <1>14

\* The last line of a first access is no break line.
LEMMA InAccess ==
  ASSUME NEW l, NEW i \in Nat, NEW a \in Nat, i <= a, l[i].k = "race",
         \A n \in (i + 1)..a : l[n].k \in {"own", "foreign"}
  PROVE  l[a].k \in {"race", "own", "foreign"}
  <1>1. CASE a = i
    BY <1>1
  <1>2. CASE a # i
    <2>1. a \in (i + 1)..a
      BY <1>2
    <2> QED  BY <2>1
  <1> QED  BY <1>1, <1>2

LEMMA HelFirstAccess ==
  ASSUME HelInv, race
  PROVE  HelInv'
  <1>1. Reads("race")
    BY DEF race
  <1>2. /\ mode = "race" /\ at \in Nat /\ at < Len(log) /\ at' = at + 1 /\ log' = log
        /\ at + 1 \in 1..Len(log) /\ at + 1 \in 0..Len(log)
        /\ HelLog(log) /\ line = log[at + 1] /\ line \in HelLine /\ detected \in Seq(Finding)
        /\ found_a_file \in BOOLEAN
    BY <1>1, HelReads
  <1> DEFINE x == log[at + 1]
  <1>3. HelRace(log, at, detected, found_a_file)
    BY <1>2 DEF HelInv, HelAt
  <1>4. PICK i \in 1..at : /\ Called(log, i) /\ RaceDone(log, i - 1)
                           /\ \A n \in (i + 1)..at : log[n].k \in {"own", "foreign"}
                           /\ found_a_file <=> OwnIn(log, i, at)
                           /\ Lists(HelgrindErrors(log, i - 1), detected)
    BY <1>3 DEF HelRace
  <1>5. i \in Nat \ {0} /\ i \in Nat /\ i <= at /\ at \in Nat \ {0} /\ i < at + 1
        /\ (at + 1) - 1 = at /\ at + 1 \in Nat
    BY <1>2
  <1>6. log[i].k = "race" /\ ERR_DATA_RACE \in Tracked /\ i \notin Swallowed(log)
    BY <1>4 DEF Called
  <1>7. log[at].k \in {"race", "own", "foreign"}
    BY <1>4, <1>5, <1>6, InAccess
  <1>8. x.k \notin {"header", "race", "holds"}
    BY <1>2, <1>5, <1>7, HelContinues
  <1>9. detected' = detected /\ found_a_file' = (found_a_file \/ x.k = "own")
    BY <1>2 DEF race, listVars
  <1>10. found_a_file' \in BOOLEAN
    BY <1>2, <1>9
  <1>11. found_a_file' <=> OwnIn(log, i, at + 1)
    <2>1. \A n \in i..(at + 1) : n = at + 1 \/ n \in i..at
      BY <1>2
    <2>2. \A n \in i..at : n \in i..(at + 1)
      BY <1>2
    <2>3. at + 1 \in i..(at + 1)
      BY <1>2
    <2>4. OwnIn(log, i, at + 1) <=> OwnIn(log, i, at) \/ x.k = "own"
      BY <2>1, <2>2, <2>3 DEF OwnIn
    <2> QED  BY <1>2, <1>4, <1>9, <2>4
  <1>12. CASE x.k \in {"own", "foreign"}
    <2>1. mode' = "race"
      BY <1>2, <1>12 DEF race
    <2>2. \A n \in (i + 1)..(at + 1) : log[n].k \in {"own", "foreign"}
      <3>1. \A n \in (i + 1)..(at + 1) : n = at + 1 \/ n \in (i + 1)..at
        BY <1>2
      <3> QED  BY <1>4, <1>12, <3>1
    <2>3. i \in 1..(at + 1)
      BY <1>2
    <2>4. HelRace(log, at + 1, detected, found_a_file')
      BY <1>4, <1>11, <2>2, <2>3 DEF HelRace
    <2> QED  BY <1>2, <1>9, <1>10, <2>1, <2>4 DEF HelInv, HelAt
  <1>13. ASSUME x.k \notin {"own", "foreign"} PROVE RaceDone(log, at + 1)
    BY <1>4, <1>5, <1>8, <1>13, DoneRace
  <1>14. CASE x.k \in {"conflicts", "break"}
    <2>1. mode' = "conflicts_with"
      BY <1>2, <1>14 DEF race
    <2>2. FirstAccess(log, i, at + 1)
      BY <1>4, <1>5, <1>14 DEF FirstAccess
    <2>3. i \in 1..(at + 1) /\ at + 1 \in 1..(at + 1)
      BY <1>2
    <2>4. \A n \in ((at + 1) + 1)..(at + 1) : log[n].k = "foreign"
      BY <1>2
    <2>5. HelConflicts(log, at + 1, detected, found_a_file')
      BY <1>4, <1>11, <1>13, <1>14, <2>2, <2>3, <2>4 DEF HelConflicts
    <2> QED  BY <1>2, <1>9, <1>10, <2>1, <2>5 DEF HelInv, HelAt
  <1>15. CASE x.k \notin {"own", "foreign", "conflicts", "break"}
    <2>1. mode' = "scan"
      BY <1>2, <1>15 DEF race
    <2>2. ~Heard(log, i)
      <3>1. at <= Len(log)
        BY <1>2
      <3> QED  BY <1>2, <1>4, <1>5, <1>6, <1>15, <3>1, NoAccess
    <2>3. \A j \in (i + 1)..at : ~Heard(log, j)
      BY <1>4, HeardNothing
    <2>4. ~Heard(log, at + 1)
      BY <1>8, HeardNothing
    <2>5. \A j \in ((i - 1) + 1)..(at + 1) : ~Heard(log, j)
      <3>1. \A j \in ((i - 1) + 1)..(at + 1) : j = i \/ j \in (i + 1)..at \/ j = at + 1
        BY <1>2
      <3> QED  BY <2>2, <2>3, <2>4, <3>1
    <2>6. i - 1 \in Int /\ i - 1 <= at + 1
      BY <1>2
    <2>7. Lists(HelgrindErrors(log, at + 1), detected)
      BY <1>4, <1>5, <2>5, <2>6, HelSkip
    <2>8. (at + 1) + 1 \notin Swallowed(log)
      <3>1. SUFFICES ASSUME (at + 1) + 1 \in Swallowed(log) PROVE FALSE
        OBVIOUS
      <3>2. PICK h \in (1..Len(log)) \ Swallowed(log) : Hands(log, h, (at + 1) + 1)
        BY <1>2, <3>1, SwallowedIs
      <3>3. ((at + 1) + 1) - 1 = at + 1
        BY <1>2
      <3>4. FirstAccess(log, h, at + 1)
        BY <3>2, <3>3 DEF Hands
      <3> QED  BY <1>15, <3>4 DEF FirstAccess
    <2> QED  BY <1>2, <1>9, <1>10, <1>13, <1>15, <2>1, <2>7, <2>8 DEF HelInv, HelAt, HelScan
  <1> QED  BY <1>12, <1>14, <1>15

\* Between the race at line i and line a, in its conflicting access, no line
\* announces an error.
LEMMA AccessesAnnounceNothing ==
  ASSUME NEW l, NEW i \in Nat, NEW j \in Nat, NEW a \in Nat, FirstAccess(l, i, j),
         \A n \in (j + 1)..a : l[n].k = "foreign"
  PROVE  \A n \in (i + 1)..a : ~Heard(l, n)
  <1> SUFFICES ASSUME NEW n \in (i + 1)..a PROVE ~Heard(l, n)
    OBVIOUS
  <1>1. i < j /\ l[j].k \in {"conflicts", "break"}
        /\ \A q \in (i + 1)..(j - 1) : l[q].k \in {"own", "foreign"}
    BY DEF FirstAccess
  <1>2. n \in (i + 1)..(j - 1) \/ n = j \/ n \in (j + 1)..a
    BY <1>1
  <1>3. l[n].k \notin {"header", "race", "holds"}
    BY <1>1, <1>2
  <1> QED  BY <1>3, HeardNothing

LEMMA HelSecondAccess ==
  ASSUME HelInv, conflicts_with
  PROVE  HelInv'
  <1>1. Reads("conflicts_with")
    BY DEF conflicts_with
  <1>2. /\ mode = "conflicts_with" /\ at \in Nat /\ at < Len(log) /\ at' = at + 1 /\ log' = log
        /\ at + 1 \in 1..Len(log) /\ at + 1 \in 0..Len(log)
        /\ HelLog(log) /\ line = log[at + 1] /\ line \in HelLine /\ detected \in Seq(Finding)
        /\ found_a_file \in BOOLEAN
    BY <1>1, HelReads
  <1> DEFINE x == log[at + 1]
  <1>3. HelConflicts(log, at, detected, found_a_file)
    BY <1>2 DEF HelInv, HelAt
  <1>4. RaceDone(log, at)
    BY <1>3 DEF HelConflicts
  <1>5. PICK i \in 1..at : \E j \in 1..at :
          /\ Called(log, i) /\ FirstAccess(log, i, j)
          /\ log[j].k = "break" => at = j
          /\ \A n \in (j + 1)..at : log[n].k = "foreign"
          /\ found_a_file <=> OwnIn(log, i, j)
          /\ Lists(HelgrindErrors(log, i - 1), detected)
    BY <1>3 DEF HelConflicts
  <1>6. PICK j \in 1..at :
          /\ Called(log, i) /\ FirstAccess(log, i, j)
          /\ log[j].k = "break" => at = j
          /\ \A n \in (j + 1)..at : log[n].k = "foreign"
          /\ found_a_file <=> OwnIn(log, i, j)
          /\ Lists(HelgrindErrors(log, i - 1), detected)
    BY <1>5
  <1>7. i \in Nat \ {0} /\ i \in Nat /\ i <= at /\ at \in Nat \ {0} /\ i \in 1..(at + 1)
        /\ (at + 1) - 1 = at /\ at + 1 \in Nat /\ j \in Nat /\ j <= at /\ j \in 1..Len(log)
        /\ j \in 1..(at + 1) /\ i <= at + 1
    BY <1>2
  <1>8. log[i].k = "race" /\ ERR_DATA_RACE \in Tracked /\ i \notin Swallowed(log)
    BY <1>6 DEF Called
  <1>9. i < j /\ log[j].k \in {"conflicts", "break"}
    BY <1>6 DEF FirstAccess
  <1>10. log \in Seq(HelLine)
    BY <1>2 DEF HelLog
  <1>11. \A n \in (i + 1)..at : ~Heard(log, n)
    BY <1>2, <1>6, <1>7, AccessesAnnounceNothing
  <1>12. (at + 1) + 1 \notin Swallowed(log)
    BY <1>2, <1>4, DoneAfter
  <1>13. found_a_file' = found_a_file
    BY DEF conflicts_with
  <1>14. ASSUME ~Heard(log, i), ~Heard(log, at + 1)
         PROVE  Lists(HelgrindErrors(log, at + 1), detected)
    <2>1. \A n \in ((i - 1) + 1)..(at + 1) : ~Heard(log, n)
      <3>1. \A n \in ((i - 1) + 1)..(at + 1) : n = i \/ n \in (i + 1)..at \/ n = at + 1
        BY <1>2
      <3> QED  BY <1>11, <1>14, <3>1
    <2>2. i - 1 \in Int /\ i - 1 <= at + 1
      BY <1>2
    <2> QED  BY <1>6, <1>7, <2>1, <2>2, HelSkip
  <1>15. CASE log[j].k = "break"
    <2>1. at = j
      BY <1>6, <1>15
    <2>2. x.k \notin {"own", "foreign"}
      BY <1>2, <1>7, <1>15, <2>1, HelContinues
    <2>3. mode' = "scan" /\ detected' = detected
      BY <1>2, <2>2 DEF conflicts_with, listVars
    <2>4. at + 1 \in Swallowed(log)
      <3>1. Unpaired(log, i)
        BY <1>6, <1>7, <1>8, <1>15 DEF Unpaired
      <3>2. FirstAccess(log, i, (at + 1) - 1)
        BY <1>6, <1>7, <2>1
      <3>3. i < at + 1 /\ i \in 1..Len(log)
        BY <1>2
      <3>4. Hands(log, i, at + 1)
        BY <1>8, <3>1, <3>2, <3>3 DEF Hands
      <3> QED  BY <1>2, <1>8, <3>3, <3>4, SwallowedIs
    <2>5. ~Heard(log, at + 1)
      BY <2>4 DEF Heard
    <2>6. ~Heard(log, i)
      BY <1>2, <1>6, <1>7, <1>8, <1>15, NotPaired
    <2>7. RaceDone(log, at + 1)
      BY <1>2, <1>4, <2>4, DoneStep
    <2> QED  BY <1>2, <1>12, <1>13, <1>14, <2>3, <2>5, <2>6, <2>7 DEF HelInv, HelAt, HelScan
  <1>16. CASE log[j].k = "conflicts"
    <2>1. log[at].k \in {"conflicts", "foreign"}
      <3>1. CASE at = j
        BY <1>16, <3>1
      <3>2. CASE at # j
        <4>1. at \in (j + 1)..at
          BY <1>7, <3>2
        <4> QED  BY <1>6, <4>1
      <3> QED  BY <3>1, <3>2
    <2>2. x.k \notin {"header", "race", "holds"}
      BY <1>2, <1>7, <2>1, HelContinues
    <2>3. RaceDone(log, at + 1)
      BY <1>2, <1>4, <2>2, DoneStep
    <2>4. ~Heard(log, at + 1)
      BY <2>2, HeardNothing
    <2>5. CASE x.k = "foreign"
      <3>1. mode' = "conflicts_with" /\ detected' = detected
        BY <1>2, <2>5 DEF conflicts_with, listVars
      <3>2. \A n \in (j + 1)..(at + 1) : log[n].k = "foreign"
        <4>1. \A n \in (j + 1)..(at + 1) : n = at + 1 \/ n \in (j + 1)..at
          BY <1>2
        <4> QED  BY <1>6, <2>5, <4>1
      <3>3. HelConflicts(log, at + 1, detected, found_a_file)
        BY <1>6, <1>7, <1>16, <2>3, <3>2 DEF HelConflicts
      <3> QED  BY <1>2, <1>13, <3>1, <3>3 DEF HelInv, HelAt
    <2>6. CASE x.k = "own"
      <3>1. Traces(log, j, at + 1)
        <4>1. j < at + 1
          BY <1>7
        <4> QED  BY <1>6, <1>7, <2>6, <4>1 DEF Traces
      <3>2. HasTrace(log, j) /\ Trace(log, j) = x.m
        BY <1>2, <1>7, <1>10, <3>1, TraceOf
      <3>3. CASE found_a_file
        <4> DEFINE node == [err_type |-> ERR_DATA_RACE, err_msg |-> x.m]
        <4>1. mode' = "scan" /\ detected' = Append(detected, node)
          BY <1>2, <2>6, <3>3 DEF conflicts_with, add
        <4>2. \E n \in i..j : log[n].k = "own"
          BY <1>6, <3>3 DEF OwnIn
        <4>3. IsPaired(log, i, TRUE)
          BY <1>6, <1>7, <1>8, <1>16, <3>2, <4>2 DEF IsPaired
        <4>4. Heard(log, i)
          BY <1>8, <4>3 DEF Heard, Detectable
        <4>5. Conflict(log, i) = x.m
          <5> DEFINE q == CHOOSE n \in 1..Len(log) : FirstAccess(log, i, n)
          <5>1. q \in 1..Len(log) /\ FirstAccess(log, i, q)
            BY <1>6, <1>7
          <5>2. q = j
            BY <1>6, <1>7, <5>1, AccessUnique
          <5>3. Conflict(log, i) = Trace(log, q)
            BY DEF Conflict
          <5> QED  BY <3>2, <5>2, <5>3
        <4>6. node = ErrorAt(log, i)
          BY <1>8, <4>5 DEF ErrorAt
        <4>7. x.m \in Message
          BY <1>2, <2>6, HelLineType
        <4>8. node \in Finding
          BY <4>7, FindingOf, HelgrindLogAssumption
        <4> HIDE DEF node
        <4>9. Lists(HelgrindErrors(log, i), Append(detected, node))
          BY <1>2, <1>6, <1>7, <4>4, <4>6, <4>8, HelAppend
        <4>10. Lists(HelgrindErrors(log, at + 1), Append(detected, node))
          <5>1. \A n \in (i + 1)..(at + 1) : n \in (i + 1)..at \/ n = at + 1
            BY <1>2
          <5>2. \A n \in (i + 1)..(at + 1) : ~Heard(log, n)
            BY <1>11, <2>4, <5>1
          <5>3. i \in Int
            BY <1>7
          <5> QED  BY <1>7, <4>9, <5>2, <5>3, HelSkip
        <4>11. Append(detected, node) \in Seq(Finding)
          BY <1>2, <4>8
        <4> QED  BY <1>2, <1>12, <1>13, <2>3, <4>1, <4>10, <4>11 DEF HelInv, HelAt, HelScan
      <3>4. CASE ~found_a_file
        <4>1. mode' = "undefined" /\ detected' = detected
          BY <1>2, <2>6, <3>4 DEF conflicts_with, listVars
        <4>2. ~\E n \in i..j : log[n].k = "own"
          BY <1>6, <3>4 DEF OwnIn
        <4>3. IsPaired(log, i, FALSE)
          BY <1>6, <1>7, <1>8, <1>16, <3>2, <4>2 DEF IsPaired
        <4>4. HelUndefined(log, at + 1, detected)
          BY <1>6, <1>7, <4>3 DEF HelUndefined
        <4> QED  BY <1>2, <1>13, <4>1, <4>4 DEF HelInv, HelAt
      <3> QED  BY <3>3, <3>4
    <2>7. CASE x.k \notin {"own", "foreign"}
      <3>1. mode' = "scan" /\ detected' = detected
        BY <1>2, <2>7 DEF conflicts_with, listVars
      <3>2. ~HasTrace(log, j)
        <4>1. at <= Len(log)
          BY <1>2
        <4> QED  BY <1>2, <1>6, <1>7, <1>10, <2>7, <4>1, NoTrace
      <3>3. ~Heard(log, i)
        BY <1>2, <1>6, <1>7, <1>8, <3>2, NotPaired
      <3> QED  BY <1>2, <1>12, <1>13, <1>14, <2>3, <2>4, <3>1, <3>3 DEF HelInv, HelAt, HelScan
    <2> QED  BY <2>5, <2>6, <2>7
  <1> QED  BY <1>9, <1>15, <1>16

LEMMA HelEnd ==
  ASSUME HelInv, EndOfLog, UNCHANGED found_a_file
  PROVE  HelInv'
  <1>1. /\ at = Len(log) /\ mode' = "done" /\ log' = log /\ at' = at /\ detected' = detected
        /\ mode \notin {"done", "undefined"} /\ found_a_file' = found_a_file
    BY DEF EndOfLog, listVars
  <1>2. /\ HelLog(log) /\ at \in 0..Len(log) /\ detected \in Seq(Finding)
        /\ found_a_file \in BOOLEAN
        /\ mode \in {"scan", "info", "race", "conflicts_with", "undefined", "done"}
    BY DEF HelInv, HelAt
  <1>3. log \in Seq(HelLine)
    BY <1>2 DEF HelLog
  <1>4. at \in Nat /\ Len(log) \in Nat /\ at <= Len(log) /\ ~(at < Len(log))
    BY <1>1, <1>2, <1>3
  <1>5. ASSUME NEW i \in 1..at, Lists(HelgrindErrors(log, i - 1), detected),
               ~Heard(log, i), \A n \in (i + 1)..at : ~Heard(log, n)
        PROVE  Lists(HelgrindErrors(log, at), detected)
    <2>1. \A n \in ((i - 1) + 1)..at : ~Heard(log, n)
      <3>1. \A n \in ((i - 1) + 1)..at : n = i \/ n \in (i + 1)..at
        BY <1>4
      <3> QED  BY <1>5, <3>1
    <2>2. i - 1 \in Int /\ i - 1 <= at
      BY <1>4
    <2> QED  BY <1>4, <1>5, <2>1, <2>2, HelSkip
  <1>6. Lists(HelgrindErrors(log, at), detected)
    <2>1. CASE mode = "scan"
      BY <2>1 DEF HelInv, HelAt, HelScan
    <2>2. CASE mode = "info"
      <3>1. PICK i \in 1..at : /\ log[i].k = "header"
                               /\ \A j \in (i + 1)..at : log[j].k = "foreign"
                               /\ Lists(HelgrindErrors(log, i - 1), detected)
        BY <2>2 DEF HelInv, HelAt, HelInfo
      <3>2. i \in Nat /\ i <= at
        BY <1>4
      <3>3. ~HasTrace(log, i)
        BY <1>3, <1>4, <3>1, <3>2, NoTrace
      <3>4. ~Heard(log, i)
        BY <3>1, <3>3 DEF Heard, Detectable, IsError, IsPaired
      <3>5. \A j \in (i + 1)..at : ~Heard(log, j)
        BY <3>1, HeardNothing
      <3> QED  BY <1>5, <3>1, <3>4, <3>5
    <2>3. CASE mode = "race"
      <3>1. PICK i \in 1..at : /\ Called(log, i)
                               /\ \A n \in (i + 1)..at : log[n].k \in {"own", "foreign"}
                               /\ Lists(HelgrindErrors(log, i - 1), detected)
        BY <2>3 DEF HelInv, HelAt, HelRace
      <3>2. i \in Nat /\ i <= at /\ log[i].k = "race"
        BY <1>4, <3>1 DEF Called
      <3>3. ~Heard(log, i)
        BY <1>2, <1>4, <3>1, <3>2, NoAccess
      <3>4. \A j \in (i + 1)..at : ~Heard(log, j)
        BY <3>1, HeardNothing
      <3> QED  BY <1>5, <3>1, <3>3, <3>4
    <2>4. CASE mode = "conflicts_with"
      <3>1. PICK i \in 1..at : \E j \in 1..at :
              /\ Called(log, i) /\ FirstAccess(log, i, j)
              /\ \A n \in (j + 1)..at : log[n].k = "foreign"
              /\ Lists(HelgrindErrors(log, i - 1), detected)
        BY <2>4 DEF HelInv, HelAt, HelConflicts
      <3>2. PICK j \in 1..at :
              /\ Called(log, i) /\ FirstAccess(log, i, j)
              /\ \A n \in (j + 1)..at : log[n].k = "foreign"
              /\ Lists(HelgrindErrors(log, i - 1), detected)
        BY <3>1
      <3>3. i \in Nat /\ j \in Nat /\ j <= at /\ j \in 1..Len(log) /\ log[i].k = "race"
        BY <1>4, <3>2 DEF Called
      <3>4. ~HasTrace(log, j)
        BY <1>3, <1>4, <3>2, <3>3, NoTrace
      <3>5. ~Heard(log, i)
        BY <1>2, <3>2, <3>3, <3>4, NotPaired
      <3>6. \A n \in (i + 1)..at : ~Heard(log, n)
        BY <1>4, <3>2, <3>3, AccessesAnnounceNothing
      <3> QED  BY <1>5, <3>2, <3>5, <3>6
    <2> QED  BY <1>1, <1>2, <2>1, <2>2, <2>3, <2>4
  <1>7. HelDone(log, detected)
    BY <1>1, <1>6 DEF HelDone
  <1> QED  BY <1>1, <1>2, <1>7 DEF HelInv, HelAt

LEMMA HelFirst ==
  ASSUME HelInit
  PROVE  HelInv
  <1>1. /\ log \in HelgrindLog /\ at = 0 /\ mode = "scan" /\ detected = <<>>
        /\ found_a_file = FALSE
    BY DEF HelInit, LogInit, ListInit
  <1>2. HelLog(log)
    BY <1>1, HelLogs
  <1>3. log \in Seq(HelLine)
    BY <1>2 DEF HelLog
  <1>4. at \in 0..Len(log) /\ detected \in Seq(Finding)
    BY <1>1, <1>3
  <1>5. DOMAIN HelgrindErrors(log, 0) = {}
    <2>1. DOMAIN HelgrindErrors(log, 0) = {j \in 1..0 : Heard(log, j)}
      BY HelErrorsAre
    <2> QED  BY <2>1
  <1>6. Lists(HelgrindErrors(log, 0), <<>>)
    BY <1>5, ListsNone
  <1>7. RaceDone(log, 0)
    BY DEF RaceDone
  <1>8. 0 + 1 \notin Swallowed(log)
    <2>1. SUFFICES ASSUME 1 \in Swallowed(log) PROVE FALSE
      OBVIOUS
    <2>2. 1 \in 1..Len(log)
      BY <1>2, <2>1, SwallowedIs
    <2>3. PICK h \in (1..Len(log)) \ Swallowed(log) : Hands(log, h, 1)
      BY <1>2, <2>1, <2>2, SwallowedIs
    <2>4. h \in 1..Len(log) /\ h < 1
      BY <2>3 DEF Hands
    <2> QED  BY <1>3, <2>4
  <1> QED  BY <1>1, <1>2, <1>4, <1>6, <1>7, <1>8 DEF HelInv, HelAt, HelScan

(***************************************************************************)
(* Where get_info and the two loops of data_race (rbc_helgrind.c) are in   *)
(* the log, which lines they have swallowed and what they have detected by *)
(* then: HelInv is an inductive invariant.                                 *)
(***************************************************************************)
THEOREM HelgrindInvariance == HelSpec => []HelInv
  <1>1. HelInit => HelInv
    BY HelFirst
  <1>2. HelInv /\ [HelNext]_helVars => HelInv'
    <2> SUFFICES ASSUME HelInv, [HelNext]_helVars PROVE HelInv'
      OBVIOUS
    <2>1. CASE ScanRace
      BY <2>1, HelScanRace
    <2>2. CASE ScanHold
      BY <2>2, HelScanHold
    <2>3. CASE SkipInHelgrind
      BY <2>3, HelSkipLine
    <2>4. CASE race
      BY <2>4, HelFirstAccess
    <2>5. CASE conflicts_with
      BY <2>5, HelSecondAccess
    <2>6. CASE ScanHeader /\ UNCHANGED found_a_file
      BY <2>6, HelScanHeader
    <2>7. CASE get_info /\ UNCHANGED found_a_file
      BY <2>7, HelGetInfo
    <2>8. CASE EndOfLog /\ UNCHANGED found_a_file
      BY <2>8, HelEnd
    <2>9. CASE UNCHANGED helVars
      BY <2>9 DEF helVars, logVars, listVars, HelInv
    <2> QED  BY <2>1, <2>2, <2>3, <2>4, <2>5, <2>6, <2>7, <2>8, <2>9 DEF HelNext
  <1> QED  BY <1>1, <1>2, PTL DEF HelSpec

(***************************************************************************)
(* From every log helgrind may write, whatever its length and wherever it  *)
(* is cut off, the Helgrind module detects exactly the records that do not *)
(* directly follow a race read without a conflicting access; the only      *)
(* undefined outcome is a race of which just the conflicting access is in  *)
(* the program.                                                            *)
(***************************************************************************)
THEOREM HelgrindAllRead == HelSpec => []HelgrindReadsAll
  <1>1. HelInv => HelgrindReadsAll
    BY DEF HelInv, HelAt, HelDone, HelUndefined, HelgrindReadsAll
  <1> QED  BY <1>1, HelgrindInvariance, PTL

-----------------------------------------------------------------------------
(* Sparse: the order of the analyzer's lines *)

InFirstPass == {"call"} \cup Noise
BodyKind == InFirstPass \cup Other
SparseKind == Passes \cup {"file", "end file", "function", "end function", "torn"} \cup BodyKind

SparseLine == [kind : SparseKind, file : Nat \cup {NoName}, func : Nat \cup {NoName}, stmt : Nat]

InBody(x) == x.kind \in {"function"} \cup BodyKind

\* Line y may follow line x in an output about P; a torn line may follow any.
Follow(P, x, y) ==
  /\ x.kind \in Passes =>
       y.kind = "torn" \/ IF Len(P) = 0 THEN y.kind = "others"
                                              ELSE y.kind = "file" /\ y.file = 1
  /\ x.kind \in {"file", "end function"} =>
       y.kind = "torn" \/ (y.kind \in {"function", "end file"} /\ y.file = x.file)
  /\ InBody(x) => /\ y.kind \in BodyKind \cup {"end function", "torn"}
                  /\ y.file = x.file /\ y.func = x.func
  /\ x.kind = "end file" =>
       y.kind = "torn" \/ IF x.file = Len(P) THEN y.kind = "others"
                          ELSE y.kind = "file" /\ y.file = x.file + 1

Chained(P, p) == \A i \in 1..(Len(p) - 1) : Follow(P, p[i], p[i + 1])

OthersBy(p, n) == \E j \in 1..n : p[j].kind = "others"

\* The first pass comes before the heading of the second one, which comes once.
Sectioned(p) ==
  \A i \in 1..Len(p) :
    /\ p[i].kind \in Other => OthersBy(p, i - 1)
    /\ p[i].kind \in InFirstPass \cup Passes => ~OthersBy(p, i - 1)

Printed(P, p) == p \in Seq(SparseLine) /\ Chained(P, p) /\ Sectioned(p)

TornFree(p) == \A i \in 1..Len(p) : p[i].kind # "torn"
TornLast(p) == \A i \in 1..Len(p) : p[i].kind = "torn" => i = Len(p)

LEMMA LineIs ==
  ASSUME NEW kind \in SparseKind, NEW f \in Nat \cup {NoName}, NEW g \in Nat \cup {NoName},
         NEW s \in Nat
  PROVE  /\ Line(kind, f, g, s) \in SparseLine
         /\ Line(kind, f, g, s).kind = kind /\ Line(kind, f, g, s).file = f
         /\ Line(kind, f, g, s).func = g /\ Line(kind, f, g, s).stmt = s
  BY DEF Line, SparseLine

LEMMA AppendIs ==
  ASSUME NEW p \in Seq(SparseLine), NEW x \in SparseLine
  PROVE  /\ Append(p, x) \in Seq(SparseLine)
         /\ Len(p) \in Nat /\ Len(Append(p, x)) = Len(p) + 1
         /\ Append(p, x)[Len(p) + 1] = x
         /\ \A i \in 1..Len(p) : Append(p, x)[i] = p[i]
         /\ \A i \in 1..(Len(p) + 1) : i = Len(p) + 1 \/ i \in 1..Len(p)
  OBVIOUS

LEMMA OthersAppend ==
  ASSUME NEW p \in Seq(SparseLine), NEW x \in SparseLine
  PROVE  /\ \A n \in 0..Len(p) : OthersBy(Append(p, x), n) <=> OthersBy(p, n)
         /\ OthersBy(Append(p, x), Len(p) + 1) <=> OthersBy(p, Len(p)) \/ x.kind = "others"
  <1> DEFINE q == Append(p, x)
  <1>1. /\ Len(p) \in Nat /\ Len(q) = Len(p) + 1 /\ q[Len(p) + 1] = x
        /\ \A i \in 1..Len(p) : q[i] = p[i]
        /\ \A i \in 1..(Len(p) + 1) : i = Len(p) + 1 \/ i \in 1..Len(p)
    BY AppendIs
  <1> HIDE DEF q
  <1>2. ASSUME NEW n \in 0..Len(p) PROVE OthersBy(q, n) <=> OthersBy(p, n)
    <2>1. \A j \in 1..n : j \in 1..Len(p)
      BY <1>1
    <2> QED  BY <1>1, <2>1 DEF OthersBy
  <1>3. OthersBy(q, Len(p) + 1) <=> OthersBy(p, Len(p)) \/ x.kind = "others"
    <2>1. Len(p) + 1 \in 1..(Len(p) + 1) /\ \A j \in 1..Len(p) : j \in 1..(Len(p) + 1)
      BY <1>1
    <2> QED  BY <1>1, <2>1 DEF OthersBy
  <1> QED  BY <1>2, <1>3 DEF q

LEMMA PrintedAppend ==
  ASSUME NEW P, NEW p, Printed(P, p), NEW x \in SparseLine,
         Len(p) > 0 => Follow(P, p[Len(p)], x),
         x.kind \in Other => OthersBy(p, Len(p)),
         x.kind \in InFirstPass \cup Passes => ~OthersBy(p, Len(p))
  PROVE  Printed(P, Append(p, x))
  <1> DEFINE q == Append(p, x)
  <1>1. p \in Seq(SparseLine) /\ Chained(P, p) /\ Sectioned(p)
    BY DEF Printed
  <1>2. /\ q \in Seq(SparseLine)
        /\ Len(p) \in Nat /\ Len(q) = Len(p) + 1 /\ q[Len(p) + 1] = x
        /\ \A i \in 1..Len(p) : q[i] = p[i]
        /\ \A i \in 1..(Len(p) + 1) : i = Len(p) + 1 \/ i \in 1..Len(p)
    BY <1>1, AppendIs
  <1>3. \A n \in 0..Len(p) : OthersBy(q, n) <=> OthersBy(p, n)
    BY <1>1, OthersAppend
  <1> HIDE DEF q
  <1>4. ASSUME NEW i \in 1..(Len(q) - 1) PROVE Follow(P, q[i], q[i + 1])
    <2>1. i \in 1..Len(p) /\ q[i] = p[i]
      BY <1>2
    <2>2. CASE i = Len(p)
      BY <1>2, <2>1, <2>2
    <2>3. CASE i # Len(p)
      <3>1. i \in 1..(Len(p) - 1) /\ i + 1 \in 1..Len(p)
        BY <1>2, <2>1, <2>3
      <3> QED  BY <1>1, <1>2, <2>1, <3>1 DEF Chained
    <2> QED  BY <2>2, <2>3
  <1>5. ASSUME NEW i \in 1..Len(q)
        PROVE  /\ q[i].kind \in Other => OthersBy(q, i - 1)
               /\ q[i].kind \in InFirstPass \cup Passes => ~OthersBy(q, i - 1)
    <2>1. CASE i = Len(p) + 1
      <3>1. q[i] = x /\ i - 1 = Len(p) /\ Len(p) \in 0..Len(p)
        BY <1>2, <2>1
      <3> QED  BY <1>3, <3>1
    <2>2. CASE i \in 1..Len(p)
      <3>1. q[i] = p[i] /\ i - 1 \in 0..Len(p)
        BY <1>2, <2>2
      <3> QED  BY <1>1, <1>3, <2>2, <3>1 DEF Sectioned
    <2> QED  BY <1>2, <2>1, <2>2
  <1> QED  BY <1>2, <1>4, <1>5 DEF Printed, Chained, Sectioned, q

LEMMA PrefixIs ==
  ASSUME NEW p \in Seq(SparseLine), NEW n \in 0..Len(p)
  PROVE  /\ SubSeq(p, 1, n) \in Seq(SparseLine) /\ Len(SubSeq(p, 1, n)) = n
         /\ \A i \in 1..n : SubSeq(p, 1, n)[i] = p[i]
  OBVIOUS

LEMMA PrintedPrefix ==
  ASSUME NEW P, NEW p, Printed(P, p), NEW n \in 0..Len(p)
  PROVE  Printed(P, SubSeq(p, 1, n))
  <1> DEFINE q == SubSeq(p, 1, n)
  <1>1. p \in Seq(SparseLine) /\ Chained(P, p) /\ Sectioned(p)
    BY DEF Printed
  <1>2. q \in Seq(SparseLine) /\ Len(q) = n /\ \A i \in 1..n : q[i] = p[i]
    BY <1>1, PrefixIs
  <1>3. Len(p) \in Nat /\ n \in Nat /\ n <= Len(p)
    BY <1>1
  <1> HIDE DEF q
  <1>4. ASSUME NEW i \in 1..(n - 1) PROVE Follow(P, q[i], q[i + 1])
    <2>1. i \in 1..(Len(p) - 1) /\ i \in 1..n /\ i + 1 \in 1..n
      BY <1>3
    <2> QED  BY <1>1, <1>2, <2>1 DEF Chained
  <1>5. ASSUME NEW i \in 1..n PROVE OthersBy(q, i - 1) <=> OthersBy(p, i - 1)
    <2>1. \A j \in 1..(i - 1) : j \in 1..n
      BY <1>3
    <2> QED  BY <1>2, <2>1 DEF OthersBy
  <1>6. ASSUME NEW i \in 1..n
        PROVE  /\ q[i].kind \in Other => OthersBy(q, i - 1)
               /\ q[i].kind \in InFirstPass \cup Passes => ~OthersBy(q, i - 1)
    <2>1. i \in 1..Len(p)
      BY <1>3
    <2> QED  BY <1>1, <1>2, <1>5, <2>1 DEF Sectioned
  <1> QED  BY <1>2, <1>4, <1>6 DEF Printed, Chained, Sectioned, q

LEMMA TornFollows ==
  ASSUME NEW P, NEW x, NEW y \in SparseLine, Follow(P, x, y)
  PROVE  /\ [y EXCEPT !.kind = "torn"] \in SparseLine
         /\ [y EXCEPT !.kind = "torn"].kind = "torn"
         /\ Follow(P, x, [y EXCEPT !.kind = "torn"])
  <1> DEFINE z == [y EXCEPT !.kind = "torn"]
  <1>1. z \in SparseLine /\ z.kind = "torn" /\ z.file = y.file /\ z.func = y.func
    BY DEF SparseLine, SparseKind
  <1> HIDE DEF z
  <1>2. Follow(P, x, z)
    BY <1>1 DEF Follow
  <1> QED  BY <1>1, <1>2 DEF z

LEMMA PrintedTorn ==
  ASSUME NEW P, NEW p, Printed(P, p), TornLast(p), NEW n \in 0..Len(p), n < Len(p)
  PROVE  LET q == Append(SubSeq(p, 1, n), [p[n + 1] EXCEPT !.kind = "torn"])
         IN  Printed(P, q) /\ TornLast(q)
  <1> DEFINE r == SubSeq(p, 1, n)
             z == [p[n + 1] EXCEPT !.kind = "torn"]
             q == Append(r, z)
  <1>1. p \in Seq(SparseLine) /\ Chained(P, p)
    BY DEF Printed
  <1>2. r \in Seq(SparseLine) /\ Len(r) = n /\ \A i \in 1..n : r[i] = p[i]
    BY <1>1, PrefixIs
  <1>3. n \in Nat /\ n + 1 \in 1..Len(p) /\ Len(p) \in Nat
    BY <1>1
  <1>4. p[n + 1] \in SparseLine
    BY <1>1, <1>3
  <1>5. z \in SparseLine /\ z.kind = "torn"
    BY <1>4 DEF SparseLine, SparseKind
  <1>6. Len(r) > 0 => Follow(P, r[Len(r)], z)
    <2>1. SUFFICES ASSUME n > 0 PROVE Follow(P, r[n], z)
      BY <1>2
    <2>2. n \in 1..(Len(p) - 1) /\ n \in 1..n
      BY <1>3, <2>1
    <2>3. Follow(P, p[n], p[n + 1]) /\ r[n] = p[n]
      BY <1>1, <1>2, <2>2 DEF Chained
    <2> QED  BY <1>4, <2>3, TornFollows
  <1>7. Printed(P, r)
    BY PrintedPrefix
  <1>8. Printed(P, q)
    <2>1. z.kind \notin Other /\ z.kind \notin InFirstPass \cup Passes
      BY <1>5 DEF Other, InFirstPass, Passes, Noise
    <2> HIDE DEF r, z
    <2> QED  BY <1>5, <1>6, <1>7, <2>1, PrintedAppend
  <1>9. TornLast(q)
    <2>1. /\ Len(q) = n + 1 /\ \A i \in 1..n : q[i] = r[i]
          /\ \A i \in 1..(n + 1) : i = n + 1 \/ i \in 1..n
      BY <1>2, <1>5, AppendIs
    <2>2. \A i \in 1..n : p[i].kind # "torn"
      <3>1. \A i \in 1..n : i \in 1..Len(p) /\ i # Len(p)
        BY <1>3
      <3> QED  BY <3>1 DEF TornLast
    <2> HIDE DEF q, r
    <2> QED  BY <1>2, <2>1, <2>2 DEF TornLast
  <1> QED  BY <1>8, <1>9

\* Where the analyzer stands in the program after it has printed line z.
CursorAt(P, z, pc, f, g, s) ==
  /\ f \in 1..(Len(P) + 1) /\ g \in Nat /\ s \in Nat
  /\ g = 0 => /\ s = 0
              /\ \/ z.kind = pc /\ f = 1
                 \/ z.kind = "end file" /\ z.file \in 1..Len(P) /\ f = z.file + 1
  /\ g > 0 => /\ f <= Len(P) /\ g <= Len(P[f]) + 1 /\ z.file = f
              /\ s = 0 => z.kind \in {"file", "end function"}
              /\ s > 0 => InBody(z) /\ z.func = g /\ g <= Len(P[f])

An(P, O, p, pc, f, g, s, cr) ==
  /\ Printed(P, p) /\ TornLast(p) /\ cr \in BOOLEAN /\ (~cr => TornFree(p))
  /\ pc = "main" => p = <<>> /\ ~cr
  /\ pc \in Passes => /\ ~cr /\ Len(p) > 0 /\ (pc = "calls" <=> ~OthersBy(p, Len(p)))
                      /\ CursorAt(P, p[Len(p)], pc, f, g, s)
  /\ ~cr /\ pc # "main" /\ "call" \in O => Len(p) > 0 /\ p[1].kind = "calls"

LEMMA AnPrint ==
  ASSUME NEW P, NEW O, NEW p, NEW pc \in Passes, NEW f, NEW g, NEW s, NEW cr, An(P, O, p, pc, f, g, s, cr),
         NEW x \in SparseLine, x.kind \notin {"torn"} \cup Passes, Follow(P, p[Len(p)], x),
         x.kind \in Other => pc = "others", x.kind \in InFirstPass => pc = "calls",
         NEW f2, NEW g2, NEW s2, CursorAt(P, x, pc, f2, g2, s2)
  PROVE  An(P, O, Append(p, x), pc, f2, g2, s2, cr)
  <1> DEFINE q == Append(p, x)
  <1>1. /\ Printed(P, p) /\ ~cr /\ Len(p) > 0 /\ TornFree(p) /\ cr \in BOOLEAN
        /\ (pc = "calls" <=> ~OthersBy(p, Len(p)))
        /\ "call" \in O => p[1].kind = "calls"
    BY DEF An, Passes
  <1>2. p \in Seq(SparseLine)
    BY <1>1 DEF Printed
  <1>3. /\ Len(p) \in Nat /\ Len(q) = Len(p) + 1 /\ q[Len(p) + 1] = x
        /\ \A i \in 1..Len(p) : q[i] = p[i]
        /\ \A i \in 1..(Len(p) + 1) : i = Len(p) + 1 \/ i \in 1..Len(p)
    BY <1>2, AppendIs
  <1>4. pc = "others" <=> OthersBy(p, Len(p))
    BY <1>1 DEF Passes
  <1>5. Printed(P, q)
    <2>1. x.kind \in Other => OthersBy(p, Len(p))
      BY <1>4
    <2>2. x.kind \in InFirstPass \cup Passes => ~OthersBy(p, Len(p))
      BY <1>1
    <2> QED  BY <1>1, <2>1, <2>2, PrintedAppend
  <1>6. OthersBy(q, Len(p) + 1) <=> OthersBy(p, Len(p))
    <2>1. x.kind # "others"
      BY DEF Passes
    <2> QED  BY <1>2, <2>1, OthersAppend
  <1> HIDE DEF q
  <1>7. TornFree(q)
    BY <1>1, <1>3 DEF TornFree
  <1>8. TornLast(q)
    BY <1>7 DEF TornFree, TornLast
  <1>9. Len(q) > 0 /\ q[1] = p[1]
    BY <1>1, <1>3
  <1>10. pc # "main"
    BY DEF Passes
  <1>11. An(P, O, q, pc, f2, g2, s2, cr)
    BY <1>1, <1>3, <1>5, <1>6, <1>7, <1>8, <1>9, <1>10 DEF An
  <1> QED  BY <1>11 DEF q

\* A section starts.
LEMMA AnSection ==
  ASSUME NEW P, NEW O, NEW p, Printed(P, p), TornFree(p), NEW x \in SparseLine,
         NEW pc \in Passes, x.kind = pc,
         ~OthersBy(p, Len(p)), Len(p) > 0 => Follow(P, p[Len(p)], x),
         P \in Seq(Seq(Function)),
         "call" \in O => IF Len(p) = 0 THEN pc = "calls" ELSE p[1].kind = "calls",
         pc = "calls" \/ pc = "others"
  PROVE  An(P, O, Append(p, x), pc, 1, 0, 0, FALSE)
  <1> DEFINE q == Append(p, x)
  <1>1. p \in Seq(SparseLine)
    BY DEF Printed
  <1>2. /\ Len(p) \in Nat /\ Len(q) = Len(p) + 1 /\ q[Len(p) + 1] = x
        /\ \A i \in 1..Len(p) : q[i] = p[i]
        /\ \A i \in 1..(Len(p) + 1) : i = Len(p) + 1 \/ i \in 1..Len(p)
    BY <1>1, AppendIs
  <1>3. x.kind \notin Other /\ x.kind # "torn"
    BY DEF Passes, Other
  <1>4. Printed(P, q)
    BY <1>3, PrintedAppend
  <1>5. OthersBy(q, Len(p) + 1) <=> x.kind = "others"
    BY <1>1, OthersAppend
  <1> HIDE DEF q
  <1>6. TornFree(q)
    BY <1>2, <1>3 DEF TornFree
  <1>7. TornLast(q)
    BY <1>6 DEF TornFree, TornLast
  <1>8. Len(q) > 0
    BY <1>2
  <1>9. pc = "calls" <=> ~OthersBy(q, Len(q))
    BY <1>2, <1>5
  <1>10. 1 \in 1..(Len(P) + 1)
    OBVIOUS
  <1>11. CursorAt(P, q[Len(q)], pc, 1, 0, 0)
    <2>1. q[Len(q)].kind = pc
      BY <1>2
    <2>2. 0 \in Nat /\ ~(0 > 0)
      OBVIOUS
    <2> QED  BY <1>10, <2>1, <2>2 DEF CursorAt
  <1>12. "call" \in O => q[1].kind = "calls"
    <2>1. CASE Len(p) = 0
      BY <1>2, <2>1
    <2>2. CASE Len(p) # 0
      <3>1. 1 \in 1..Len(p)
        BY <1>2, <2>2
      <3> QED  BY <1>2, <2>2, <3>1
    <2> QED  BY <2>1, <2>2
  <1>13. pc # "main"
    OBVIOUS
  <1>14. An(P, O, q, pc, 1, 0, 0, FALSE)
    BY <1>4, <1>6, <1>7, <1>8, <1>9, <1>11, <1>12, <1>13 DEF An
  <1> QED  BY <1>14 DEF q

-----------------------------------------------------------------------------

Inputs == /\ program \in Seq(Seq(Function)) /\ opts \subseteq ErrorKind
          /\ sparse_flags \subseteq ErrorKind /\ joined = {}

Analyzed == An(program, opts, printed, sparse_pc, k, sym, instruction, crashed)

LEMMA FileIs ==
  ASSUME Inputs, NEW f \in 1..Len(program)
  PROVE  program[f] \in Seq(Function) /\ Len(program[f]) \in Nat
  BY DEF Inputs

\* What an action of the analyzer inside a file starts from.
LEMMA InFileIs ==
  ASSUME Inputs, Analyzed, InFile
  PROVE  /\ sparse_pc \in Passes /\ k \in 1..Len(program) /\ k \in Nat /\ Len(program[k]) \in Nat
         /\ CursorAt(program, printed[Len(printed)], sparse_pc, k, sym, instruction)
         /\ sym \in Nat /\ instruction \in Nat
  <1>1. sparse_pc \in Passes /\ k <= Len(program)
    BY DEF InFile
  <1>2. CursorAt(program, printed[Len(printed)], sparse_pc, k, sym, instruction)
    BY <1>1 DEF Analyzed, An
  <1>3. k \in 1..(Len(program) + 1) /\ sym \in Nat /\ instruction \in Nat
    BY <1>2 DEF CursorAt
  <1>4. Len(program) \in Nat
    BY DEF Inputs
  <1>5. k \in 1..Len(program) /\ k \in Nat
    BY <1>1, <1>3, <1>4
  <1> QED  BY <1>1, <1>2, <1>3, <1>5, FileIs

LEMMA FileLineIs ==
  ASSUME NEW kind \in SparseKind, NEW f \in Nat
  PROVE  /\ Line(kind, f, NoName, 0) \in SparseLine
         /\ Line(kind, f, NoName, 0).kind = kind /\ Line(kind, f, NoName, 0).file = f
  BY DEF Line, SparseLine

LEMMA HereIs ==
  ASSUME Inputs, NEW kind \in SparseKind, k \in Nat, sym \in Nat, instruction \in Nat
  PROVE  /\ Here(kind) \in SparseLine /\ Here(kind).kind = kind /\ Here(kind).file = k
         /\ Here(kind).func = sym /\ Here(kind).stmt = instruction
  BY LineIs DEF Here


\* The kinds that are no part of a function's body.
LEMMA Kinds ==
  /\ "call" \in InFirstPass /\ Noise \subseteq InFirstPass
  /\ InFirstPass \cap Other = {} /\ Passes \cap BodyKind = {}
  /\ InFirstPass \subseteq BodyKind /\ Other \subseteq BodyKind
  /\ Passes \cap {"file", "end file", "function", "end function", "torn"} = {}
  /\ BodyKind \cap {"file", "end file", "function", "end function", "torn"} = {}
  /\ BodyKind \subseteq SparseKind /\ Passes \subseteq SparseKind
  /\ {"file", "end file", "function", "end function", "torn"} \subseteq SparseKind
  /\ "main" \notin Passes /\ "open" \notin Passes
  BY DEF InFirstPass, Noise, Other, BodyKind, Passes, SparseKind

\* Which line may follow, by the kind of the line before.
LEMMA FollowFile ==
  ASSUME NEW P, NEW z, NEW x, NEW f, NEW pc \in Passes, Len(P) # 0,
         x.kind = "file", x.file = f,
         \/ z.kind = pc /\ f = 1
         \/ z.kind = "end file" /\ z.file # Len(P) /\ f = z.file + 1
  PROVE  Follow(P, z, x)
  <1>2. CASE z.kind = pc /\ f = 1
    <2>1. z.kind \in Passes /\ ~InBody(z) /\ z.kind \notin {"file", "end function", "end file"}
      BY <1>2, Kinds DEF InBody
    <2> QED  BY <1>2, <2>1 DEF Follow
  <1>3. CASE z.kind = "end file" /\ z.file # Len(P) /\ f = z.file + 1
    <2>1. z.kind \notin Passes /\ ~InBody(z)
      BY <1>3, Kinds DEF InBody
    <2> QED  BY <1>3, <2>1 DEF Follow
  <1> QED  BY <1>2, <1>3

LEMMA FollowOthers ==
  ASSUME NEW P, NEW z, NEW x, NEW f, NEW pc \in Passes, x.kind = "others",
         \/ z.kind = pc /\ Len(P) = 0
         \/ z.kind = "end file" /\ z.file = Len(P)
  PROVE  Follow(P, z, x)
  <1>1. CASE z.kind = pc /\ Len(P) = 0
    <2>1. z.kind \in Passes /\ ~InBody(z) /\ z.kind \notin {"file", "end function", "end file"}
      BY <1>1, Kinds DEF InBody
    <2> QED  BY <1>1, <2>1 DEF Follow
  <1>2. CASE z.kind = "end file" /\ z.file = Len(P)
    <2>1. z.kind \notin Passes /\ ~InBody(z)
      BY <1>2, Kinds DEF InBody
    <2> QED  BY <1>2, <2>1 DEF Follow
  <1> QED  BY <1>1, <1>2

LEMMA FollowBody ==
  ASSUME NEW P, NEW z, NEW x, InBody(z), x.kind \in BodyKind \cup {"end function", "torn"},
         x.file = z.file, x.func = z.func
  PROVE  Follow(P, z, x)
  <1>1. z.kind \notin Passes /\ z.kind \notin {"file", "end function", "end file"}
    BY Kinds DEF InBody
  <1> QED  BY <1>1 DEF Follow

LEMMA AnFileBegins ==
  ASSUME Inputs, Analyzed, FileBegins
  PROVE  Analyzed'
  <1> DEFINE x == Line("file", k, NoName, 0)
             z == printed[Len(printed)]
  <1>1. /\ InFile /\ sym = 0 /\ printed' = Append(printed, x) /\ sym' = 1 /\ crashed' = crashed
        /\ sparse_pc' = sparse_pc /\ k' = k /\ instruction' = instruction
        /\ program' = program /\ opts' = opts
    BY DEF FileBegins, input
  <1>2. /\ sparse_pc \in Passes /\ k \in 1..Len(program) /\ k \in Nat /\ Len(program[k]) \in Nat
        /\ CursorAt(program, z, sparse_pc, k, sym, instruction)
    BY <1>1, InFileIs
  <1>3. x \in SparseLine /\ x.kind = "file" /\ x.file = k
    <2>1. "file" \in SparseKind
      BY Kinds
    <2> QED  BY <1>2, <2>1, FileLineIs
  <1> HIDE DEF x, z
  <1>4. /\ instruction = 0 /\ k \in 1..(Len(program) + 1)
        /\ \/ z.kind = sparse_pc /\ k = 1
           \/ z.kind = "end file" /\ z.file \in 1..Len(program) /\ k = z.file + 1
    BY <1>1, <1>2 DEF CursorAt
  <1>5. Follow(program, z, x)
    <2>1. Len(program) \in Nat /\ Len(program) # 0
      BY <1>2 DEF Inputs
    <2>2. \A n \in 1..Len(program) : k = n + 1 => n # Len(program)
      BY <1>2, <2>1
    <2> QED  BY <1>2, <1>3, <1>4, <2>1, <2>2, FollowFile
  <1>6. CursorAt(program, x, sparse_pc, k, 1, instruction)
    <2>1. k <= Len(program) /\ 1 <= Len(program[k]) + 1 /\ 1 \in Nat /\ 1 # 0
      BY <1>2 DEF Inputs
    <2>2. 0 \in Nat /\ ~(0 > 0) /\ x.kind \in {"file", "end function"}
      BY <1>3
    <2> QED  BY <1>3, <1>4, <2>1, <2>2 DEF CursorAt
  <1>7. x.kind \notin {"torn"} \cup Passes /\ x.kind \notin Other /\ x.kind \notin InFirstPass
    BY <1>3, Kinds
  <1>8. An(program, opts, Append(printed, x), sparse_pc, k, 1, instruction, crashed)
    BY <1>2, <1>3, <1>5, <1>6, <1>7, AnPrint DEF Analyzed, z
  <1> QED  BY <1>1, <1>8 DEF Analyzed

LEMMA AnFileEnds ==
  ASSUME Inputs, Analyzed, FileEnds
  PROVE  Analyzed'
  <1> DEFINE x == Line("end file", k, NoName, 0)
             z == printed[Len(printed)]
  <1>1. /\ InFile /\ sym > Len(program[k]) /\ printed' = Append(printed, x) /\ k' = k + 1
        /\ sym' = 0 /\ crashed' = crashed
        /\ sparse_pc' = sparse_pc /\ instruction' = instruction
        /\ program' = program /\ opts' = opts
    BY DEF FileEnds, input
  <1>2. /\ sparse_pc \in Passes /\ k \in 1..Len(program) /\ k \in Nat /\ Len(program[k]) \in Nat
        /\ CursorAt(program, z, sparse_pc, k, sym, instruction)
        /\ sym \in Nat /\ instruction \in Nat
    BY <1>1, InFileIs
  <1>3. x \in SparseLine /\ x.kind = "end file" /\ x.file = k
    <2>1. "end file" \in SparseKind
      BY Kinds
    <2> QED  BY <1>2, <2>1, FileLineIs
  <1> HIDE DEF x, z
  <1>4. sym > 0 /\ ~(sym <= Len(program[k]))
    BY <1>1, <1>2
  <1>5. instruction = 0 /\ z.file = k /\ z.kind \in {"file", "end function"}
    <2>1. ~(instruction > 0) /\ z.file = k
      BY <1>2, <1>4 DEF CursorAt
    <2>2. instruction = 0
      BY <1>2, <2>1
    <2> QED  BY <1>2, <1>4, <2>1, <2>2 DEF CursorAt
  <1>6. Follow(program, z, x)
    <2>1. x.file = z.file /\ x.kind \in {"function", "end file"}
      BY <1>3, <1>5
    <2>2. z.kind \notin Passes /\ ~InBody(z) /\ z.kind # "end file"
      BY <1>5, Kinds DEF InBody
    <2> QED  BY <2>1, <2>2 DEF Follow
  <1>7. CursorAt(program, x, sparse_pc, k + 1, 0, instruction)
    <2>1. k + 1 \in 1..(Len(program) + 1) /\ 0 \in Nat /\ ~(0 > 0)
      BY <1>2 DEF Inputs
    <2> QED  BY <1>2, <1>3, <1>5, <2>1 DEF CursorAt
  <1>8. x.kind \notin {"torn"} \cup Passes /\ x.kind \notin Other /\ x.kind \notin InFirstPass
    BY <1>3, Kinds
  <1>9. An(program, opts, Append(printed, x), sparse_pc, k + 1, 0, instruction, crashed)
    BY <1>2, <1>3, <1>6, <1>7, <1>8, AnPrint DEF Analyzed, z
  <1> QED  BY <1>1, <1>9 DEF Analyzed

LEMMA AnFunctionBegins ==
  ASSUME Inputs, Analyzed, FunctionBegins
  PROVE  Analyzed'
  <1> DEFINE x == Here("function")
             z == printed[Len(printed)]
  <1>1. /\ InFile /\ sym \in 1..Len(program[k]) /\ instruction = 0
        /\ printed' = Append(printed, x) /\ instruction' = 1 /\ k' = k
        /\ sym' = sym /\ crashed' = crashed
        /\ sparse_pc' = sparse_pc /\ program' = program /\ opts' = opts
    BY DEF FunctionBegins, input
  <1>2. /\ sparse_pc \in Passes /\ k \in 1..Len(program) /\ k \in Nat /\ Len(program[k]) \in Nat
        /\ CursorAt(program, z, sparse_pc, k, sym, instruction)
        /\ sym \in Nat /\ instruction \in Nat
    BY <1>1, InFileIs
  <1>3. x \in SparseLine /\ x.kind = "function" /\ x.file = k /\ x.func = sym
    <2>1. "function" \in SparseKind
      BY Kinds
    <2> QED  BY <1>2, <2>1, HereIs
  <1> HIDE DEF x, z
  <1>4. sym > 0 /\ sym <= Len(program[k]) /\ sym <= Len(program[k]) + 1
        /\ k \in 1..(Len(program) + 1) /\ k <= Len(program)
    BY <1>1, <1>2 DEF Inputs
  <1>5. z.file = k /\ z.kind \in {"file", "end function"}
    BY <1>1, <1>2, <1>4 DEF CursorAt
  <1>6. Follow(program, z, x)
    <2>1. x.file = z.file /\ x.kind \in {"function", "end file"}
      BY <1>3, <1>5
    <2>2. z.kind \notin Passes /\ ~InBody(z) /\ z.kind # "end file"
      BY <1>5, Kinds DEF InBody
    <2> QED  BY <2>1, <2>2 DEF Follow
  <1>7. CursorAt(program, x, sparse_pc, k, sym, 1)
    <2>1. 1 \in Nat /\ 1 # 0 /\ sym # 0
      BY <1>4
    <2>2. InBody(x)
      BY <1>3 DEF InBody
    <2> QED  BY <1>2, <1>3, <1>4, <2>1, <2>2 DEF CursorAt
  <1>8. x.kind \notin {"torn"} \cup Passes /\ x.kind \notin Other /\ x.kind \notin InFirstPass
    BY <1>3, Kinds
  <1>9. An(program, opts, Append(printed, x), sparse_pc, k, sym, 1, crashed)
    BY <1>2, <1>3, <1>6, <1>7, <1>8, AnPrint DEF Analyzed, z
  <1> QED  BY <1>1, <1>9 DEF Analyzed

\* A line of the function's body, its last line or a torn one.
LEMMA BodyFollows ==
  ASSUME NEW p, NEW s, sparse_pc \in Passes, k \in Nat, sym \in Nat, sym > 0, s > 0, instruction \in Nat,
         An(program, opts, p, sparse_pc, k, sym, s, crashed),
         NEW kind \in BodyKind \cup {"end function", "torn"}
  PROVE  LET x == Line(kind, k, sym, instruction)
         IN  /\ x \in SparseLine /\ x.kind = kind /\ x.file = k /\ x.func = sym
             /\ x.stmt = instruction /\ Follow(program, p[Len(p)], x)
  <1> DEFINE x == Line(kind, k, sym, instruction)
             z == p[Len(p)]
  <1>1. kind \in SparseKind
    BY Kinds
  <1>2. x \in SparseLine /\ x.kind = kind /\ x.file = k /\ x.func = sym /\ x.stmt = instruction
    BY <1>1 DEF Line, SparseLine
  <1>3. CursorAt(program, z, sparse_pc, k, sym, s)
    BY DEF An
  <1> HIDE DEF z, x
  <1>5. InBody(z) /\ z.file = k /\ z.func = sym
    BY <1>3 DEF CursorAt
  <1>6. Follow(program, z, x)
    <2>1. z.kind \notin Passes /\ z.kind \notin {"file", "end function", "end file"}
      BY <1>5, Kinds DEF InBody
    <2> QED  BY <1>2, <1>5, <2>1 DEF Follow
  <1> QED  BY <1>2, <1>6 DEF z, x

LEMMA InFunctionIs ==
  ASSUME Inputs, Analyzed, InFunction
  PROVE  /\ sparse_pc \in Passes /\ k \in 1..Len(program) /\ k \in Nat /\ Len(program[k]) \in Nat
         /\ sym \in 1..Len(program[k]) /\ sym \in Nat /\ instruction \in Nat /\ instruction > 0
         /\ sym + 1 \in Nat /\ sym + 1 > 0 /\ sym + 1 <= Len(program[k]) + 1 /\ sym + 1 # 0
         /\ sym <= Len(program[k]) + 1 /\ sym <= Len(program[k]) /\ sym > 0 /\ sym # 0
         /\ k \in 1..(Len(program) + 1) /\ k <= Len(program)
         /\ instruction + 1 \in Nat /\ instruction + 1 > 0 /\ instruction + 1 # 0
  <1>1. InFile /\ sym \in 1..Len(program[k]) /\ instruction > 0
    BY DEF InFunction
  <1>2. /\ sparse_pc \in Passes /\ k \in 1..Len(program) /\ k \in Nat /\ Len(program[k]) \in Nat
        /\ sym \in Nat /\ instruction \in Nat
    BY <1>1, InFileIs
  <1>3. Len(program) \in Nat
    BY DEF Inputs
  <1> QED  BY <1>1, <1>2, <1>3

LEMMA AnBody ==
  ASSUME Inputs, Analyzed, InFunction, NEW p,
         NEW s \in Nat, s > 0, NEW s2 \in Nat, s2 > 0,
         An(program, opts, p, sparse_pc, k, sym, s, crashed),
         NEW kind \in BodyKind, kind \in Other => sparse_pc = "others",
         kind \in InFirstPass => sparse_pc = "calls"
  PROVE  An(program, opts, Append(p, Here(kind)), sparse_pc, k, sym, s2, crashed)
  <1> DEFINE x == Line(kind, k, sym, instruction)
  <1>1. /\ sparse_pc \in Passes /\ k \in 1..Len(program) /\ k \in Nat /\ Len(program[k]) \in Nat
        /\ sym \in 1..Len(program[k]) /\ sym \in Nat /\ instruction \in Nat
        /\ sym <= Len(program[k]) + 1 /\ sym <= Len(program[k]) /\ sym > 0 /\ sym # 0
        /\ k \in 1..(Len(program) + 1) /\ k <= Len(program)
    BY InFunctionIs
  <1> HIDE DEF x
  <1>2. /\ x \in SparseLine /\ x.kind = kind /\ x.file = k /\ x.func = sym
        /\ Follow(program, p[Len(p)], x)
    BY <1>1, BodyFollows DEF x
  <1>3. InBody(x)
    BY <1>2 DEF InBody
  <1>4. CursorAt(program, x, sparse_pc, k, sym, s2)
    <2>1. s2 # 0
      OBVIOUS
    <2> QED  BY <1>1, <1>2, <1>3, <2>1 DEF CursorAt
  <1>5. x.kind \notin {"torn"} \cup Passes
    BY <1>2, Kinds
  <1>6. An(program, opts, Append(p, x), sparse_pc, k, sym, s2, crashed)
    BY <1>1, <1>2, <1>4, <1>5, AnPrint
  <1> QED  BY <1>6 DEF x, Here

LEMMA AnFunctionEnds ==
  ASSUME Inputs, Analyzed, FunctionEnds
  PROVE  Analyzed'
  <1> DEFINE x == Line("end function", k, sym, instruction)
  <1>1. /\ InFunction /\ printed' = Append(printed, x) /\ instruction' = 0 /\ k' = k
        /\ sym' = sym + 1 /\ crashed' = crashed
        /\ sparse_pc' = sparse_pc /\ program' = program /\ opts' = opts
    BY DEF FunctionEnds, input, Here
  <1>2. /\ sparse_pc \in Passes /\ k \in 1..Len(program) /\ k \in Nat /\ Len(program[k]) \in Nat
        /\ sym \in 1..Len(program[k]) /\ sym \in Nat /\ instruction \in Nat /\ instruction > 0 /\ sym > 0
        /\ sym + 1 \in Nat /\ sym + 1 > 0 /\ sym + 1 <= Len(program[k]) + 1 /\ sym + 1 # 0
        /\ k \in 1..(Len(program) + 1) /\ k <= Len(program)
    BY <1>1, InFunctionIs
  <1> HIDE DEF x
  <1>3. /\ x \in SparseLine /\ x.kind = "end function" /\ x.file = k /\ x.func = sym
        /\ Follow(program, printed[Len(printed)], x)
    BY <1>2, BodyFollows DEF x, Analyzed
  <1>4. CursorAt(program, x, sparse_pc, k, sym + 1, 0)
    <2>1. 0 \in Nat /\ ~(0 > 0)
      OBVIOUS
    <2>2. x.kind \in {"file", "end function"}
      BY <1>3
    <2> QED  BY <1>2, <1>3, <2>1, <2>2 DEF CursorAt
  <1>5. x.kind \notin {"torn"} \cup Passes /\ x.kind \notin Other /\ x.kind \notin InFirstPass
    BY <1>3, Kinds
  <1>6. An(program, opts, Append(printed, x), sparse_pc, k, sym + 1, 0, crashed)
    BY <1>2, <1>3, <1>4, <1>5, AnPrint DEF Analyzed
  <1> QED  BY <1>1, <1>6 DEF Analyzed

LEMMA AnExamine ==
  ASSUME Inputs, Analyzed, examine_stmt_expression
  PROVE  Analyzed'
  <1>1. /\ InFunction /\ instruction' = instruction + 1 /\ k' = k
        /\ sym' = sym /\ crashed' = crashed /\ sparse_pc = "calls"
        /\ sparse_pc' = sparse_pc /\ program' = program /\ opts' = opts
        /\ \/ printed' = Append(printed, Here("call"))
           \/ printed' = Append(Append(printed, Here("gap")), Here("init"))
    BY DEF examine_stmt_expression, input
  <1>2. /\ instruction \in Nat /\ instruction > 0
        /\ instruction + 1 \in Nat /\ instruction + 1 > 0
    BY <1>1, InFunctionIs
  <1>3. An(program, opts, printed, sparse_pc, k, sym, instruction, crashed)
    BY DEF Analyzed
  <1>4. \A kind \in {"call"} \cup Noise : kind \in BodyKind /\ kind \notin Other
    BY Kinds
  <1>5. CASE printed' = Append(printed, Here("call"))
    <2>1. An(program, opts, Append(printed, Here("call")), sparse_pc, k, sym, instruction + 1, crashed)
      BY <1>1, <1>2, <1>3, <1>4, AnBody
    <2> QED  BY <1>1, <1>5, <2>1 DEF Analyzed
  <1>6. CASE printed' = Append(Append(printed, Here("gap")), Here("init"))
    <2>0. "gap" \in Noise /\ "init" \in Noise
      BY DEF Noise
    <2>1. An(program, opts, Append(printed, Here("gap")), sparse_pc, k, sym, instruction + 1, crashed)
      BY <1>1, <1>2, <1>3, <1>4, <2>0, AnBody
    <2>2. An(program, opts, Append(Append(printed, Here("gap")), Here("init")),
             sparse_pc, k, sym, instruction + 1, crashed)
      BY <1>1, <1>2, <1>4, <2>0, <2>1, AnBody
    <2> QED  BY <1>1, <1>6, <2>2 DEF Analyzed
  <1> QED  BY <1>1, <1>5, <1>6

LEMMA AnSummary ==
  ASSUME Inputs, Analyzed, Summary
  PROVE  Analyzed'
  <1>1. /\ InFunction /\ instruction' = instruction + 1 /\ k' = k
        /\ sym' = sym /\ crashed' = crashed /\ sparse_pc = "others"
        /\ sparse_pc' = sparse_pc /\ program' = program /\ opts' = opts
        /\ \/ printed' = printed
           \/ printed' = Append(printed, Here(SummaryOrder[instruction]))
        /\ instruction <= Len(SummaryOrder)
    BY DEF Summary, input
  <1>2. /\ instruction \in Nat /\ instruction > 0 /\ sparse_pc \in Passes /\ sym > 0 /\ sym \in Nat
        /\ sym # 0 /\ instruction # 0 /\ instruction + 1 \in Nat /\ instruction + 1 > 0 /\ instruction + 1 # 0
    BY <1>1, InFunctionIs
  <1>3. An(program, opts, printed, sparse_pc, k, sym, instruction, crashed)
    BY DEF Analyzed
  <1>4. SummaryOrder[instruction] \in Other
    <2>1. instruction = 1 \/ instruction = 2 \/ instruction = 3 \/ instruction = 4
      BY <1>1, <1>2 DEF SummaryOrder
    <2> QED  BY <2>1 DEF SummaryOrder, Other
  <1>5. CASE printed' = Append(printed, Here(SummaryOrder[instruction]))
    <2> DEFINE kind == SummaryOrder[instruction]
    <2> HIDE DEF kind
    <2>1. kind \in Other /\ kind \in BodyKind /\ kind \notin InFirstPass
      BY <1>4, Kinds DEF kind
    <2>2. An(program, opts, Append(printed, Here(kind)), sparse_pc, k, sym, instruction + 1, crashed)
      BY <1>1, <1>2, <1>3, <2>1, AnBody
    <2> QED  BY <1>1, <1>5, <2>2 DEF Analyzed, kind
  <1>6. CASE printed' = printed
    <2>1. CursorAt(program, printed[Len(printed)], sparse_pc, k, sym, instruction)
      BY <1>2, <1>3 DEF An
    <2> DEFINE z == printed[Len(printed)]
    <2> HIDE DEF z
    <2>2. CursorAt(program, z, sparse_pc, k, sym, instruction + 1)
      BY <1>2, <2>1 DEF CursorAt, z
    <2>3. An(program, opts, printed, sparse_pc, k, sym, instruction + 1, crashed)
      BY <1>3, <2>2 DEF An, z
    <2> QED  BY <1>1, <1>6, <2>3 DEF Analyzed
  <1> QED  BY <1>1, <1>5, <1>6

LEMMA AnCrashed ==
  ASSUME NEW P, NEW O, NEW p, Printed(P, p), TornLast(p), NEW f, NEW g, NEW s
  PROVE  An(P, O, p, "open", f, g, s, TRUE)
  BY Kinds DEF An

LEMMA AnDies ==
  ASSUME Inputs, Analyzed, AnalyzerDies
  PROVE  Analyzed'
  <1> DEFINE x == Line("torn", k, sym, instruction)
             all == IF Unended THEN Append(printed, x) ELSE printed
  <1>1. /\ InFunction /\ crashed' = TRUE /\ sparse_pc' = "open" /\ program' = program /\ opts' = opts
        /\ \E n \in 0..Len(all) :
              \/ printed' = SubSeq(all, 1, n)
              \/ /\ n < Len(all)
                 /\ printed' = Append(SubSeq(all, 1, n), [all[n + 1] EXCEPT !.kind = "torn"])
    BY DEF AnalyzerDies, input, Here
  <1>2. /\ sparse_pc \in Passes /\ k \in 1..Len(program) /\ k \in Nat
        /\ sym \in 1..Len(program[k]) /\ sym \in Nat /\ instruction \in Nat /\ instruction > 0 /\ sym > 0
    BY <1>1, InFunctionIs
  <1>3. Printed(program, printed) /\ TornFree(printed) /\ TornLast(printed)
    BY <1>2 DEF Analyzed, An
  <1> HIDE DEF x
  <1>4. /\ x \in SparseLine /\ x.kind = "torn" /\ Follow(program, printed[Len(printed)], x)
    BY <1>2, BodyFollows DEF x, Analyzed
  <1>5. Printed(program, all) /\ TornLast(all)
    <2>1. CASE Unended
      <3>1. all = Append(printed, x)
        BY <2>1
      <3>2. x.kind \notin Other /\ x.kind \notin InFirstPass \cup Passes
        BY <1>4, Kinds
      <3>3. Printed(program, Append(printed, x))
        BY <1>3, <1>4, <3>2, PrintedAppend
      <3>4. printed \in Seq(SparseLine)
        BY <1>3 DEF Printed
      <3>5. /\ Len(Append(printed, x)) = Len(printed) + 1
            /\ \A i \in 1..Len(printed) : Append(printed, x)[i] = printed[i]
            /\ \A i \in 1..(Len(printed) + 1) : i = Len(printed) + 1 \/ i \in 1..Len(printed)
        BY <1>4, <3>4, AppendIs
      <3>6. TornLast(Append(printed, x))
        BY <1>3, <3>5 DEF TornFree, TornLast
      <3> QED  BY <3>1, <3>3, <3>6
    <2>2. CASE ~Unended
      BY <1>3, <2>2
    <2> QED  BY <2>1, <2>2
  <1> HIDE DEF all
  <1>6. Printed(program, printed') /\ TornLast(printed')
    <2>1. PICK n \in 0..Len(all) :
              \/ printed' = SubSeq(all, 1, n)
              \/ /\ n < Len(all)
                 /\ printed' = Append(SubSeq(all, 1, n), [all[n + 1] EXCEPT !.kind = "torn"])
      BY <1>1
    <2>2. CASE printed' = SubSeq(all, 1, n)
      <3>1. Printed(program, printed')
        BY <1>5, <2>2, PrintedPrefix
      <3>2. all \in Seq(SparseLine)
        BY <1>5 DEF Printed
      <3>3. Len(printed') = n /\ \A i \in 1..n : printed'[i] = all[i]
        BY <2>2, <3>2, PrefixIs
      <3>4. ASSUME NEW i \in 1..n, printed'[i].kind = "torn" PROVE i = n
        <4>1. i \in 1..Len(all) /\ Len(all) \in Nat /\ n <= Len(all)
          BY <3>2
        <4>2. i = Len(all)
          BY <1>5, <3>3, <3>4, <4>1 DEF TornLast
        <4> QED  BY <4>1, <4>2
      <3>5. TornLast(printed')
        BY <3>3, <3>4 DEF TornLast
      <3> QED  BY <3>1, <3>5
    <2>3. CASE /\ n < Len(all)
               /\ printed' = Append(SubSeq(all, 1, n), [all[n + 1] EXCEPT !.kind = "torn"])
      BY <1>5, <2>3, PrintedTorn
    <2> QED  BY <2>1, <2>2, <2>3
  <1>7. An(program, opts, printed', "open", k', sym', instruction', TRUE)
    BY <1>6, AnCrashed
  <1> QED  BY <1>1, <1>7 DEF Analyzed

LEMMA NothingPrinted ==
  ASSUME NEW P
  PROVE  /\ Printed(P, <<>>) /\ TornFree(<<>>) /\ TornLast(<<>>) /\ ~OthersBy(<<>>, 0)
         /\ Len(<<>>) = 0
  <1>1. <<>> \in Seq(SparseLine) /\ Len(<<>>) = 0 /\ 1..0 = {} /\ 1..(0 - 1) = {}
    OBVIOUS
  <1> QED  BY <1>1 DEF Printed, TornFree, TornLast, OthersBy, Chained, Sectioned

LEMMA SectionIs ==
  ASSUME Inputs, NEW pass \in Passes, Section(pass), Printed(program, printed), TornFree(printed),
         ~OthersBy(printed, Len(printed)),
         \A x \in SparseLine : x.kind = pass /\ Len(printed) > 0 => Follow(program, printed[Len(printed)], x),
         "call" \in opts => IF Len(printed) = 0 THEN pass = "calls" ELSE printed[1].kind = "calls"
  PROVE  An(program, opts, printed', sparse_pc', k', sym', instruction', FALSE)
  <1> DEFINE x == Line(pass, NoName, NoName, 0)
  <1>1. /\ printed' = Append(printed, x) /\ k' = 1 /\ sym' = 0 /\ instruction' = 0 /\ sparse_pc' = pass
    BY FS_EmptySet DEF Section, FirstFile, Inputs
  <1>2. x \in SparseLine /\ x.kind = pass
    BY Kinds DEF Line, SparseLine
  <1> HIDE DEF x
  <1>3. program \in Seq(Seq(Function)) /\ (pass = "calls" \/ pass = "others")
    BY DEF Inputs, Passes
  <1>4. An(program, opts, Append(printed, x), pass, 1, 0, 0, FALSE)
    BY <1>2, <1>3, AnSection
  <1> QED  BY <1>1, <1>4

LEMMA AnMain ==
  ASSUME Inputs, Analyzed, main \/ NoBlackList
  PROVE  Analyzed'
  <1>1. /\ sparse_pc = "main" /\ program' = program /\ opts' = opts
    BY DEF main, NoBlackList, input
  <1>2. printed = <<>> /\ crashed = FALSE
    BY <1>1 DEF Analyzed, An
  <1>3. ASSUME main PROVE Analyzed'
    <2>1. crashed' = FALSE
      BY <1>2, <1>3 DEF main
    <2>2. ASSUME NEW pass \in Passes, Section(pass), "call" \in opts => pass = "calls" PROVE Analyzed'
      <3>1. An(program, opts, printed', sparse_pc', k', sym', instruction', FALSE)
        <4>1. ~(Len(printed) > 0) /\ Len(printed) = 0
          BY <1>2
        <4>2. Printed(program, printed) /\ TornFree(printed) /\ ~OthersBy(printed, Len(printed))
          BY <1>2, NothingPrinted
        <4> QED  BY <2>2, <4>1, <4>2, SectionIs
      <3> QED  BY <1>1, <2>1, <3>1 DEF Analyzed
    <2>3. ASSUME opts = {}, sparse_pc' = "open", printed' = printed PROVE Analyzed'
      <3>1. Printed(program, printed) /\ TornFree(printed) /\ TornLast(printed)
        BY <1>2, NothingPrinted
      <3>2. "open" \notin Passes /\ "open" # "main" /\ "call" \notin opts
        BY <2>3, Kinds
      <3>3. An(program, opts, printed, "open", k', sym', instruction', FALSE)
        BY <3>1, <3>2 DEF An
      <3> QED  BY <1>1, <2>1, <2>3, <3>3 DEF Analyzed
    <2>4. "calls" \in Passes /\ "others" \in Passes
      BY DEF Passes
    <2> QED  BY <1>3, <2>2, <2>3, <2>4 DEF main
  <1>4. ASSUME NoBlackList PROVE Analyzed'
    <2>1. crashed' = TRUE /\ sparse_pc' = "open" /\ printed' = printed
      BY <1>4 DEF NoBlackList
    <2>2. Printed(program, printed) /\ TornLast(printed)
      BY <1>2, NothingPrinted
    <2> QED  BY <1>1, <2>1, <2>2, AnCrashed DEF Analyzed
  <1> QED  BY <1>3, <1>4

LEMMA AnEndPass ==
  ASSUME Inputs, Analyzed, EndPass
  PROVE  Analyzed'
  <1> DEFINE z == printed[Len(printed)]
  <1>1. /\ sparse_pc \in Passes /\ k > Len(program) /\ program' = program /\ opts' = opts
        /\ crashed' = crashed
        /\ \/ sparse_pc = "calls" /\ Section("others")
           \/ sparse_pc' = "open" /\ UNCHANGED <<k, sym, instruction, printed>>
    BY DEF EndPass, input
  <1>2. /\ Printed(program, printed) /\ TornFree(printed) /\ TornLast(printed) /\ crashed = FALSE
        /\ Len(printed) > 0
        /\ (sparse_pc = "calls" <=> ~OthersBy(printed, Len(printed)))
        /\ CursorAt(program, z, sparse_pc, k, sym, instruction)
        /\ ("call" \in opts => printed[1].kind = "calls")
    BY <1>1, Kinds DEF Analyzed, An
  <1>3. CASE sparse_pc = "calls" /\ Section("others")
    <2> HIDE DEF z
    <2>0. Len(program) \in Nat
      BY DEF Inputs
    <2>1. Len(program) \in Nat /\ k \in 1..(Len(program) + 1) /\ sym \in Nat
      BY <1>2, <2>0 DEF CursorAt
    <2>2. k = Len(program) + 1 /\ ~(k <= Len(program))
      BY <1>1, <2>1
    <2>3. sym = 0
      <3>1. ~(sym > 0)
        BY <1>2, <2>2 DEF CursorAt
      <3> QED  BY <2>1, <3>1
    <2>4. \/ z.kind = sparse_pc /\ k = 1
          \/ z.kind = "end file" /\ z.file \in 1..Len(program) /\ k = z.file + 1
      BY <1>2, <2>3 DEF CursorAt
    <2>5. \/ z.kind = sparse_pc /\ Len(program) = 0
          \/ z.kind = "end file" /\ z.file = Len(program)
      <3>1. k = 1 => Len(program) = 0
        BY <2>1, <2>2
      <3>2. \A n \in 1..Len(program) : k = n + 1 => n = Len(program)
        BY <2>1, <2>2
      <3> QED  BY <2>4, <3>1, <3>2
    <2>6. \A x \in SparseLine : x.kind = "others" => Follow(program, z, x)
      BY <1>1, <2>5, FollowOthers
    <2>7. "others" \in Passes /\ Len(printed) # 0
      BY <1>2 DEF Passes
    <2>8. An(program, opts, printed', sparse_pc', k', sym', instruction', FALSE)
      BY <1>2, <1>3, <2>6, <2>7, SectionIs DEF z
    <2> QED  BY <1>1, <1>2, <2>8 DEF Analyzed
  <1>4. CASE sparse_pc' = "open" /\ UNCHANGED <<k, sym, instruction, printed>>
    <2>1. "open" \notin Passes /\ "open" # "main"
      BY Kinds
    <2>2. An(program, opts, printed, "open", k, sym, instruction, crashed)
      BY <1>2, <2>1 DEF An
    <2> QED  BY <1>1, <1>4, <2>2 DEF Analyzed
  <1> QED  BY <1>1, <1>3, <1>4

LEMMA AnAnalyze ==
  ASSUME Inputs, Analyzed, Analyze
  PROVE  Analyzed'
  BY AnMain, AnEndPass, AnFileBegins, AnFileEnds, AnFunctionBegins, AnFunctionEnds, AnExamine,
     AnSummary, AnDies
     DEF Analyze, parse_file_list, parse_function_list

\* The reader leaves the output as it is.
LEMMA AnRead ==
  ASSUME Analyzed, UNCHANGED <<input, analyzerVars>>, sparse_pc \notin Passes, sparse_pc # "main",
         sparse_pc' \notin Passes, sparse_pc' # "main"
  PROVE  Analyzed'
  <1>1. /\ program' = program /\ opts' = opts /\ printed' = printed /\ crashed' = crashed
    BY DEF input, analyzerVars
  <1>2. An(program, opts, printed, sparse_pc', k', sym', instruction', crashed)
    BY DEF An, Analyzed
  <1> QED  BY <1>1, <1>2 DEF Analyzed

LEMMA InputsStay ==
  ASSUME Inputs, SparseNext \/ UNCHANGED sparseVars
  PROVE  Inputs'
  <1>1. UNCHANGED input
    BY DEF SparseNext, sparseVars, Analyze, main, NoBlackList, EndPass, parse_file_list,
           parse_function_list, FileBegins, FileEnds, FunctionBegins, FunctionEnds,
           examine_stmt_expression, Summary, AnalyzerDies, fopen, parse_output_file, FindSection,
           ReadFile, ReadFunction, ReadError, SectionRead, SparseStopped
  <1> QED  BY <1>1 DEF Inputs, input

-----------------------------------------------------------------------------
(* Sparse: where the reader is in the analyzer's output *)

InCalls == {"calls file", "calls functions", "calls errors"}
InOthers == {"others file", "others functions", "others errors"}
ReaderPc == {"open", "find calls", "find others", "done"} \cup InCalls \cup InOthers

\* The last line read, if it is not the last one there is.
AtFile(p, a, i) ==
  a = Len(p) \/ /\ a > 0
                /\ \/ p[a].kind \in Passes /\ i = 1
                   \/ p[a].kind = "end file" /\ p[a].file \in Nat /\ i = p[a].file + 1
AtFunctions(p, a, i, fn) ==
  a = Len(p) \/ (a > 0 /\ p[a].kind \in {"file", "end function"} /\ p[a].file = i /\ fn = i)
AtErrors(p, a, i, fn, gn) ==
  a = Len(p) \/ (a > 0 /\ InBody(p[a]) /\ p[a].file = i /\ fn = i /\ p[a].func = gn)

Position(P, p, pc, a, i, fn, gn) ==
  /\ pc \in {"main"} \cup Passes \cup ReaderPc
  /\ a \in 0..Len(p)
  /\ pc \in {"main", "open"} \cup Passes => a = 0
  /\ pc \in {"calls file", "others file"} => i \in 1..(Len(P) + 1) /\ AtFile(p, a, i)
  /\ pc \in {"calls functions", "others functions"} => i \in 1..Len(P) /\ AtFunctions(p, a, i, fn)
  /\ pc \in {"calls errors", "others errors"} => i \in 1..Len(P) /\ AtErrors(p, a, i, fn, gn)
  /\ pc \in InCalls => a = Len(p) \/ ~OthersBy(p, a)
  /\ pc \in InOthers => a = Len(p) \/ OthersBy(p, a)

Positioned == Position(program, printed, sparse_pc, sparse_at, k, file_name, func_name)

\* Reading on.
LEMMA NextIs ==
  ASSUME NEW P, NEW p, Printed(P, p), TornLast(p), NEW a \in 0..Len(p), a < Len(p)
  PROVE  /\ a \in Nat /\ Len(p) \in Nat /\ a + 1 \in 1..Len(p) /\ a + 1 \in 0..Len(p) /\ a + 1 > 0
         /\ a # Len(p) /\ p[a + 1] \in SparseLine
         /\ a > 0 => Follow(P, p[a], p[a + 1])
         /\ p[a + 1].kind = "torn" => a + 1 = Len(p)
         /\ OthersBy(p, a + 1) <=> OthersBy(p, a) \/ p[a + 1].kind = "others"
  <1>1. p \in Seq(SparseLine) /\ Chained(P, p)
    BY DEF Printed
  <1>2. a \in Nat /\ Len(p) \in Nat /\ a + 1 \in 1..Len(p) /\ a + 1 \in 0..Len(p) /\ a + 1 > 0
        /\ a # Len(p)
    BY <1>1
  <1>3. p[a + 1] \in SparseLine
    BY <1>1, <1>2
  <1>4. a > 0 => Follow(P, p[a], p[a + 1])
    <2>1. a > 0 => a \in 1..(Len(p) - 1)
      BY <1>2
    <2> QED  BY <1>1, <2>1 DEF Chained
  <1>5. p[a + 1].kind = "torn" => a + 1 = Len(p)
    BY <1>2 DEF TornLast
  <1>6. OthersBy(p, a + 1) <=> OthersBy(p, a) \/ p[a + 1].kind = "others"
    <2>1. /\ \A j \in 1..(a + 1) : j = a + 1 \/ j \in 1..a
          /\ \A j \in 1..a : j \in 1..(a + 1)
          /\ a + 1 \in 1..(a + 1)
      BY <1>2
    <2> QED  BY <2>1 DEF OthersBy
  <1> QED  BY <1>2, <1>3, <1>4, <1>5, <1>6

LEMMA AfterFile ==
  ASSUME NEW P, Len(P) \in Nat, NEW p, Printed(P, p), TornLast(p), NEW a \in 0..Len(p), a < Len(p),
         NEW i \in Nat, 0 < i, i <= Len(P), AtFile(p, a, i)
  PROVE  /\ a + 1 = Len(p) \/ (p[a + 1].kind = "file" /\ p[a + 1].file = i)
         /\ p[a + 1].kind \in {"file", "torn"}
  <1> DEFINE x == p[a]
             y == p[a + 1]
  <1>1. /\ a # Len(p) /\ (a > 0 => Follow(P, x, y)) /\ (y.kind = "torn" => a + 1 = Len(p))
    BY NextIs
  <1> HIDE DEF x, y
  <1>2. a > 0 /\ ((x.kind \in Passes /\ i = 1) \/ (x.kind = "end file" /\ i = x.file + 1))
    BY <1>1 DEF AtFile, x
  <1>3. Follow(P, x, y)
    BY <1>1, <1>2
  <1>4. CASE x.kind \in Passes /\ i = 1
    <2>1. Len(P) # 0
      OBVIOUS
    <2>2. y.kind = "torn" \/ (y.kind = "file" /\ y.file = 1)
      BY <1>3, <1>4, <2>1 DEF Follow
    <2> QED  BY <1>1, <1>4, <2>2 DEF y
  <1>5. CASE x.kind = "end file" /\ i = x.file + 1
    <2>1. ASSUME x.file = Len(P) PROVE FALSE
      <3>1. i = Len(P) + 1
        BY <1>5, <2>1
      <3> QED  BY <3>1
    <2>2. y.kind = "torn" \/ (y.kind = "file" /\ y.file = x.file + 1)
      BY <1>3, <1>5, <2>1 DEF Follow
    <2> QED  BY <1>1, <1>5, <2>2 DEF y
  <1> QED  BY <1>2, <1>4, <1>5

LEMMA AfterLastFile ==
  ASSUME NEW P, Len(P) \in Nat, NEW p, Printed(P, p), TornLast(p), NEW a \in 0..Len(p), a < Len(p),
         AtFile(p, a, Len(P) + 1)
  PROVE  p[a + 1].kind \in {"others", "torn"}
  <1> DEFINE x == p[a]
             y == p[a + 1]
             n == Len(P)
  <1>1. a # Len(p) /\ (a > 0 => Follow(P, x, y))
    BY NextIs
  <1>0. n \in Nat /\ (n + 1 = 1 => n = 0) /\ \A m \in Nat : n + 1 = m + 1 => n = m
    OBVIOUS
  <1> HIDE DEF x, y, n
  <1>2. a > 0 /\ \/ x.kind \in Passes /\ n = 0
                 \/ x.kind = "end file" /\ x.file = n
    BY <1>0, <1>1 DEF AtFile, x, n
  <1>3. Follow(P, x, y)
    BY <1>1, <1>2
  <1>4. y.kind = "others" \/ y.kind = "torn"
    BY <1>2, <1>3 DEF Follow, n
  <1> QED  BY <1>4 DEF y

LEMMA AfterFunctions ==
  ASSUME NEW P, NEW p, Printed(P, p), TornLast(p), NEW a \in 0..Len(p), a < Len(p),
         NEW i, NEW fn, AtFunctions(p, a, i, fn)
  PROVE  /\ a + 1 = Len(p) \/ (p[a + 1].kind \in {"function", "end file"} /\ p[a + 1].file = i /\ fn = i)
         /\ p[a + 1].kind \in {"function", "end file", "torn"}
  <1> DEFINE x == p[a]
             y == p[a + 1]
  <1>1. /\ a # Len(p) /\ (a > 0 => Follow(P, x, y)) /\ (y.kind = "torn" => a + 1 = Len(p))
    BY NextIs
  <1> HIDE DEF x, y
  <1>2. a > 0 /\ x.kind \in {"file", "end function"} /\ x.file = i /\ fn = i
    BY <1>1 DEF AtFunctions, x
  <1>3. y.kind = "torn" \/ (y.kind \in {"function", "end file"} /\ y.file = x.file)
    BY <1>1, <1>2 DEF Follow
  <1> QED  BY <1>1, <1>2, <1>3 DEF y

LEMMA AfterErrors ==
  ASSUME NEW P, NEW p, Printed(P, p), TornLast(p), NEW a \in 0..Len(p), a < Len(p),
         NEW i, NEW fn, NEW gn, AtErrors(p, a, i, fn, gn)
  PROVE  /\ p[a + 1].kind \in BodyKind \cup {"end function", "torn"}
         /\ p[a + 1].file = i /\ fn = i /\ p[a + 1].func = gn
         /\ p[a + 1].kind = "torn" => a + 1 = Len(p)
  <1> DEFINE x == p[a]
             y == p[a + 1]
  <1>1. /\ a # Len(p) /\ (a > 0 => Follow(P, x, y)) /\ (y.kind = "torn" => a + 1 = Len(p))
    BY NextIs
  <1> HIDE DEF x, y
  <1>2. a > 0 /\ InBody(x) /\ x.file = i /\ fn = i /\ x.func = gn
    BY <1>1 DEF AtErrors, x
  <1>3. y.kind \in BodyKind \cup {"end function", "torn"} /\ y.file = x.file /\ y.func = x.func
    BY <1>1, <1>2 DEF Follow
  <1> QED  BY <1>1, <1>2, <1>3 DEF y

\* What the reader starts from.
Ready == Inputs /\ Analyzed /\ Positioned

LEMMA ReadyIs ==
  ASSUME Ready
  PROVE  /\ Len(program) \in Nat /\ Printed(program, printed) /\ TornLast(printed)
         /\ sparse_at \in 0..Len(printed) /\ sparse_at \in Nat /\ Len(printed) \in Nat
         /\ ~More => sparse_at = Len(printed)
         /\ Read => sparse_at < Len(printed) /\ sparse_at' = sparse_at + 1
         /\ Read => sparse_at + 1 \in 0..Len(printed) /\ sparse_at + 1 > 0 /\ sparse_at # Len(printed)
  <1>1. Len(program) \in Nat
    BY DEF Ready, Inputs
  <1>2. Printed(program, printed) /\ TornLast(printed)
    BY DEF Ready, Analyzed, An
  <1>3. sparse_at \in 0..Len(printed)
    BY DEF Ready, Positioned, Position
  <1>4. Len(printed) \in Nat
    BY <1>2 DEF Printed
  <1> QED  BY <1>1, <1>2, <1>3, <1>4 DEF More, Read

\* The reader's place, by where it is in the code.
LEMMA PosFile ==
  ASSUME NEW P, NEW p, NEW pc \in {"calls file", "others file"}, NEW a \in 0..Len(p), NEW i, NEW fn, NEW gn,
         i \in 1..(Len(P) + 1), AtFile(p, a, i),
         pc \in InCalls => a = Len(p) \/ ~OthersBy(p, a),
         pc \in InOthers => a = Len(p) \/ OthersBy(p, a)
  PROVE  Position(P, p, pc, a, i, fn, gn)
  <1>1. pc \in {"main"} \cup Passes \cup ReaderPc /\ pc \notin {"main", "open"} \cup Passes
    BY DEF ReaderPc, InCalls, InOthers, Passes
  <1> QED  BY <1>1 DEF Position

LEMMA PosFunctions ==
  ASSUME NEW P, NEW p, NEW pc \in {"calls functions", "others functions"}, NEW a \in 0..Len(p),
         NEW i, NEW fn, NEW gn,
         i \in 1..Len(P), AtFunctions(p, a, i, fn),
         pc \in InCalls => a = Len(p) \/ ~OthersBy(p, a),
         pc \in InOthers => a = Len(p) \/ OthersBy(p, a)
  PROVE  Position(P, p, pc, a, i, fn, gn)
  <1>1. pc \in {"main"} \cup Passes \cup ReaderPc /\ pc \notin {"main", "open"} \cup Passes
    BY DEF ReaderPc, InCalls, InOthers, Passes
  <1> QED  BY <1>1 DEF Position

LEMMA PosErrors ==
  ASSUME NEW P, NEW p, NEW pc \in {"calls errors", "others errors"}, NEW a \in 0..Len(p), NEW i,
         NEW fn, NEW gn,
         i \in 1..Len(P), AtErrors(p, a, i, fn, gn),
         pc \in InCalls => a = Len(p) \/ ~OthersBy(p, a),
         pc \in InOthers => a = Len(p) \/ OthersBy(p, a)
  PROVE  Position(P, p, pc, a, i, fn, gn)
  <1>1. pc \in {"main"} \cup Passes \cup ReaderPc /\ pc \notin {"main", "open"} \cup Passes
    BY DEF ReaderPc, InCalls, InOthers, Passes
  <1> QED  BY <1>1 DEF Position

LEMMA PosBetween ==
  ASSUME NEW P, NEW p, NEW pc \in {"open", "find calls", "find others", "done"}, NEW a \in 0..Len(p),
         NEW i, NEW fn, NEW gn, pc = "open" => a = 0
  PROVE  Position(P, p, pc, a, i, fn, gn)
  <1>1. pc \in {"main"} \cup Passes \cup ReaderPc /\ pc # "main" /\ pc \notin Passes
        /\ pc \notin InCalls /\ pc \notin InOthers
    BY DEF ReaderPc, InCalls, InOthers, Passes
  <1> QED  BY <1>1 DEF Position

\* The section the reader is in is the one it was in.
LEMMA SameSection ==
  ASSUME Ready, Read, read.kind # "others" \/ sparse_at + 1 = Len(printed)
  PROVE  /\ sparse_pc \in InCalls => sparse_at + 1 = Len(printed) \/ ~OthersBy(printed, sparse_at + 1)
         /\ sparse_pc \in InOthers => sparse_at + 1 = Len(printed) \/ OthersBy(printed, sparse_at + 1)
  <1>1. /\ Printed(program, printed) /\ TornLast(printed) /\ sparse_at \in 0..Len(printed)
        /\ sparse_at < Len(printed) /\ sparse_at # Len(printed)
    BY ReadyIs
  <1>2. OthersBy(printed, sparse_at + 1) <=> OthersBy(printed, sparse_at) \/ read.kind = "others"
    BY <1>1, NextIs DEF read
  <1>3. /\ sparse_pc \in InCalls => sparse_at = Len(printed) \/ ~OthersBy(printed, sparse_at)
        /\ sparse_pc \in InOthers => sparse_at = Len(printed) \/ OthersBy(printed, sparse_at)
    BY DEF Ready, Positioned, Position
  <1> QED  BY <1>1, <1>2, <1>3

LEMMA WithinRange ==
  ASSUME NEW n \in Nat
  PROVE  /\ \A i \in 1..(n + 1) : i <= n => i \in 1..n /\ i \in Nat /\ 0 < i
         /\ \A i \in 1..n : i + 1 \in 1..(n + 1) /\ i \in Nat
         /\ 1 \in 1..(n + 1) /\ (n + 1) - 1 = n
         /\ \A i \in 1..(n + 1) : i > n => i = n + 1
  OBVIOUS

LEMMA PosReadFile ==
  ASSUME Ready, NEW file, NEW functions, ReadFile(file, functions),
         <<file, functions>> \in {<<"calls file", "calls functions">>, <<"others file", "others functions">>}
  PROVE  Positioned'
  <1>1. /\ sparse_pc = file /\ k <= Len(program) /\ sparse_pc' = functions /\ k' = k
        /\ program' = program /\ printed' = printed
        /\ \/ Read /\ file_name' = IF read.kind = "file" THEN read.file ELSE file_name
           \/ ~More /\ sparse_at' = sparse_at
    BY DEF ReadFile, input, analyzerVars
  <1>2. /\ sparse_pc \in {"calls file", "others file"}
        /\ functions \in {"calls functions", "others functions"}
        /\ functions \in InCalls <=> sparse_pc \in InCalls
        /\ functions \in InOthers <=> sparse_pc \in InOthers
    BY <1>1 DEF InCalls, InOthers
  <1>3. k \in 1..(Len(program) + 1) /\ AtFile(printed, sparse_at, k)
    BY <1>2 DEF Ready, Positioned, Position
  <1>4. k \in 1..Len(program) /\ k \in Nat /\ 0 < k
    <2>1. Len(program) \in Nat
      BY ReadyIs
    <2>2. k <= Len(program) /\ k \in 1..(Len(program) + 1)
      BY <1>1, <1>3
    <2> QED  BY <2>1, <2>2, WithinRange
  <1>5. CASE Read /\ file_name' = IF read.kind = "file" THEN read.file ELSE file_name
    <2>1. /\ Len(program) \in Nat /\ Printed(program, printed) /\ TornLast(printed)
          /\ sparse_at \in 0..Len(printed) /\ sparse_at < Len(printed) /\ sparse_at' = sparse_at + 1
          /\ sparse_at + 1 \in 0..Len(printed) /\ sparse_at + 1 > 0
      BY <1>5, ReadyIs
    <2>2. /\ sparse_at + 1 = Len(printed) \/ (read.kind = "file" /\ read.file = k)
          /\ read.kind \in {"file", "torn"}
      BY <1>1, <1>3, <1>4, <2>1, AfterFile DEF read
    <2>3. AtFunctions(printed, sparse_at + 1, k, file_name')
      BY <1>5, <2>1, <2>2 DEF AtFunctions, read
    <2>4. /\ sparse_pc \in InCalls => sparse_at + 1 = Len(printed) \/ ~OthersBy(printed, sparse_at + 1)
          /\ sparse_pc \in InOthers => sparse_at + 1 = Len(printed) \/ OthersBy(printed, sparse_at + 1)
      BY <1>5, <2>2, SameSection
    <2>5. Position(program, printed, functions, sparse_at + 1, k, file_name', func_name')
      BY <1>2, <1>4, <2>1, <2>3, <2>4, PosFunctions
    <2> QED  BY <1>1, <2>1, <2>5 DEF Positioned
  <1>6. CASE ~More /\ sparse_at' = sparse_at
    <2>1. sparse_at = Len(printed) /\ sparse_at \in 0..Len(printed)
      BY <1>6, ReadyIs
    <2>2. AtFunctions(printed, sparse_at, k, file_name')
      BY <2>1 DEF AtFunctions
    <2>3. Position(program, printed, functions, sparse_at, k, file_name', func_name')
      BY <1>2, <1>4, <2>1, <2>2, PosFunctions
    <2> QED  BY <1>1, <1>6, <2>3 DEF Positioned
  <1> QED  BY <1>1, <1>5, <1>6
LEMMA PosReadFunction ==
  ASSUME Ready, NEW file, NEW functions, NEW errors, ReadFunction(file, functions, errors),
         <<file, functions, errors>> \in {<<"calls file", "calls functions", "calls errors">>,
                                          <<"others file", "others functions", "others errors">>}
  PROVE  Positioned'
  <1>1. /\ sparse_pc = functions /\ program' = program /\ printed' = printed
        /\ file_name' = file_name
        /\ \/ /\ Read /\ read.kind = "end file"
              /\ sparse_pc' = file /\ k' = k + 1 /\ func_name' = func_name
           \/ /\ Read /\ read.kind # "end file" /\ sparse_pc' = errors /\ k' = k
              /\ func_name' = IF read.kind = "function" THEN read.func ELSE func_name
           \/ ~More /\ sparse_pc' = file /\ k' = k + 1 /\ sparse_at' = sparse_at
    BY DEF ReadFunction, input, analyzerVars
  <1>2. /\ sparse_pc \in {"calls functions", "others functions"}
        /\ file \in {"calls file", "others file"} /\ errors \in {"calls errors", "others errors"}
        /\ file \in InCalls <=> sparse_pc \in InCalls
        /\ file \in InOthers <=> sparse_pc \in InOthers
        /\ errors \in InCalls <=> sparse_pc \in InCalls
        /\ errors \in InOthers <=> sparse_pc \in InOthers
    BY <1>1 DEF InCalls, InOthers
  <1>3. k \in 1..Len(program) /\ AtFunctions(printed, sparse_at, k, file_name)
    BY <1>2 DEF Ready, Positioned, Position
  <1>4. k + 1 \in 1..(Len(program) + 1)
    <2>1. Len(program) \in Nat /\ k \in 1..Len(program)
      BY <1>3, ReadyIs
    <2> QED  BY <2>1, WithinRange
  <1>5. ASSUME Read
        PROVE  /\ sparse_at + 1 = Len(printed) \/
                    (read.kind \in {"function", "end file"} /\ read.file = k /\ file_name = k)
               /\ read.kind \in {"function", "end file", "torn"}
               /\ sparse_at + 1 \in 0..Len(printed) /\ sparse_at + 1 > 0 /\ sparse_at' = sparse_at + 1
               /\ sparse_pc \in InCalls => sparse_at + 1 = Len(printed) \/ ~OthersBy(printed, sparse_at + 1)
               /\ sparse_pc \in InOthers => sparse_at + 1 = Len(printed) \/ OthersBy(printed, sparse_at + 1)
    <2>1. /\ Printed(program, printed) /\ TornLast(printed)
          /\ sparse_at \in 0..Len(printed) /\ sparse_at < Len(printed) /\ sparse_at' = sparse_at + 1
          /\ sparse_at + 1 \in 0..Len(printed) /\ sparse_at + 1 > 0
      BY <1>5, ReadyIs
    <2>2. /\ sparse_at + 1 = Len(printed) \/
               (read.kind \in {"function", "end file"} /\ read.file = k /\ file_name = k)
          /\ read.kind \in {"function", "end file", "torn"}
      BY <1>3, <2>1, AfterFunctions DEF read
    <2>3. read.kind # "others"
      BY <2>2
    <2> QED  BY <1>5, <2>1, <2>2, <2>3, SameSection
  <1>6. CASE /\ Read /\ read.kind = "end file"
             /\ sparse_pc' = file /\ k' = k + 1 /\ func_name' = func_name
    <2>0. k \in Nat
      BY <1>3, WithinRange, ReadyIs
    <2>1. AtFile(printed, sparse_at + 1, k + 1)
      BY <1>5, <1>6, <2>0 DEF AtFile, read
    <2>2. Position(program, printed, file, sparse_at + 1, k + 1, file_name', func_name')
      BY <1>2, <1>4, <1>5, <1>6, <2>1, PosFile
    <2> QED  BY <1>1, <1>5, <1>6, <2>2 DEF Positioned
  <1>7. CASE /\ Read /\ read.kind # "end file" /\ sparse_pc' = errors /\ k' = k
             /\ func_name' = IF read.kind = "function" THEN read.func ELSE func_name
    <2>0. sparse_at + 1 = Len(printed) \/ (read.kind = "function" /\ read.file = k /\ file_name = k)
      BY <1>5, <1>7
    <2>1. AtErrors(printed, sparse_at + 1, k, file_name, func_name')
      BY <1>5, <1>7, <2>0 DEF AtErrors, read, InBody
    <2>2. Position(program, printed, errors, sparse_at + 1, k, file_name, func_name')
      BY <1>2, <1>3, <1>5, <1>7, <2>1, PosErrors
    <2> QED  BY <1>1, <1>5, <1>7, <2>2 DEF Positioned
  <1>8. CASE ~More /\ sparse_pc' = file /\ k' = k + 1 /\ sparse_at' = sparse_at
    <2>1. sparse_at = Len(printed) /\ sparse_at \in 0..Len(printed)
      BY <1>8, ReadyIs
    <2>2. AtFile(printed, sparse_at, k + 1)
      BY <2>1 DEF AtFile
    <2>3. Position(program, printed, file, sparse_at, k + 1, file_name', func_name')
      BY <1>2, <1>4, <2>1, <2>2, PosFile
    <2> QED  BY <1>1, <1>8, <2>3 DEF Positioned
  <1> QED  BY <1>1, <1>6, <1>7, <1>8

\* What ReadError reads.
LEMMA ErrorRead ==
  ASSUME Ready, sparse_pc \in {"calls errors", "others errors"}, Read
  PROVE  /\ read.kind \in BodyKind \cup {"end function", "torn"}
         /\ read.file = k /\ file_name = k /\ read.func = func_name
         /\ read.kind = "torn" => sparse_at + 1 = Len(printed)
         /\ sparse_at + 1 \in 0..Len(printed) /\ sparse_at + 1 > 0 /\ sparse_at' = sparse_at + 1
         /\ sparse_pc \in InCalls => sparse_at + 1 = Len(printed) \/ ~OthersBy(printed, sparse_at + 1)
         /\ sparse_pc \in InOthers => sparse_at + 1 = Len(printed) \/ OthersBy(printed, sparse_at + 1)
  <1>1. /\ Printed(program, printed) /\ TornLast(printed)
        /\ sparse_at \in 0..Len(printed) /\ sparse_at < Len(printed) /\ sparse_at' = sparse_at + 1
        /\ sparse_at + 1 \in 0..Len(printed) /\ sparse_at + 1 > 0
    BY ReadyIs
  <1>2. AtErrors(printed, sparse_at, k, file_name, func_name)
    BY DEF Ready, Positioned, Position
  <1>3. /\ read.kind \in BodyKind \cup {"end function", "torn"}
        /\ read.file = k /\ file_name = k /\ read.func = func_name
        /\ read.kind = "torn" => sparse_at + 1 = Len(printed)
    BY <1>1, <1>2, AfterErrors DEF read
  <1>4. read.kind # "others"
    BY <1>3 DEF BodyKind, InFirstPass, Noise, Other
  <1> QED  BY <1>1, <1>3, <1>4, SameSection

LEMMA PosReadError ==
  ASSUME Ready, NEW file, NEW functions, NEW errors, ReadError(file, functions, errors),
         <<file, functions, errors>> \in {<<"calls file", "calls functions", "calls errors">>,
                                          <<"others file", "others functions", "others errors">>}
  PROVE  Positioned'
  <1>1. /\ sparse_pc = errors /\ program' = program /\ printed' = printed /\ k' = k
        /\ file_name' = file_name /\ func_name' = func_name
        /\ \/ Read /\ sparse_pc' = IF read.kind = "end function" THEN functions ELSE errors
           \/ ~More /\ sparse_pc' = functions /\ sparse_at' = sparse_at
    BY DEF ReadError, input, analyzerVars
  <1>2. /\ sparse_pc \in {"calls errors", "others errors"} /\ errors \in {"calls errors", "others errors"}
        /\ functions \in {"calls functions", "others functions"}
        /\ functions \in InCalls <=> sparse_pc \in InCalls
        /\ functions \in InOthers <=> sparse_pc \in InOthers
        /\ errors \in InCalls <=> sparse_pc \in InCalls
        /\ errors \in InOthers <=> sparse_pc \in InOthers
    BY <1>1 DEF InCalls, InOthers
  <1>3. k \in 1..Len(program)
    BY <1>2 DEF Ready, Positioned, Position
  <1>4. CASE Read /\ read.kind = "end function" /\ sparse_pc' = functions
    <2>1. AtFunctions(printed, sparse_at + 1, k, file_name)
      BY <1>2, <1>4, ErrorRead DEF AtFunctions, read
    <2>2. Position(program, printed, functions, sparse_at + 1, k, file_name, func_name)
      BY <1>2, <1>3, <1>4, <2>1, ErrorRead, PosFunctions
    <2> QED  BY <1>1, <1>2, <1>4, <2>2, ErrorRead DEF Positioned
  <1>5. CASE Read /\ read.kind # "end function" /\ sparse_pc' = errors
    <2>0. sparse_at + 1 = Len(printed) \/ read.kind \in BodyKind
      BY <1>2, <1>5, ErrorRead
    <2>1. AtErrors(printed, sparse_at + 1, k, file_name, func_name)
      BY <1>2, <1>5, <2>0, ErrorRead DEF AtErrors, read, InBody
    <2>2. Position(program, printed, errors, sparse_at + 1, k, file_name, func_name)
      BY <1>2, <1>3, <1>5, <2>1, ErrorRead, PosErrors
    <2> QED  BY <1>1, <1>2, <1>5, <2>2, ErrorRead DEF Positioned
  <1>6. CASE ~More /\ sparse_pc' = functions /\ sparse_at' = sparse_at
    <2>1. sparse_at = Len(printed) /\ sparse_at \in 0..Len(printed)
      BY <1>6, ReadyIs
    <2>2. AtFunctions(printed, sparse_at, k, file_name)
      BY <2>1 DEF AtFunctions
    <2>3. Position(program, printed, functions, sparse_at, k, file_name, func_name)
      BY <1>2, <1>3, <2>1, <2>2, PosFunctions
    <2> QED  BY <1>1, <1>6, <2>3 DEF Positioned
  <1> QED  BY <1>1, <1>4, <1>5, <1>6

LEMMA PosFindSection ==
  ASSUME Ready, NEW pass, NEW find, NEW file, FindSection(pass, find, file),
         <<pass, find, file>> \in {<<"calls", "find calls", "calls file">>,
                                   <<"others", "find others", "others file">>}
  PROVE  Positioned'
  <1>1. /\ sparse_pc = find /\ program' = program /\ printed' = printed
        /\ \/ Read /\ read.kind = pass /\ sparse_pc' = file /\ k' = 1
           \/ Read /\ read.kind # pass /\ sparse_pc' = find
           \/ ~More /\ sparse_pc' = file /\ k' = 1 /\ sparse_at' = sparse_at
    BY DEF FindSection, input, analyzerVars
  <1>2. /\ file \in {"calls file", "others file"} /\ find \in {"find calls", "find others"}
        /\ pass \in Passes /\ find # "open"
        /\ file \in InCalls <=> pass = "calls"
        /\ file \in InOthers <=> pass = "others"
    BY <1>1 DEF InCalls, InOthers, Passes
  <1>3. 1 \in 1..(Len(program) + 1)
    <2>1. Len(program) \in Nat
      BY ReadyIs
    <2> QED  BY <2>1, WithinRange
  <1>4. ASSUME Read
        PROVE  /\ sparse_at + 1 \in 0..Len(printed) /\ sparse_at + 1 > 0 /\ sparse_at' = sparse_at + 1
               /\ read.kind = "others" => OthersBy(printed, sparse_at + 1)
               /\ read.kind = "calls" => ~OthersBy(printed, sparse_at + 1)
    <2>1. /\ Printed(program, printed) /\ TornLast(printed)
          /\ sparse_at \in 0..Len(printed) /\ sparse_at < Len(printed) /\ sparse_at' = sparse_at + 1
          /\ sparse_at + 1 \in 0..Len(printed) /\ sparse_at + 1 > 0 /\ sparse_at \in Nat
      BY <1>4, ReadyIs
    <2>2. /\ OthersBy(printed, sparse_at + 1) <=> OthersBy(printed, sparse_at) \/ read.kind = "others"
          /\ sparse_at + 1 \in 1..Len(printed)
      BY <2>1, NextIs DEF read
    <2>3. read.kind \in Passes => ~OthersBy(printed, (sparse_at + 1) - 1)
      BY <2>1, <2>2 DEF Printed, Sectioned, read
    <2>4. (sparse_at + 1) - 1 = sparse_at
      BY <2>1, WithinRange
    <2>5. "calls" \in Passes /\ "calls" # "others"
      BY DEF Passes
    <2> QED  BY <2>1, <2>2, <2>3, <2>4, <2>5
  <1>5. CASE Read /\ read.kind = pass /\ sparse_pc' = file /\ k' = 1
    <2>1. AtFile(printed, sparse_at + 1, 1)
      BY <1>2, <1>4, <1>5 DEF AtFile, read
    <2>2. Position(program, printed, file, sparse_at + 1, 1, file_name', func_name')
      BY <1>2, <1>3, <1>4, <1>5, <2>1, PosFile
    <2> QED  BY <1>1, <1>4, <1>5, <2>2 DEF Positioned
  <1>6. CASE Read /\ read.kind # pass /\ sparse_pc' = find
    <2>1. Position(program, printed, find, sparse_at + 1, k', file_name', func_name')
      BY <1>2, <1>4, <1>6, PosBetween
    <2> QED  BY <1>1, <1>4, <1>6, <2>1 DEF Positioned
  <1>7. CASE ~More /\ sparse_pc' = file /\ k' = 1 /\ sparse_at' = sparse_at
    <2>1. sparse_at = Len(printed) /\ sparse_at \in 0..Len(printed)
      BY <1>7, ReadyIs
    <2>2. AtFile(printed, sparse_at, 1)
      BY <2>1 DEF AtFile
    <2>3. Position(program, printed, file, sparse_at, 1, file_name', func_name')
      BY <1>2, <1>3, <2>1, <2>2, PosFile
    <2> QED  BY <1>1, <1>7, <2>3 DEF Positioned
  <1> QED  BY <1>1, <1>5, <1>6, <1>7

LEMMA PosElsewhere ==
  ASSUME Ready, fopen \/ SectionRead
  PROVE  Positioned'
  <1>1. /\ program' = program /\ printed' = printed /\ sparse_at' = sparse_at
        /\ sparse_pc' \in {"find calls", "find others", "done"}
    BY DEF fopen, SectionRead, input, analyzerVars, moduleVars
  <1>2. sparse_at \in 0..Len(printed)
    BY ReadyIs
  <1>3. sparse_pc' \in {"open", "find calls", "find others", "done"} /\ sparse_pc' # "open"
    BY <1>1
  <1>4. Position(program, printed, sparse_pc', sparse_at, k', file_name', func_name')
    BY <1>2, <1>3, PosBetween
  <1> QED  BY <1>1, <1>4 DEF Positioned

LEMMA PosAnalyze ==
  ASSUME Ready, Analyze
  PROVE  Positioned'
  <1>1. /\ sparse_pc \in {"main"} \cup Passes /\ sparse_at' = sparse_at
        /\ sparse_pc' \in {"open"} \cup Passes
    <2>1. CASE main
      BY <2>1 DEF main, Section, moduleVars, Passes
    <2>2. CASE NoBlackList
      BY <2>2 DEF NoBlackList, moduleVars
    <2>3. CASE EndPass
      BY <2>3 DEF EndPass, Section, moduleVars, Passes
    <2>4. CASE parse_file_list
      BY <2>4 DEF parse_file_list, FileBegins, FileEnds, InFile, moduleVars
    <2>5. CASE parse_function_list
      BY <2>5 DEF parse_function_list, FunctionBegins, FunctionEnds, examine_stmt_expression,
                  Summary, InFile, InFunction, moduleVars
    <2>6. CASE AnalyzerDies
      BY <2>6 DEF AnalyzerDies, InFunction, InFile, moduleVars
    <2> QED  BY <2>1, <2>2, <2>3, <2>4, <2>5, <2>6 DEF Analyze
  <1>2. sparse_at = 0
    BY <1>1 DEF Ready, Positioned, Position
  <1>3. Analyzed'
    BY AnAnalyze DEF Ready
  <1>4. 0 \in 0..Len(printed')
    <2>1. printed' \in Seq(SparseLine)
      BY <1>3 DEF Analyzed, An, Printed
    <2> QED  BY <2>1
  <1>5. /\ sparse_pc' \in {"main"} \cup Passes \cup ReaderPc
        /\ sparse_pc' \notin {"calls file", "others file"}
        /\ sparse_pc' \notin {"calls functions", "others functions"}
        /\ sparse_pc' \notin {"calls errors", "others errors"}
        /\ sparse_pc' \notin InCalls /\ sparse_pc' \notin InOthers
    BY <1>1 DEF ReaderPc, InCalls, InOthers, Passes
  <1>6. Position(program', printed', sparse_pc', 0, k', file_name', func_name')
    BY <1>4, <1>5 DEF Position
  <1> QED  BY <1>1, <1>2, <1>6 DEF Positioned

LEMMA ReadyParses ==
  ASSUME Ready, parse_output_file
  PROVE  Positioned'
  <1>1. /\ <<"calls file", "calls functions">> \in
             {<<"calls file", "calls functions">>, <<"others file", "others functions">>}
        /\ <<"others file", "others functions">> \in
             {<<"calls file", "calls functions">>, <<"others file", "others functions">>}
    OBVIOUS
  <1>2. /\ <<"calls file", "calls functions", "calls errors">> \in
             {<<"calls file", "calls functions", "calls errors">>,
              <<"others file", "others functions", "others errors">>}
        /\ <<"others file", "others functions", "others errors">> \in
             {<<"calls file", "calls functions", "calls errors">>,
              <<"others file", "others functions", "others errors">>}
    OBVIOUS
  <1>3. /\ <<"calls", "find calls", "calls file">> \in
             {<<"calls", "find calls", "calls file">>, <<"others", "find others", "others file">>}
        /\ <<"others", "find others", "others file">> \in
             {<<"calls", "find calls", "calls file">>, <<"others", "find others", "others file">>}
    OBVIOUS
  <1>4. CASE \/ FindSection("calls", "find calls", "calls file")
             \/ FindSection("others", "find others", "others file")
    BY <1>3, <1>4, PosFindSection
  <1>5. CASE ReadFile("calls file", "calls functions") \/ ReadFile("others file", "others functions")
    BY <1>1, <1>5, PosReadFile
  <1>6. CASE \/ ReadFunction("calls file", "calls functions", "calls errors")
             \/ ReadFunction("others file", "others functions", "others errors")
    BY <1>2, <1>6, PosReadFunction
  <1>7. CASE \/ ReadError("calls file", "calls functions", "calls errors")
             \/ ReadError("others file", "others functions", "others errors")
    BY <1>2, <1>7, PosReadError
  <1> QED  BY <1>4, <1>5, <1>6, <1>7, PosElsewhere DEF parse_output_file

LEMMA AnParses ==
  ASSUME Ready, fopen \/ parse_output_file
  PROVE  Analyzed'
  <1>1. UNCHANGED <<input, analyzerVars>>
    BY DEF fopen, parse_output_file, FindSection, ReadFile, ReadFunction, ReadError, SectionRead
  <1>2. /\ sparse_pc \notin Passes /\ sparse_pc # "main"
        /\ sparse_pc' \notin Passes /\ sparse_pc' # "main"
    BY DEF fopen, parse_output_file, FindSection, ReadFile, ReadFunction, ReadError, SectionRead, Passes
  <1> QED  BY <1>1, <1>2, AnRead DEF Ready

LEMMA ReadyStep ==
  ASSUME Ready, SparseNext \/ UNCHANGED sparseVars
  PROVE  Ready'
  <1>1. Inputs'
    BY InputsStay DEF Ready
  <1>2. CASE Analyze
    BY <1>1, <1>2, AnAnalyze, PosAnalyze DEF Ready
  <1>3. CASE fopen
    BY <1>1, <1>3, AnParses, PosElsewhere DEF Ready
  <1>4. CASE parse_output_file
    BY <1>1, <1>4, AnParses, ReadyParses DEF Ready
  <1>5. CASE UNCHANGED sparseVars
    <2>1. /\ UNCHANGED <<program, opts, printed, crashed, sparse_pc, k, sym, instruction>>
          /\ UNCHANGED <<sparse_at, file_name, func_name>>
      BY <1>5 DEF sparseVars, input, analyzerVars, moduleVars
    <2>2. Analyzed' /\ Positioned'
      BY <2>1 DEF Ready, Analyzed, Positioned
    <2> QED  BY <1>1, <2>2 DEF Ready
  <1> QED  BY <1>2, <1>3, <1>4, <1>5 DEF SparseNext, SparseStopped

LEMMA ReadyInit ==
  ASSUME SparseInit, joined = {}
  PROVE  Ready
  <1>1. Inputs
    BY ProgramsAssumption DEF SparseInit, Inputs
  <1>2. Analyzed
    <2>1. printed = <<>> /\ crashed = FALSE /\ sparse_pc = "main"
      BY DEF SparseInit
    <2>2. /\ Printed(program, printed) /\ TornFree(printed) /\ TornLast(printed)
      BY <2>1, NothingPrinted
    <2>3. An(program, opts, printed, "main", k, sym, instruction, FALSE)
      BY <2>1, <2>2, Kinds DEF An
    <2> QED  BY <2>1, <2>3 DEF Analyzed
  <1>3. Positioned
    <2>1. sparse_at = 0 /\ sparse_pc = "main" /\ 0 \in 0..Len(printed)
      BY DEF SparseInit
    <2>2. /\ "main" \notin {"calls file", "others file"}
          /\ "main" \notin {"calls functions", "others functions"}
          /\ "main" \notin {"calls errors", "others errors"}
          /\ "main" \notin InCalls /\ "main" \notin InOthers
      BY DEF InCalls, InOthers
    <2>3. Position(program, printed, "main", 0, k, file_name, func_name)
      BY <2>1, <2>2 DEF Position
    <2> QED  BY <2>1, <2>3 DEF Positioned
  <1> QED  BY <1>1, <1>2, <1>3 DEF Ready

SparseErrors == [type : ErrorKind, file : Nat \cup {NoName}, func : Nat \cup {NoName}, line : SparseLine]

\* An error that names the place it was printed for.
NamesPlace(e) == e.file = e.line.file /\ e.func = e.line.func
Meant(e) == e.line.kind = e.type \/ (e.type = "call" /\ e.line.kind \in Noise)

Attribution(E, p, a, cr) ==
  /\ E \in Seq(SparseErrors)
  /\ \A n \in 1..Len(E) :
       /\ NamesPlace(E[n])
       /\ Meant(E[n]) \/ (cr /\ E[n].line.kind = "torn" /\ a = Len(p) /\ n = Len(E))

SparseAt == /\ Ready /\ Attribution(sparse_errs, printed, sparse_at, crashed)
            /\ sparse_pc \in {"main", "open"} \cup Passes => sparse_errs = <<>>

\* The error that a line is taken for.
LEMMA ErrorMade ==
  ASSUME Ready, NEW file, NEW functions, NEW errors, ReadError(file, functions, errors),
         <<file, functions, errors>> \in {<<"calls file", "calls functions", "calls errors">>,
                                          <<"others file", "others functions", "others errors">>},
         Read, read.kind # "end function", Wanted(file, read)
  PROVE  LET e == [type |-> IF file = "calls file" THEN "call" ELSE read.kind,
                   file |-> file_name, func |-> func_name, line |-> read]
         IN  /\ sparse_errs' = Append(sparse_errs, e)
             /\ e \in SparseErrors /\ NamesPlace(e)
             /\ Meant(e) \/ (crashed /\ e.line.kind = "torn" /\ sparse_at + 1 = Len(printed))
  <1> DEFINE e == [type |-> IF file = "calls file" THEN "call" ELSE read.kind,
                   file |-> file_name, func |-> func_name, line |-> read]
  <1>1. /\ sparse_pc = errors /\ Read /\ read.kind # "end function" /\ Wanted(file, read)
        /\ sparse_errs' = Append(sparse_errs, e)
    BY DEF ReadError, Read
  <1>2. /\ sparse_pc \in {"calls errors", "others errors"}
        /\ (sparse_pc \in InCalls <=> file = "calls file")
    BY <1>1 DEF InCalls
  <1>3. /\ read.kind \in BodyKind \cup {"end function", "torn"}
        /\ read.file = k /\ file_name = k /\ read.func = func_name
        /\ read.kind = "torn" => sparse_at + 1 = Len(printed)
    BY <1>1, <1>2, ErrorRead
  <1>4. /\ Printed(program, printed) /\ TornLast(printed) /\ sparse_at \in Nat
        /\ sparse_at \in 0..Len(printed) /\ sparse_at < Len(printed)
    BY <1>1, ReadyIs
  <1>5. read \in SparseLine /\ sparse_at + 1 \in 1..Len(printed) /\ sparse_at # Len(printed)
    BY <1>4, NextIs DEF read
  <1>6. file = "calls file" => read.kind \notin Other
    <2>1. file = "calls file" => ~OthersBy(printed, sparse_at)
      BY <1>2, <1>5 DEF Ready, Positioned, Position
    <2>2. read.kind \in Other => OthersBy(printed, (sparse_at + 1) - 1)
      BY <1>4, <1>5 DEF Printed, Sectioned, read
    <2>3. (sparse_at + 1) - 1 = sparse_at
      BY <1>4, WithinRange
    <2> QED  BY <2>1, <2>2, <2>3
  <1>7. read.kind = "torn" => crashed
    <2>1. ~crashed => TornFree(printed)
      BY DEF Ready, Analyzed, An
    <2> QED  BY <1>5, <2>1 DEF TornFree, read
  <1>8. /\ file # "calls file" => read.kind \in Other
        /\ file = "calls file" /\ read.kind # "torn" => read.kind \in {"call"} \cup Noise
    BY <1>1, <1>3, <1>6 DEF Wanted, BodyKind, InFirstPass
  <1> DEFINE t == IF file = "calls file" THEN "call" ELSE read.kind
  <1>9. t \in ErrorKind
    BY <1>8 DEF ErrorKind
  <1>10. /\ read.file \in Nat \cup {NoName} /\ read.func \in Nat \cup {NoName}
    BY <1>5 DEF SparseLine
  <1>11. file_name = read.file /\ func_name = read.func
    BY <1>3
  <1>12. t = read.kind \/ (t = "call" /\ (read.kind \in Noise \/ read.kind = "torn"))
    BY <1>8
  <1> DEFINE y == read
  <1>13. e = [type |-> t, file |-> file_name, func |-> func_name, line |-> y]
    OBVIOUS
  <1> HIDE DEF t, y, e
  <1>14. e.type = t /\ e.file = file_name /\ e.func = func_name /\ e.line = y
    BY <1>13
  <1>15. e \in SparseErrors
    <2>1. y \in SparseLine /\ file_name \in Nat \cup {NoName} /\ func_name \in Nat \cup {NoName}
      BY <1>5, <1>10, <1>11 DEF y
    <2> QED  BY <1>9, <1>13, <2>1 DEF SparseErrors
  <1>16. NamesPlace(e)
    BY <1>11, <1>14 DEF NamesPlace, y
  <1>17. Meant(e) \/ (crashed /\ e.line.kind = "torn" /\ sparse_at + 1 = Len(printed))
    BY <1>3, <1>7, <1>12, <1>14 DEF Meant, y
  <1> QED  BY <1>1, <1>15, <1>16, <1>17 DEF e

LEMMA AttributionStays ==
  ASSUME NEW E, NEW p, NEW a, NEW a2, NEW cr, Attribution(E, p, a, cr), a = Len(p) => a2 = Len(p)
  PROVE  Attribution(E, p, a2, cr)
  BY DEF Attribution

LEMMA AttributionAppend ==
  ASSUME NEW E, NEW p, NEW a, NEW a2, NEW cr, Attribution(E, p, a, cr), a # Len(p),
         NEW e \in SparseErrors, NamesPlace(e),
         Meant(e) \/ (cr /\ e.line.kind = "torn" /\ a2 = Len(p))
  PROVE  Attribution(Append(E, e), p, a2, cr)
  <1> DEFINE F == Append(E, e)
  <1>1. E \in Seq(SparseErrors) /\ \A n \in 1..Len(E) : NamesPlace(E[n]) /\ Meant(E[n])
    BY DEF Attribution
  <1>2. /\ F \in Seq(SparseErrors) /\ Len(F) = Len(E) + 1 /\ F[Len(E) + 1] = e /\ Len(E) \in Nat
        /\ \A n \in 1..Len(E) : F[n] = E[n]
        /\ \A n \in 1..(Len(E) + 1) : n = Len(E) + 1 \/ n \in 1..Len(E)
    BY <1>1
  <1> HIDE DEF F
  <1>3. Attribution(F, p, a2, cr)
    BY <1>1, <1>2 DEF Attribution
  <1> QED  BY <1>3 DEF F

LEMMA AtStep ==
  ASSUME SparseAt, SparseNext \/ UNCHANGED sparseVars
  PROVE  SparseAt'
  <1>1. Ready'
    BY ReadyStep DEF SparseAt
  <1>2. Ready /\ Attribution(sparse_errs, printed, sparse_at, crashed)
    BY DEF SparseAt
  <1>3. CASE Analyze
    <2>1. sparse_pc \in {"main"} \cup Passes /\ sparse_errs' = sparse_errs
      <3>1. CASE main
        BY <3>1 DEF main, moduleVars
      <3>2. CASE NoBlackList
        BY <3>2 DEF NoBlackList, moduleVars
      <3>3. CASE EndPass
        BY <3>3 DEF EndPass, moduleVars
      <3>4. CASE parse_file_list
        BY <3>4 DEF parse_file_list, FileBegins, FileEnds, InFile, moduleVars
      <3>5. CASE parse_function_list
        BY <3>5 DEF parse_function_list, FunctionBegins, FunctionEnds, examine_stmt_expression,
                    Summary, InFile, InFunction, moduleVars
      <3>6. CASE AnalyzerDies
        BY <3>6 DEF AnalyzerDies, InFunction, InFile, moduleVars
      <3> QED  BY <1>3, <3>1, <3>2, <3>3, <3>4, <3>5, <3>6 DEF Analyze
    <2>2. sparse_errs' = <<>>
      BY <2>1 DEF SparseAt
    <2>3. <<>> \in Seq(SparseErrors) /\ Len(<<>>) = 0 /\ 1..0 = {}
      OBVIOUS
    <2>4. Attribution(sparse_errs', printed', sparse_at', crashed')
      BY <2>2, <2>3 DEF Attribution
    <2> QED  BY <1>1, <2>2, <2>4 DEF SparseAt
  <1>4. CASE fopen \/ parse_output_file \/ UNCHANGED sparseVars
    <2>1. printed' = printed /\ crashed' = crashed
      BY <1>4 DEF fopen, parse_output_file, FindSection, ReadFile, ReadFunction, ReadError, SectionRead,
                  sparseVars, analyzerVars
    <2>2. sparse_at = Len(printed) => sparse_at' = Len(printed)
      <3>1. ~More => sparse_at' = sparse_at
        BY <1>4 DEF fopen, parse_output_file, FindSection, ReadFile, ReadFunction, ReadError, SectionRead,
                    sparseVars, moduleVars, Read
      <3>2. sparse_at = Len(printed) => ~More
        <4>1. Len(printed) \in Nat
          BY <1>2, ReadyIs
        <4> QED  BY <4>1 DEF More
      <3> QED  BY <3>1, <3>2
    <2>3. CASE sparse_errs' = sparse_errs
      <3>1. Attribution(sparse_errs', printed', sparse_at', crashed')
        BY <1>2, <2>1, <2>2, <2>3, AttributionStays
      <3>2. sparse_pc' \in {"main", "open"} \cup Passes => sparse_pc' = sparse_pc
        BY <1>4 DEF fopen, parse_output_file, FindSection, ReadFile, ReadFunction, ReadError, SectionRead,
                    sparseVars, Passes
      <3> QED  BY <1>1, <2>3, <3>1, <3>2 DEF SparseAt
    <2>4. CASE sparse_errs' # sparse_errs
      <3>1. PICK file, functions, errors :
               /\ ReadError(file, functions, errors)
               /\ <<file, functions, errors>> \in {<<"calls file", "calls functions", "calls errors">>,
                                                   <<"others file", "others functions", "others errors">>}
        <4>1. \/ ReadError("calls file", "calls functions", "calls errors")
              \/ ReadError("others file", "others functions", "others errors")
          BY <1>4, <2>4 DEF fopen, parse_output_file, FindSection, ReadFile, ReadFunction, SectionRead,
                            sparseVars, moduleVars
        <4> QED  BY <4>1
      <3> DEFINE e == [type |-> IF file = "calls file" THEN "call" ELSE read.kind,
                       file |-> file_name, func |-> func_name, line |-> read]
      <3>2. /\ Read /\ sparse_errs' = Append(sparse_errs, e)
            /\ e \in SparseErrors /\ NamesPlace(e)
            /\ Meant(e) \/ (crashed /\ e.line.kind = "torn" /\ sparse_at + 1 = Len(printed))
        <4>1. Read /\ read.kind # "end function" /\ Wanted(file, read)
          BY <2>4, <3>1 DEF ReadError
        <4> QED  BY <1>2, <3>1, <4>1, ErrorMade
      <3> HIDE DEF e
      <3>3. sparse_at # Len(printed) /\ sparse_at' = sparse_at + 1
        BY <1>2, <3>2, ReadyIs
      <3>4. Attribution(sparse_errs', printed', sparse_at', crashed')
        BY <1>2, <2>1, <3>2, <3>3, AttributionAppend
      <3>5. sparse_pc' \notin {"main", "open"} \cup Passes
        <4>1. sparse_pc' \in {functions, errors}
          BY <3>1 DEF ReadError
        <4> QED  BY <3>1, <4>1 DEF Passes
      <3> QED  BY <1>1, <3>4, <3>5 DEF SparseAt
    <2> QED  BY <2>3, <2>4
  <1> QED  BY <1>3, <1>4 DEF SparseNext, SparseStopped

LEMMA AtInit ==
  ASSUME SparseInit, joined = {}
  PROVE  SparseAt
  <1>1. Ready
    BY ReadyInit
  <1>2. sparse_errs = <<>>
    BY DEF SparseInit
  <1>3. <<>> \in Seq(SparseErrors) /\ Len(<<>>) = 0 /\ 1..0 = {}
    OBVIOUS
  <1> QED  BY <1>1, <1>2, <1>3 DEF SparseAt, Attribution

\* joined is given and the invariant is about the other case.
SparseSafe == joined = {} => SparseAt

\* What parse_output_file relies on holds whatever the analyzer does: its
\* output is in order up to where it was cut off, and the module knows where
\* in it it is.
THEOREM SparseInvariance == SparseSpec => []SparseSafe
  <1>1. SparseInit => SparseSafe
    BY AtInit DEF SparseSafe, SparseInit
  <1>2. SparseSafe /\ [SparseNext]_sparseVars => SparseSafe'
    <2> SUFFICES ASSUME SparseSafe, SparseNext \/ UNCHANGED sparseVars PROVE SparseSafe'
      OBVIOUS
    <2>1. joined' = joined
      BY DEF SparseNext, sparseVars, Analyze, main, NoBlackList, EndPass, parse_file_list,
           parse_function_list, FileBegins, FileEnds, FunctionBegins, FunctionEnds,
           examine_stmt_expression, Summary, AnalyzerDies, fopen, parse_output_file, FindSection,
           ReadFile, ReadFunction, ReadError, SectionRead, SparseStopped, input
    <2> QED  BY <2>1, AtStep DEF SparseSafe
  <1> QED  BY <1>1, <1>2, PTL DEF SparseSpec

\* SparseAttribution, for every program, choice of options and tracked errors
\* and every place the analyzer's output can be cut off at: an error is added
\* under the file and function parse_function_list printed it for.
THEOREM SparseAttributed == SparseSpec => []SparseAttribution
  <1>1. SparseSafe => SparseAttribution
    BY DEF SparseSafe, SparseAt, Attribution, NamesPlace, Meant, SparseAttribution
  <1> QED  BY <1>1, SparseInvariance, PTL

-----------------------------------------------------------------------------
(* Sparse: the analyzer prints every complaint, once and in order *)

\* The lines that the first and the second pass owe the program P.
OwedCall(P, O, l) ==
  /\ "call" \in O /\ l.kind \in InFirstPass
  /\ l.stmt \in 1..Len(P[l.file][l.func].calls) /\ l.kind \in Says(P[l.file][l.func].calls[l.stmt])
OwedOther(P, O, l) ==
  /\ l.stmt \in 1..Len(SummaryOrder) /\ l.kind = SummaryOrder[l.stmt]
  /\ l.kind \in P[l.file][l.func].other \cap O
Owed(P, O, l) == /\ l.file \in 1..Len(P) /\ l.func \in 1..Len(P[l.file])
                 /\ OwedCall(P, O, l) \/ OwedOther(P, O, l)

\* Line l comes before the place the analyzer is at, and is printed by then.
Before(l, f, g, s) == \/ l.file < f
                      \/ l.file = f /\ l.func < g
                      \/ l.file = f /\ l.func = g /\ l.stmt < s
Passed(pc, l, f, g, s) == /\ pc # "main"
                          /\ pc = "calls" => InFirst(l) /\ Before(l, f, g, s)
                          /\ pc = "others" => InFirst(l) \/ Before(l, f, g, s)

Whole(P, O, p, pc, f, g, s) ==
  /\ \A i \in 1..Len(p) : p[i].kind \in BodyKind => Owed(P, O, p[i]) /\ Passed(pc, p[i], f, g, s)
  /\ \A l \in SparseLine : Owed(P, O, l) /\ Passed(pc, l, f, g, s) => \E i \in 1..Len(p) : p[i] = l
  /\ \A i, j \in 1..Len(p) :
       i < j /\ p[i].kind \in BodyKind /\ p[j].kind \in BodyKind => Precedes(p[i], p[j])

\* What a line that is owed is.
LEMMA OwedIs ==
  ASSUME NEW P \in Seq(Seq(Function)), NEW O, NEW l \in SparseLine, Owed(P, O, l)
  PROVE  /\ l.file \in Nat /\ l.file > 0 /\ l.file <= Len(P)
         /\ l.func \in Nat /\ l.func > 0 /\ l.func <= Len(P[l.file]) /\ Len(P[l.file]) \in Nat
         /\ l.stmt \in Nat /\ l.stmt > 0 /\ l.kind \in BodyKind
         /\ InFirst(l) => OwedCall(P, O, l) /\ l.stmt <= Len(P[l.file][l.func].calls) /\ "call" \in O
         /\ ~InFirst(l) => OwedOther(P, O, l) /\ l.stmt <= Len(SummaryOrder) /\ l.kind \in O
         /\ InFirst(l) <=> l.kind \in InFirstPass
  <1>1. l.file \in 1..Len(P) /\ l.func \in 1..Len(P[l.file]) /\ l.stmt \in Nat
    BY DEF Owed, SparseLine
  <1>2. Len(P) \in Nat /\ Len(P[l.file]) \in Nat /\ P[l.file] \in Seq(Function)
    BY <1>1
  <1>3. /\ l.file \in Nat /\ l.file > 0 /\ l.file <= Len(P)
        /\ l.func \in Nat /\ l.func > 0 /\ l.func <= Len(P[l.file])
    BY <1>1, <1>2
  <1>4. P[l.file][l.func] \in Function
    BY <1>1, <1>2
  <1>5. P[l.file][l.func].calls \in Seq(Statement) /\ P[l.file][l.func].other \subseteq Other
    BY <1>4 DEF Function
  <1>6. Len(P[l.file][l.func].calls) \in Nat /\ Len(SummaryOrder) = 4
    <2>1. Len(SummaryOrder) = 4
      BY DEF SummaryOrder
    <2>2. \A c \in Seq(Statement) : Len(c) \in Nat
      OBVIOUS
    <2> QED  BY <1>5, <2>1, <2>2, Zenon
  <1>7. CASE OwedCall(P, O, l)
    <2>1. l.kind \in InFirstPass /\ l.kind \notin Other /\ l.kind \in BodyKind
      BY <1>7, Kinds DEF OwedCall
    <2>2. l.stmt > 0 /\ l.stmt <= Len(P[l.file][l.func].calls)
      BY <1>1, <1>6, <1>7 DEF OwedCall
    <2>3. "call" \in O
      BY <1>7 DEF OwedCall
    <2> QED  BY <1>1, <1>2, <1>3, <1>7, <2>1, <2>2, <2>3 DEF InFirst
  <1>8. CASE OwedOther(P, O, l)
    <2>1. l.kind \in Other /\ l.kind \in O
      BY <1>5, <1>8 DEF OwedOther
    <2>2. l.kind \notin InFirstPass /\ l.kind \in BodyKind
      BY <2>1, Kinds
    <2>3. l.stmt > 0 /\ l.stmt <= Len(SummaryOrder)
      BY <1>1, <1>6, <1>8 DEF OwedOther
    <2> QED  BY <1>1, <1>2, <1>3, <1>8, <2>1, <2>2, <2>3 DEF InFirst
  <1> QED  BY <1>7, <1>8 DEF Owed

\* The output grows from p to q while the analyzer moves on.
LEMMA WholeExtend ==
  ASSUME NEW P, NEW O, NEW p \in Seq(SparseLine), NEW q \in Seq(SparseLine),
         Len(p) <= Len(q), \A i \in 1..Len(p) : q[i] = p[i],
         NEW pc, NEW f, NEW g, NEW s, Whole(P, O, p, pc, f, g, s), NEW pc2, NEW f2, NEW g2, NEW s2,
         \A l \in SparseLine : Owed(P, O, l) /\ Passed(pc, l, f, g, s) => Passed(pc2, l, f2, g2, s2),
         \A l \in SparseLine : Owed(P, O, l) /\ Passed(pc2, l, f2, g2, s2) =>
            Passed(pc, l, f, g, s) \/ \E j \in 1..Len(q) : q[j] = l,
         \A j \in 1..Len(q) : j > Len(p) /\ q[j].kind \in BodyKind =>
            /\ Owed(P, O, q[j]) /\ Passed(pc2, q[j], f2, g2, s2)
            /\ \A l \in SparseLine : Owed(P, O, l) /\ Passed(pc, l, f, g, s) => Precedes(l, q[j]),
         \A i, j \in 1..Len(q) :
            i > Len(p) /\ i < j /\ q[i].kind \in BodyKind /\ q[j].kind \in BodyKind => Precedes(q[i], q[j])
  PROVE  Whole(P, O, q, pc2, f2, g2, s2)
  <1>1. /\ \A i \in 1..Len(p) : p[i].kind \in BodyKind => Owed(P, O, p[i]) /\ Passed(pc, p[i], f, g, s)
        /\ \A l \in SparseLine : Owed(P, O, l) /\ Passed(pc, l, f, g, s) => \E i \in 1..Len(p) : p[i] = l
        /\ \A i, j \in 1..Len(p) :
              i < j /\ p[i].kind \in BodyKind /\ p[j].kind \in BodyKind => Precedes(p[i], p[j])
    BY DEF Whole
  <1>2. Len(p) \in Nat /\ Len(q) \in Nat
    OBVIOUS
  <1>3. /\ \A i \in 1..Len(q) : i > Len(p) \/ i \in 1..Len(p)
        /\ \A i \in 1..Len(p) : i \in 1..Len(q)
        /\ \A i \in 1..Len(q) : \A j \in 1..Len(p) : i < j => i \in 1..Len(p)
    BY <1>2
  <1>4. \A i \in 1..Len(p) : p[i] \in SparseLine
    OBVIOUS
  <1>5. ASSUME NEW i \in 1..Len(q), q[i].kind \in BodyKind
        PROVE  Owed(P, O, q[i]) /\ Passed(pc2, q[i], f2, g2, s2)
    <2>1. CASE i > Len(p)
      BY <1>5, <2>1
    <2>2. CASE i \in 1..Len(p)
      <3>1. q[i] = p[i] /\ p[i] \in SparseLine
        BY <1>4, <2>2
      <3>2. Owed(P, O, p[i]) /\ Passed(pc, p[i], f, g, s)
        BY <1>1, <1>5, <2>2, <3>1
      <3> QED  BY <3>1, <3>2
    <2> QED  BY <1>3, <2>1, <2>2
  <1>6. ASSUME NEW l \in SparseLine, Owed(P, O, l), Passed(pc2, l, f2, g2, s2)
        PROVE  \E i \in 1..Len(q) : q[i] = l
    <2>1. CASE Passed(pc, l, f, g, s)
      <3>1. PICK i \in 1..Len(p) : p[i] = l
        BY <1>1, <1>6, <2>1
      <3> QED  BY <1>3, <3>1
    <2> QED  BY <1>6, <2>1
  <1>7. ASSUME NEW i \in 1..Len(q), NEW j \in 1..Len(q), i < j,
               q[i].kind \in BodyKind, q[j].kind \in BodyKind
        PROVE  Precedes(q[i], q[j])
    <2>1. CASE i > Len(p)
      BY <1>7, <2>1
    <2>2. CASE i \in 1..Len(p) /\ j > Len(p)
      <3>1. q[i] = p[i] /\ p[i] \in SparseLine
        BY <1>4, <2>2
      <3>2. Owed(P, O, p[i]) /\ Passed(pc, p[i], f, g, s)
        BY <1>1, <1>7, <2>2, <3>1
      <3> QED  BY <1>7, <2>2, <3>1, <3>2
    <2>3. CASE j \in 1..Len(p)
      BY <1>1, <1>3, <1>7, <2>3
    <2> QED  BY <1>3, <2>1, <2>2, <2>3
  <1> QED  BY <1>5, <1>6, <1>7 DEF Whole

\* The analyzer moves on over nothing that is owed, and prints no complaint.
LEMMA WholeMove ==
  ASSUME NEW P, NEW O, NEW p \in Seq(SparseLine), NEW q, NEW x \in SparseLine, x.kind \notin BodyKind,
         q = p \/ q = Append(p, x),
         NEW pc, NEW f, NEW g, NEW s, Whole(P, O, p, pc, f, g, s), NEW pc2, NEW f2, NEW g2, NEW s2,
         \A l \in SparseLine : Owed(P, O, l) => (Passed(pc, l, f, g, s) <=> Passed(pc2, l, f2, g2, s2))
  PROVE  Whole(P, O, q, pc2, f2, g2, s2)
  <1>1. /\ q \in Seq(SparseLine) /\ Len(p) <= Len(q) /\ Len(p) \in Nat /\ Len(q) \in Nat
        /\ \A i \in 1..Len(p) : q[i] = p[i]
        /\ \A i \in 1..Len(q) : i > Len(p) => q[i] = x
    <2>1. CASE q = p
      <3>1. Len(p) \in Nat /\ \A i \in 1..Len(p) : ~(i > Len(p))
        OBVIOUS
      <3> QED  BY <2>1, <3>1
    <2>2. CASE q = Append(p, x)
      <3>1. /\ Append(p, x) \in Seq(SparseLine) /\ Len(p) \in Nat /\ Len(Append(p, x)) = Len(p) + 1
            /\ Append(p, x)[Len(p) + 1] = x /\ \A i \in 1..Len(p) : Append(p, x)[i] = p[i]
        BY AppendIs
      <3>2. \A i \in 1..(Len(p) + 1) : i > Len(p) => i = Len(p) + 1
        BY <3>1
      <3> QED  BY <2>2, <3>1, <3>2
    <2> QED  BY <2>1, <2>2
  <1>2. \A j \in 1..Len(q) : j > Len(p) => q[j].kind \notin BodyKind
    BY <1>1
  <1>3. \A l \in SparseLine : Owed(P, O, l) /\ Passed(pc, l, f, g, s) => Passed(pc2, l, f2, g2, s2)
    OBVIOUS
  <1>4. \A l \in SparseLine : Owed(P, O, l) /\ Passed(pc2, l, f2, g2, s2) =>
            Passed(pc, l, f, g, s) \/ \E j \in 1..Len(q) : q[j] = l
    OBVIOUS
  <1>5. \A j \in 1..Len(q) : j > Len(p) /\ q[j].kind \in BodyKind =>
            /\ Owed(P, O, q[j]) /\ Passed(pc2, q[j], f2, g2, s2)
            /\ \A l \in SparseLine : Owed(P, O, l) /\ Passed(pc, l, f, g, s) => Precedes(l, q[j])
    BY <1>2
  <1>6. \A i, j \in 1..Len(q) :
            i > Len(p) /\ i < j /\ q[i].kind \in BodyKind /\ q[j].kind \in BodyKind => Precedes(q[i], q[j])
    BY <1>2
  <1> QED  BY <1>1, <1>3, <1>4, <1>5, <1>6, WholeExtend

Completed == /\ ~crashed => Whole(program, opts, printed, sparse_pc, k, sym, instruction)
             /\ sparse_pc = "calls" => "call" \in opts

LEMMA PassedMove ==
  ASSUME NEW pc \in Passes, NEW l, NEW f, NEW g, NEW s, NEW f2, NEW g2, NEW s2,
         (InFirst(l) <=> pc = "calls") => (Before(l, f, g, s) <=> Before(l, f2, g2, s2))
  PROVE  Passed(pc, l, f, g, s) <=> Passed(pc, l, f2, g2, s2)
  BY DEF Passed, Passes

\* What a step of the analyzer inside a file starts from.
LEMMA WholeIs ==
  ASSUME Inputs, Analyzed, Completed, InFile
  PROVE  /\ program \in Seq(Seq(Function)) /\ printed \in Seq(SparseLine) /\ ~crashed
         /\ Whole(program, opts, printed, sparse_pc, k, sym, instruction)
         /\ sparse_pc \in Passes /\ k \in Nat /\ Len(program[k]) \in Nat
         /\ sym \in Nat /\ instruction \in Nat
         /\ CursorAt(program, printed[Len(printed)], sparse_pc, k, sym, instruction)
  <1>1. /\ sparse_pc \in Passes /\ k \in Nat /\ Len(program[k]) \in Nat
        /\ sym \in Nat /\ instruction \in Nat
        /\ CursorAt(program, printed[Len(printed)], sparse_pc, k, sym, instruction)
    BY InFileIs
  <1>2. ~crashed /\ printed \in Seq(SparseLine)
    BY <1>1 DEF Analyzed, An, Printed
  <1> QED  BY <1>1, <1>2 DEF Completed, Inputs

LEMMA WholeFileBegins ==
  ASSUME Inputs, Analyzed, Completed, FileBegins
  PROVE  Completed'
  <1> DEFINE x == Line("file", k, NoName, 0)
  <1>1. /\ InFile /\ sym = 0 /\ printed' = Append(printed, x) /\ sym' = 1 /\ crashed' = crashed
        /\ sparse_pc' = sparse_pc /\ k' = k /\ instruction' = instruction
        /\ program' = program /\ opts' = opts
    BY DEF FileBegins, input
  <1>2. /\ program \in Seq(Seq(Function)) /\ printed \in Seq(SparseLine) /\ ~crashed
        /\ Whole(program, opts, printed, sparse_pc, k, sym, instruction)
        /\ sparse_pc \in Passes /\ k \in Nat
        /\ CursorAt(program, printed[Len(printed)], sparse_pc, k, sym, instruction)
    BY <1>1, WholeIs
  <1>3. instruction = 0
    BY <1>1, <1>2 DEF CursorAt
  <1>4. x \in SparseLine /\ x.kind \notin BodyKind
    <2>1. "file" \in SparseKind /\ "file" \notin BodyKind
      BY Kinds
    <2> QED  BY <1>2, <2>1, FileLineIs
  <1> HIDE DEF x
  <1>5. ASSUME NEW l \in SparseLine, Owed(program, opts, l)
        PROVE  Passed(sparse_pc, l, k, sym, instruction) <=> Passed(sparse_pc, l, k, 1, instruction)
    <2>1. l.func \in Nat /\ l.func > 0 /\ l.stmt \in Nat
      BY <1>2, <1>5, OwedIs
    <2>2. /\ ~(l.func < 0) /\ l.func # 0 /\ ~(l.func < 1) /\ ~(l.stmt < 0)
      BY <2>1
    <2>3. Before(l, k, sym, instruction) <=> Before(l, k, 1, instruction)
      BY <1>1, <1>3, <2>2 DEF Before
    <2> QED  BY <1>2, <2>3, PassedMove
  <1>6. Whole(program, opts, printed', sparse_pc, k, 1, instruction)
    BY <1>1, <1>2, <1>4, <1>5, WholeMove
  <1> QED  BY <1>1, <1>6 DEF Completed

LEMMA WholeFileEnds ==
  ASSUME Inputs, Analyzed, Completed, FileEnds
  PROVE  Completed'
  <1> DEFINE x == Line("end file", k, NoName, 0)
             z == printed[Len(printed)]
  <1>1. /\ InFile /\ sym > Len(program[k]) /\ printed' = Append(printed, x) /\ k' = k + 1
        /\ sym' = 0 /\ crashed' = crashed
        /\ sparse_pc' = sparse_pc /\ instruction' = instruction
        /\ program' = program /\ opts' = opts
    BY DEF FileEnds, input
  <1>2. /\ program \in Seq(Seq(Function)) /\ printed \in Seq(SparseLine) /\ ~crashed
        /\ Whole(program, opts, printed, sparse_pc, k, sym, instruction)
        /\ sparse_pc \in Passes /\ k \in Nat /\ Len(program[k]) \in Nat
        /\ sym \in Nat /\ instruction \in Nat
        /\ CursorAt(program, z, sparse_pc, k, sym, instruction)
    BY <1>1, WholeIs
  <1>3. x \in SparseLine /\ x.kind \notin BodyKind
    <2>1. "end file" \in SparseKind /\ "end file" \notin BodyKind
      BY Kinds
    <2> QED  BY <1>2, <2>1, FileLineIs
  <1> HIDE DEF x, z
  <1>4. instruction = 0
    <2>1. sym > 0 /\ ~(sym <= Len(program[k]))
      BY <1>1, <1>2
    <2>2. ~(instruction > 0)
      BY <1>2, <2>1 DEF CursorAt
    <2> QED  BY <1>2, <2>2
  <1>5. ASSUME NEW l \in SparseLine, Owed(program, opts, l)
        PROVE  Passed(sparse_pc, l, k, sym, instruction) <=> Passed(sparse_pc, l, k + 1, 0, instruction)
    <2>1. /\ l.func \in Nat /\ l.func > 0 /\ l.stmt \in Nat /\ l.file \in Nat
          /\ l.func <= Len(program[l.file])
      BY <1>2, <1>5, OwedIs
    <2>2. /\ ~(l.func < 0) /\ l.func # 0 /\ ~(l.stmt < 0)
          /\ l.file < k + 1 <=> l.file < k \/ l.file = k
      BY <1>2, <2>1
    <2>3. l.file = k => l.func < sym
      BY <1>1, <1>2, <2>1
    <2>4. Before(l, k, sym, instruction) <=> Before(l, k + 1, 0, instruction)
      BY <1>4, <2>2, <2>3 DEF Before
    <2> QED  BY <1>2, <2>4, PassedMove
  <1>6. Whole(program, opts, printed', sparse_pc, k + 1, 0, instruction)
    <2> DEFINE f2 == k + 1
               q == printed'
    <2>1. \A l \in SparseLine : Owed(program, opts, l) =>
             (Passed(sparse_pc, l, k, sym, instruction) <=> Passed(sparse_pc, l, f2, 0, instruction))
      BY <1>5
    <2>2. q = printed \/ q = Append(printed, x)
      BY <1>1
    <2> HIDE DEF f2, q
    <2>4. printed \in Seq(SparseLine) /\ Whole(program, opts, printed, sparse_pc, k, sym, instruction)
      BY <1>2
    <2>3. Whole(program, opts, q, sparse_pc, f2, 0, instruction)
      BY <1>3, <2>1, <2>2, <2>4, WholeMove
    <2> QED  BY <2>3 DEF f2, q
  <1> QED  BY <1>1, <1>6 DEF Completed

LEMMA WholeFunctionBegins ==
  ASSUME Inputs, Analyzed, Completed, FunctionBegins
  PROVE  Completed'
  <1> DEFINE x == Here("function")
  <1>1. /\ InFile /\ sym \in 1..Len(program[k]) /\ instruction = 0
        /\ printed' = Append(printed, x) /\ instruction' = 1 /\ k' = k
        /\ sym' = sym /\ crashed' = crashed
        /\ sparse_pc' = sparse_pc /\ program' = program /\ opts' = opts
    BY DEF FunctionBegins, input
  <1>2. /\ program \in Seq(Seq(Function)) /\ printed \in Seq(SparseLine) /\ ~crashed
        /\ Whole(program, opts, printed, sparse_pc, k, sym, instruction)
        /\ sparse_pc \in Passes /\ k \in Nat /\ sym \in Nat /\ instruction \in Nat
    BY <1>1, WholeIs
  <1>3. x \in SparseLine /\ x.kind \notin BodyKind
    <2>1. "function" \in SparseKind /\ "function" \notin BodyKind
      BY Kinds
    <2> QED  BY <1>2, <2>1, HereIs
  <1> HIDE DEF x
  <1>4. ASSUME NEW l \in SparseLine, Owed(program, opts, l)
        PROVE  Passed(sparse_pc, l, k, sym, instruction) <=> Passed(sparse_pc, l, k, sym, 1)
    <2>1. l.stmt \in Nat /\ l.stmt > 0
      BY <1>2, <1>4, OwedIs
    <2>2. ~(l.stmt < 0) /\ ~(l.stmt < 1)
      BY <2>1
    <2>3. Before(l, k, sym, instruction) <=> Before(l, k, sym, 1)
      BY <1>1, <2>2 DEF Before
    <2> QED  BY <1>2, <2>3, PassedMove
  <1>5. Whole(program, opts, printed', sparse_pc, k, sym, 1)
    BY <1>1, <1>2, <1>3, <1>4, WholeMove
  <1> QED  BY <1>1, <1>5 DEF Completed

LEMMA WholeFunctionEnds ==
  ASSUME Inputs, Analyzed, Completed, FunctionEnds
  PROVE  Completed'
  <1> DEFINE x == Here("end function")
  <1>1. /\ InFunction /\ printed' = Append(printed, x) /\ instruction' = 0 /\ k' = k
        /\ sym' = sym + 1 /\ crashed' = crashed
        /\ sparse_pc' = sparse_pc /\ program' = program /\ opts' = opts
        /\ instruction > IF sparse_pc = "calls" THEN Len(statements) ELSE Len(SummaryOrder)
    BY DEF FunctionEnds, input
  <1>2. /\ program \in Seq(Seq(Function)) /\ printed \in Seq(SparseLine) /\ ~crashed
        /\ Whole(program, opts, printed, sparse_pc, k, sym, instruction)
        /\ sparse_pc \in Passes /\ k \in Nat /\ sym \in Nat /\ instruction \in Nat
    BY <1>1, WholeIs DEF InFunction
  <1>3. x \in SparseLine /\ x.kind \notin BodyKind
    <2>1. "end function" \in SparseKind /\ "end function" \notin BodyKind
      BY Kinds
    <2> QED  BY <1>2, <2>1, HereIs
  <1> HIDE DEF x
  <1>4. ASSUME NEW l \in SparseLine, Owed(program, opts, l)
        PROVE  Passed(sparse_pc, l, k, sym, instruction) <=> Passed(sparse_pc, l, k, sym + 1, 0)
    <2>1. /\ l.func \in Nat /\ l.func > 0 /\ l.stmt \in Nat /\ l.file \in Nat
          /\ InFirst(l) => l.stmt <= Len(program[l.file][l.func].calls)
          /\ ~InFirst(l) => l.stmt <= Len(SummaryOrder)
          /\ InFirst(l) => OwedCall(program, opts, l)
      BY <1>2, <1>4, OwedIs
    <2>2. /\ ~(l.stmt < 0)
          /\ l.func < sym + 1 <=> l.func < sym \/ l.func = sym
      BY <1>2, <2>1
    <2>3. ASSUME InFirst(l) <=> sparse_pc = "calls", l.file = k, l.func = sym
          PROVE  l.stmt < instruction
      <3>1. CASE sparse_pc = "calls"
        <4>1. l.stmt <= Len(statements) /\ instruction > Len(statements)
          BY <1>1, <2>1, <2>3, <3>1 DEF statements
        <4>2. Len(statements) \in Nat
          <5>1. k \in 1..Len(program) /\ sym \in 1..Len(program[k])
            BY <1>1, InFunctionIs
          <5>2. program[k][sym] \in Function
            BY <1>2, <5>1
          <5>3. program[k][sym].calls \in Seq(Statement)
            BY <5>2 DEF Function
          <5>4. \A c \in Seq(Statement) : Len(c) \in Nat
            OBVIOUS
          <5> QED  BY <5>3, <5>4, Zenon DEF statements
        <4> QED  BY <1>2, <2>1, <4>1, <4>2
      <3>2. CASE sparse_pc # "calls"
        <4>1. l.stmt <= Len(SummaryOrder) /\ instruction > Len(SummaryOrder)
          BY <1>1, <2>1, <2>3, <3>2
        <4>2. Len(SummaryOrder) = 4
          BY DEF SummaryOrder
        <4> QED  BY <1>2, <2>1, <4>1, <4>2
      <3> QED  BY <3>1, <3>2
    <2>4. (InFirst(l) <=> sparse_pc = "calls") =>
             (Before(l, k, sym, instruction) <=> Before(l, k, sym + 1, 0))
      BY <2>2, <2>3 DEF Before
    <2> QED  BY <1>2, <2>4, PassedMove
  <1>5. Whole(program, opts, printed', sparse_pc, k, sym + 1, 0)
    <2> DEFINE g2 == sym + 1
               q == printed'
    <2>1. \A l \in SparseLine : Owed(program, opts, l) =>
             (Passed(sparse_pc, l, k, sym, instruction) <=> Passed(sparse_pc, l, k, g2, 0))
      BY <1>4
    <2>2. q = printed \/ q = Append(printed, x)
      BY <1>1
    <2> HIDE DEF g2, q
    <2>3. Whole(program, opts, q, sparse_pc, k, g2, 0)
      BY <1>2, <1>3, <2>1, <2>2, WholeMove
    <2> QED  BY <2>3 DEF g2, q
  <1> QED  BY <1>1, <1>5 DEF Completed

LEMMA PlacePrecedes ==
  ASSUME NEW pc \in Passes, NEW l, NEW x, NEW f, NEW g, NEW s, x.file = f, x.func = g, x.stmt = s,
         InFirst(x) <=> pc = "calls", Passed(pc, l, f, g, s)
  PROVE  Precedes(l, x)
  BY DEF Passes, Passed, Before, Precedes

LEMMA PassedNext ==
  ASSUME NEW pc \in Passes, NEW l, NEW f, NEW g, NEW s \in Nat, l.stmt \in Nat
  PROVE  /\ l.file = f /\ l.func = g /\ l.stmt = s /\ (InFirst(l) <=> pc = "calls") =>
              Passed(pc, l, f, g, s + 1)
         /\ Passed(pc, l, f, g, s) => Passed(pc, l, f, g, s + 1)
         /\ Passed(pc, l, f, g, s + 1) =>
              \/ Passed(pc, l, f, g, s)
              \/ l.file = f /\ l.func = g /\ l.stmt = s /\ (InFirst(l) <=> pc = "calls")
  <1>1. l.stmt < s + 1 <=> l.stmt < s \/ l.stmt = s
    OBVIOUS
  <1> QED  BY <1>1 DEF Passes, Passed, Before

LEMMA SameLine ==
  ASSUME NEW x \in SparseLine, NEW y \in SparseLine, x.kind = y.kind, x.file = y.file,
         x.func = y.func, x.stmt = y.stmt
  PROVE  x = y
  BY DEF SparseLine

\* What is said about a statement of the function at hand.
LEMMA StatementIs ==
  ASSUME Inputs, Analyzed, InFunction
  PROVE  /\ statements \in Seq(Statement) /\ Len(statements) \in Nat
         /\ program[k][sym].other \subseteq Other
         /\ instruction <= Len(statements) => instruction \in 1..Len(statements)
         /\ instruction \in 1..Len(statements) => statements[instruction] \in Statement
  <1>1. k \in 1..Len(program) /\ sym \in 1..Len(program[k]) /\ instruction \in Nat /\ instruction > 0
    BY InFunctionIs
  <1>2. program[k][sym] \in Function
    BY <1>1 DEF Inputs
  <1>3. statements \in Seq(Statement) /\ program[k][sym].other \subseteq Other
    BY <1>2 DEF Function, statements
  <1>4. \A c \in Seq(Statement) : /\ Len(c) \in Nat
                                  /\ instruction <= Len(c) => instruction \in 1..Len(c)
                                  /\ instruction \in 1..Len(c) => c[instruction] \in Statement
    BY <1>1
  <1> QED  BY <1>3, <1>4, Zenon

\* The lines that are owed for the place the analyzer is at are X, and they
\* are printed.
LEMMA WholePlace ==
  ASSUME Inputs, Analyzed, Completed, InFunction,
         NEW q \in Seq(SparseLine), Len(printed) <= Len(q), \A i \in 1..Len(printed) : q[i] = printed[i],
         \A j \in 1..Len(q) : j > Len(printed) =>
            /\ Owed(program, opts, q[j]) /\ (InFirst(q[j]) <=> sparse_pc = "calls")
            /\ q[j].file = k /\ q[j].func = sym /\ q[j].stmt = instruction,
         \A i, j \in 1..Len(q) : i > Len(printed) /\ i < j => Precedes(q[i], q[j]),
         \A l \in SparseLine : /\ Owed(program, opts, l) /\ (InFirst(l) <=> sparse_pc = "calls")
                               /\ l.file = k /\ l.func = sym /\ l.stmt = instruction
                               => \E j \in 1..Len(q) : q[j] = l
  PROVE  Whole(program, opts, q, sparse_pc, k, sym, instruction + 1)
  <1>1. /\ program \in Seq(Seq(Function)) /\ printed \in Seq(SparseLine) /\ ~crashed
        /\ Whole(program, opts, printed, sparse_pc, k, sym, instruction)
        /\ sparse_pc \in Passes /\ instruction \in Nat
    BY WholeIs DEF InFunction
  <1> DEFINE s2 == instruction + 1
  <1>2. \A l \in SparseLine : l.stmt \in Nat
    BY DEF SparseLine
  <1>3. \A l \in SparseLine : Passed(sparse_pc, l, k, sym, instruction) => Passed(sparse_pc, l, k, sym, s2)
    BY <1>1, <1>2, PassedNext
  <1>4. ASSUME NEW l \in SparseLine, Owed(program, opts, l), Passed(sparse_pc, l, k, sym, s2)
        PROVE  Passed(sparse_pc, l, k, sym, instruction) \/ \E j \in 1..Len(q) : q[j] = l
    <2>1. \/ Passed(sparse_pc, l, k, sym, instruction)
          \/ l.file = k /\ l.func = sym /\ l.stmt = instruction /\ (InFirst(l) <=> sparse_pc = "calls")
      BY <1>1, <1>2, <1>4, PassedNext
    <2> QED  BY <1>4, <2>1
  <1>5. ASSUME NEW j \in 1..Len(q), j > Len(printed)
        PROVE  /\ Passed(sparse_pc, q[j], k, sym, s2)
               /\ \A l \in SparseLine : Passed(sparse_pc, l, k, sym, instruction) => Precedes(l, q[j])
    <2>1. q[j] \in SparseLine /\ q[j].stmt \in Nat
      BY <1>2
    <2>2. /\ InFirst(q[j]) <=> sparse_pc = "calls"
          /\ q[j].file = k /\ q[j].func = sym /\ q[j].stmt = instruction
      BY <1>5
    <2> DEFINE y == q[j]
    <2> HIDE DEF y
    <2>3. Passed(sparse_pc, y, k, sym, s2)
      BY <1>1, <2>1, <2>2, PassedNext DEF y
    <2>4. \A l \in SparseLine : Passed(sparse_pc, l, k, sym, instruction) => Precedes(l, y)
      BY <1>1, <2>2, PlacePrecedes DEF y
    <2> QED  BY <2>3, <2>4 DEF y
  <1> HIDE DEF s2
  <1>6. Whole(program, opts, q, sparse_pc, k, sym, s2)
    <2>1. \A l \in SparseLine : Owed(program, opts, l) /\ Passed(sparse_pc, l, k, sym, instruction)
                                  => Passed(sparse_pc, l, k, sym, s2)
      BY <1>3
    <2>2. \A l \in SparseLine : Owed(program, opts, l) /\ Passed(sparse_pc, l, k, sym, s2) =>
             Passed(sparse_pc, l, k, sym, instruction) \/ \E j \in 1..Len(q) : q[j] = l
      BY <1>4
    <2>3. \A j \in 1..Len(q) : j > Len(printed) /\ q[j].kind \in BodyKind =>
            /\ Owed(program, opts, q[j]) /\ Passed(sparse_pc, q[j], k, sym, s2)
            /\ \A l \in SparseLine : Owed(program, opts, l) /\ Passed(sparse_pc, l, k, sym, instruction)
                                       => Precedes(l, q[j])
      BY <1>5
    <2>4. \A i, j \in 1..Len(q) :
            i > Len(printed) /\ i < j /\ q[i].kind \in BodyKind /\ q[j].kind \in BodyKind
              => Precedes(q[i], q[j])
      OBVIOUS
    <2> QED  BY <1>1, <2>1, <2>2, <2>3, <2>4, WholeExtend
  <1> QED  BY <1>6 DEF s2

\* A complaint at the place the analyzer is at is owed.
LEMMA HereOwed ==
  ASSUME Inputs, Analyzed, Completed, InFunction, NEW kind \in BodyKind,
         \/ /\ sparse_pc = "calls" /\ kind \in InFirstPass /\ instruction \in 1..Len(statements)
            /\ kind \in Says(statements[instruction])
         \/ /\ sparse_pc = "others" /\ instruction \in 1..Len(SummaryOrder)
            /\ kind = SummaryOrder[instruction] /\ kind \in program[k][sym].other \cap opts
  PROVE  /\ Here(kind) \in SparseLine /\ Here(kind).kind = kind /\ Owed(program, opts, Here(kind))
         /\ InFirst(Here(kind)) <=> sparse_pc = "calls"
         /\ Here(kind).file = k /\ Here(kind).func = sym /\ Here(kind).stmt = instruction
  <1> DEFINE x == Here(kind)
  <1>1. /\ k \in 1..Len(program) /\ sym \in 1..Len(program[k]) /\ k \in Nat /\ sym \in Nat
        /\ instruction \in Nat
    BY InFunctionIs
  <1>2. x \in SparseLine /\ x.kind = kind /\ x.file = k /\ x.func = sym /\ x.stmt = instruction
    <2>1. kind \in SparseKind
      BY Kinds
    <2> QED  BY <1>1, <2>1, HereIs
  <1>3. program[k][sym].other \subseteq Other
    BY StatementIs
  <1> HIDE DEF x
  <1>4. CASE sparse_pc = "calls"
    <2>1. /\ kind \in InFirstPass /\ instruction \in 1..Len(statements)
          /\ kind \in Says(statements[instruction]) /\ "call" \in opts
      BY <1>4 DEF Completed
    <2>2. OwedCall(program, opts, x)
      BY <1>2, <2>1 DEF OwedCall, statements
    <2>3. InFirst(x)
      BY <1>2, <2>1, Kinds DEF InFirst
    <2> QED  BY <1>1, <1>2, <1>4, <2>2, <2>3 DEF Owed, x
  <1>5. CASE sparse_pc # "calls"
    <2>1. /\ instruction \in 1..Len(SummaryOrder)
          /\ kind = SummaryOrder[instruction] /\ kind \in program[k][sym].other \cap opts
      BY <1>5
    <2>2. OwedOther(program, opts, x)
      BY <1>2, <2>1 DEF OwedOther
    <2>3. ~InFirst(x)
      BY <1>2, <1>3, <2>1 DEF InFirst
    <2> QED  BY <1>1, <1>2, <1>5, <2>2, <2>3 DEF Owed, x
  <1> QED  BY <1>4, <1>5

\* One line is printed, the only one that is owed here.
LEMMA WholeOne ==
  ASSUME Inputs, Analyzed, Completed, InFunction,
         NEW x \in SparseLine, Owed(program, opts, x), InFirst(x) <=> sparse_pc = "calls",
         x.file = k, x.func = sym, x.stmt = instruction,
         \A l \in SparseLine : /\ Owed(program, opts, l) /\ (InFirst(l) <=> sparse_pc = "calls")
                               /\ l.file = k /\ l.func = sym /\ l.stmt = instruction
                               => l.kind = x.kind
  PROVE  Whole(program, opts, Append(printed, x), sparse_pc, k, sym, instruction + 1)
  <1> DEFINE q == Append(printed, x)
  <1>1. printed \in Seq(SparseLine)
    BY WholeIs DEF InFunction
  <1>2. /\ q \in Seq(SparseLine) /\ Len(printed) \in Nat /\ Len(q) = Len(printed) + 1
        /\ q[Len(printed) + 1] = x /\ \A i \in 1..Len(printed) : q[i] = printed[i]
    BY <1>1, AppendIs
  <1> HIDE DEF q
  <1>3. /\ Len(printed) <= Len(q) /\ \A j \in 1..Len(q) : j > Len(printed) => j = Len(printed) + 1
        /\ \A i, j \in 1..Len(q) : ~(i > Len(printed) /\ i < j)
        /\ Len(printed) + 1 \in 1..Len(q)
    BY <1>2
  <1>4. \A j \in 1..Len(q) : j > Len(printed) => q[j] = x
    BY <1>2, <1>3
  <1>5. \A l \in SparseLine : /\ Owed(program, opts, l) /\ (InFirst(l) <=> sparse_pc = "calls")
                              /\ l.file = k /\ l.func = sym /\ l.stmt = instruction
                              => \E j \in 1..Len(q) : q[j] = l
    BY <1>2, <1>3, SameLine
  <1>6. Whole(program, opts, q, sparse_pc, k, sym, instruction + 1)
    <2>1. \A j \in 1..Len(q) : j > Len(printed) =>
            /\ Owed(program, opts, q[j]) /\ (InFirst(q[j]) <=> sparse_pc = "calls")
            /\ q[j].file = k /\ q[j].func = sym /\ q[j].stmt = instruction
      BY <1>4
    <2>2. \A i, j \in 1..Len(q) : i > Len(printed) /\ i < j => Precedes(q[i], q[j])
      BY <1>3
    <2> QED  BY <1>2, <1>3, <1>5, <2>1, <2>2, WholePlace
  <1> QED  BY <1>6 DEF q

\* The kinds of the lines that are owed here.
LEMMA OwedHere ==
  ASSUME Inputs, Analyzed, InFunction, NEW l \in SparseLine, Owed(program, opts, l),
         InFirst(l) <=> sparse_pc = "calls", l.file = k, l.func = sym, l.stmt = instruction
  PROVE  /\ sparse_pc = "calls" => l.kind \in Says(statements[instruction])
         /\ sparse_pc = "others" => /\ l.kind = SummaryOrder[instruction]
                                    /\ l.kind \in program[k][sym].other \cap opts
  <1>1. program \in Seq(Seq(Function))
    BY DEF Inputs
  <1>2. /\ InFirst(l) => OwedCall(program, opts, l)
        /\ ~InFirst(l) => OwedOther(program, opts, l)
    BY <1>1, OwedIs
  <1>3. CASE sparse_pc = "calls"
    BY <1>2, <1>3 DEF OwedCall, statements
  <1>4. CASE sparse_pc = "others"
    BY <1>2, <1>4 DEF OwedOther
  <1> QED  BY <1>3, <1>4

LEMMA WholeExamine ==
  ASSUME Inputs, Analyzed, Completed, examine_stmt_expression
  PROVE  Completed'
  <1>1. /\ InFunction /\ instruction' = instruction + 1 /\ k' = k
        /\ sym' = sym /\ crashed' = crashed /\ sparse_pc = "calls"
        /\ sparse_pc' = sparse_pc /\ program' = program /\ opts' = opts
        /\ instruction <= Len(statements) /\ statements[instruction] # "return"
        /\ printed' = IF statements[instruction] = "call" THEN Append(printed, Here("call"))
                      ELSE Append(Append(printed, Here("gap")), Here("init"))
    BY DEF examine_stmt_expression, input
  <1>2. instruction \in 1..Len(statements) /\ statements[instruction] \in Statement
    BY <1>1, StatementIs
  <1>3. statements[instruction] = "call" \/ statements[instruction] = "init"
    BY <1>1, <1>2 DEF Statement
  <1>4. Says("call") = {"call"} /\ Says("init") = Noise
    BY DEF Says
  <1>5. \A kind \in {"call"} \cup Noise : kind \in BodyKind /\ kind \in InFirstPass
    BY Kinds
  <1>6. CASE statements[instruction] = "call"
    <2> DEFINE x == Here("call")
    <2>1. "call" \in Says(statements[instruction])
      BY <1>4, <1>6
    <2>2. /\ x \in SparseLine /\ x.kind = "call" /\ Owed(program, opts, x)
          /\ InFirst(x) <=> sparse_pc = "calls"
          /\ x.file = k /\ x.func = sym /\ x.stmt = instruction
      BY <1>1, <1>2, <1>5, <2>1, HereOwed
    <2> HIDE DEF x
    <2>3. \A l \in SparseLine : /\ Owed(program, opts, l) /\ (InFirst(l) <=> sparse_pc = "calls")
                                /\ l.file = k /\ l.func = sym /\ l.stmt = instruction
                                => l.kind = x.kind
      BY <1>1, <1>4, <1>6, <2>2, OwedHere
    <2>4. Whole(program, opts, Append(printed, x), sparse_pc, k, sym, instruction + 1)
      BY <1>1, <2>2, <2>3, WholeOne
    <2> QED  BY <1>1, <1>6, <2>4 DEF Completed, x
  <1>7. CASE statements[instruction] = "init"
    <2> DEFINE x == Here("gap")
               y == Here("init")
               r == Append(printed, x)
               q == Append(r, y)
    <2>0. "gap" \in Noise /\ "init" \in Noise /\ statements[instruction] # "call"
      BY <1>7 DEF Noise
    <2>1. "gap" \in Says(statements[instruction]) /\ "init" \in Says(statements[instruction])
      BY <1>4, <1>7, <2>0
    <2>2. /\ x \in SparseLine /\ x.kind = "gap" /\ Owed(program, opts, x)
          /\ InFirst(x) <=> sparse_pc = "calls"
          /\ x.file = k /\ x.func = sym /\ x.stmt = instruction
      BY <1>1, <1>2, <1>5, <2>0, <2>1, HereOwed
    <2>3. /\ y \in SparseLine /\ y.kind = "init" /\ Owed(program, opts, y)
          /\ InFirst(y) <=> sparse_pc = "calls"
          /\ y.file = k /\ y.func = sym /\ y.stmt = instruction
      BY <1>1, <1>2, <1>5, <2>0, <2>1, HereOwed
    <2> HIDE DEF x, y
    <2>4. printed \in Seq(SparseLine)
      BY <1>1, WholeIs DEF InFunction
    <2>5. /\ r \in Seq(SparseLine) /\ Len(printed) \in Nat /\ Len(r) = Len(printed) + 1
          /\ r[Len(printed) + 1] = x /\ \A i \in 1..Len(printed) : r[i] = printed[i]
      BY <2>2, <2>4, AppendIs
    <2> HIDE DEF r
    <2>6. /\ q \in Seq(SparseLine) /\ Len(q) = Len(r) + 1
          /\ q[Len(r) + 1] = y /\ \A i \in 1..Len(r) : q[i] = r[i]
      BY <2>3, <2>5, AppendIs
    <2> HIDE DEF q
    <2> DEFINE n == Len(printed)
    <2>7. n \in Nat /\ Len(r) = n + 1 /\ Len(q) = (n + 1) + 1
      BY <2>5, <2>6
    <2>8. /\ \A i \in 1..n : i \in 1..(n + 1)
          /\ n + 1 \in 1..(n + 1) /\ n <= (n + 1) + 1
          /\ n + 1 \in 1..((n + 1) + 1) /\ (n + 1) + 1 \in 1..((n + 1) + 1)
          /\ \A j \in 1..((n + 1) + 1) : j > n => j = n + 1 \/ j = (n + 1) + 1
          /\ \A i, j \in 1..((n + 1) + 1) : i > n /\ i < j => i = n + 1 /\ j = (n + 1) + 1
      BY <2>7
    <2>9. /\ q[n + 1] = x /\ q[(n + 1) + 1] = y /\ \A i \in 1..n : q[i] = printed[i]
      BY <2>5, <2>6, <2>7, <2>8
    <2> HIDE DEF n
    <2>10. \A j \in 1..Len(q) : j > n => q[j] = x \/ q[j] = y
      BY <2>7, <2>8, <2>9
    <2>11. Precedes(x, y)
      <3>1. InFirst(x) <=> InFirst(y)
        BY <2>2, <2>3
      <3> QED  BY <2>2, <2>3, <3>1 DEF Precedes
    <2>12. \A i, j \in 1..Len(q) : i > n /\ i < j => Precedes(q[i], q[j])
      BY <2>7, <2>8, <2>9, <2>11
    <2>13. ASSUME NEW l \in SparseLine, Owed(program, opts, l), InFirst(l) <=> sparse_pc = "calls",
                 l.file = k, l.func = sym, l.stmt = instruction
           PROVE  \E j \in 1..Len(q) : q[j] = l
      <3>1. l.kind \in Noise
        BY <1>1, <1>4, <1>7, <2>13, OwedHere
      <3>2. l.kind = "gap" \/ l.kind = "init"
        BY <3>1 DEF Noise
      <3>3. l = x \/ l = y
        BY <2>2, <2>3, <2>13, <3>2, SameLine
      <3> QED  BY <2>7, <2>8, <2>9, <3>3
    <2>14. \A j \in 1..Len(q) : j > n =>
            /\ Owed(program, opts, q[j]) /\ (InFirst(q[j]) <=> sparse_pc = "calls")
            /\ q[j].file = k /\ q[j].func = sym /\ q[j].stmt = instruction
      BY <2>2, <2>3, <2>10
    <2>15. n <= Len(q)
      BY <2>7, <2>8
    <2>16. Whole(program, opts, q, sparse_pc, k, sym, instruction + 1)
      BY <1>1, <2>6, <2>9, <2>12, <2>13, <2>14, <2>15, WholePlace DEF n
    <2> QED  BY <1>1, <2>0, <2>16 DEF Completed, q, r, x, y
  <1> QED  BY <1>3, <1>6, <1>7

LEMMA WholeSummary ==
  ASSUME Inputs, Analyzed, Completed, Summary
  PROVE  Completed'
  <1> DEFINE kind == SummaryOrder[instruction]
  <1>1. /\ InFunction /\ instruction' = instruction + 1 /\ k' = k
        /\ sym' = sym /\ crashed' = crashed /\ sparse_pc = "others"
        /\ sparse_pc' = sparse_pc /\ program' = program /\ opts' = opts
        /\ instruction <= Len(SummaryOrder)
        /\ printed' = IF kind \in program[k][sym].other \cap opts
                      THEN Append(printed, Here(kind)) ELSE printed
    BY DEF Summary, input
  <1>2. instruction \in Nat /\ instruction > 0
    BY <1>1, InFunctionIs
  <1>3. instruction \in 1..Len(SummaryOrder)
    <2>1. Len(SummaryOrder) = 4
      BY DEF SummaryOrder
    <2> QED  BY <1>1, <1>2, <2>1
  <1>4. CASE kind \in program[k][sym].other \cap opts
    <2> DEFINE x == Here(kind)
    <2>1. kind \in BodyKind
      BY <1>1, <1>4, StatementIs, Kinds
    <2>2. /\ x \in SparseLine /\ x.kind = kind /\ Owed(program, opts, x)
          /\ InFirst(x) <=> sparse_pc = "calls"
          /\ x.file = k /\ x.func = sym /\ x.stmt = instruction
      BY <1>1, <1>3, <1>4, <2>1, HereOwed
    <2> HIDE DEF x
    <2>3. \A l \in SparseLine : /\ Owed(program, opts, l) /\ (InFirst(l) <=> sparse_pc = "calls")
                                /\ l.file = k /\ l.func = sym /\ l.stmt = instruction
                                => l.kind = x.kind
      BY <1>1, <2>2, OwedHere
    <2>4. Whole(program, opts, Append(printed, x), sparse_pc, k, sym, instruction + 1)
      BY <1>1, <2>2, <2>3, WholeOne
    <2> QED  BY <1>1, <1>4, <2>4 DEF Completed, x
  <1>5. CASE kind \notin program[k][sym].other \cap opts
    <2>1. printed \in Seq(SparseLine)
      BY <1>1, WholeIs DEF InFunction
    <2>2. Len(printed) <= Len(printed) /\ \A j \in 1..Len(printed) : ~(j > Len(printed))
      BY <2>1
    <2>3. \A l \in SparseLine : ~(/\ Owed(program, opts, l) /\ (InFirst(l) <=> sparse_pc = "calls")
                                  /\ l.file = k /\ l.func = sym /\ l.stmt = instruction)
      BY <1>1, <1>5, OwedHere
    <2>4. Whole(program, opts, printed, sparse_pc, k, sym, instruction + 1)
      BY <1>1, <2>1, <2>2, <2>3, WholePlace
    <2> QED  BY <1>1, <1>5, <2>4 DEF Completed
  <1> QED  BY <1>4, <1>5

\* Nothing comes before the first file.
LEMMA BeforeFirst ==
  ASSUME NEW P \in Seq(Seq(Function)), NEW O, NEW l \in SparseLine, Owed(P, O, l)
  PROVE  /\ ~Before(l, 1, 0, 0)
         /\ \A f \in Nat : \A g, s : f > Len(P) => Before(l, f, g, s)
  <1>1. /\ l.file \in Nat /\ l.file > 0 /\ l.file <= Len(P) /\ l.func \in Nat /\ l.stmt \in Nat
    BY OwedIs
  <1>2. /\ ~(l.file < 1) /\ ~(l.func < 0) /\ ~(l.stmt < 0)
    BY <1>1
  <1>3. Len(P) \in Nat
    OBVIOUS
  <1>4. \A f \in Nat : f > Len(P) => l.file < f
    BY <1>1, <1>3
  <1> QED  BY <1>2, <1>4 DEF Before

\* A section starts.
LEMMA WholeSection ==
  ASSUME Inputs, NEW pass \in Passes, Section(pass), printed \in Seq(SparseLine),
         NEW pc, NEW f, NEW g, NEW s, Whole(program, opts, printed, pc, f, g, s),
         \A l \in SparseLine : Owed(program, opts, l) =>
            (Passed(pc, l, f, g, s) <=> InFirst(l) /\ pass = "others")
  PROVE  Whole(program, opts, printed', sparse_pc', k', sym', instruction')
  <1> DEFINE x == Line(pass, NoName, NoName, 0)
  <1>1. /\ printed' = Append(printed, x) /\ k' = 1 /\ sym' = 0 /\ instruction' = 0 /\ sparse_pc' = pass
    BY FS_EmptySet DEF Section, FirstFile, Inputs
  <1>2. x \in SparseLine /\ x.kind = pass
    BY Kinds DEF Line, SparseLine
  <1>3. x.kind \notin BodyKind
    BY <1>2, Kinds
  <1> HIDE DEF x
  <1>4. program \in Seq(Seq(Function))
    BY DEF Inputs
  <1>5. ASSUME NEW l \in SparseLine, Owed(program, opts, l)
        PROVE  Passed(pc, l, f, g, s) <=> Passed(pass, l, 1, 0, 0)
    <2>1. ~Before(l, 1, 0, 0)
      BY <1>4, <1>5, BeforeFirst
    <2>2. Passed(pass, l, 1, 0, 0) <=> InFirst(l) /\ pass = "others"
      BY <2>1 DEF Passed, Passes
    <2> QED  BY <1>5, <2>2
  <1>6. Whole(program, opts, Append(printed, x), pass, 1, 0, 0)
    <2> DEFINE q == Append(printed, x)
    <2>1. q = printed \/ q = Append(printed, x)
      OBVIOUS
    <2> HIDE DEF q
    <2>2. Whole(program, opts, q, pass, 1, 0, 0)
      BY <1>2, <1>3, <1>5, <2>1, WholeMove
    <2> QED  BY <2>2 DEF q
  <1> QED  BY <1>1, <1>6

\* The output stays as it is and nothing more is owed.
LEMMA WholeStays ==
  ASSUME NEW P, NEW O, NEW p \in Seq(SparseLine), NEW pc, NEW f, NEW g, NEW s,
         Whole(P, O, p, pc, f, g, s), NEW pc2, NEW f2, NEW g2, NEW s2,
         pc2 \notin Passes, pc2 # "main",
         \A l \in SparseLine : Owed(P, O, l) => Passed(pc, l, f, g, s)
  PROVE  Whole(P, O, p, pc2, f2, g2, s2)
  <1>1. \A l : Passed(pc2, l, f2, g2, s2)
    BY DEF Passed, Passes
  <1> QED  BY <1>1 DEF Whole

LEMMA WholeMain ==
  ASSUME Inputs, Analyzed, Completed, main
  PROVE  Completed'
  <1>1. /\ sparse_pc = "main" /\ program' = program /\ opts' = opts /\ crashed' = crashed
        /\ \/ "call" \in opts /\ Section("calls")
           \/ "call" \notin opts /\ Section("others")
           \/ opts = {} /\ sparse_pc' = "open" /\ printed' = printed
    BY DEF main, input
  <1>2. printed = <<>> /\ ~crashed
    BY <1>1 DEF Analyzed, An
  <1>3. printed \in Seq(SparseLine) /\ Whole(program, opts, printed, "main", k, sym, instruction)
    BY <1>1, <1>2 DEF Completed
  <1>4. program \in Seq(Seq(Function)) /\ "calls" \in Passes /\ "others" \in Passes
    BY DEF Inputs, Passes
  <1>5. \A l : ~Passed("main", l, k, sym, instruction)
    BY DEF Passed
  <1>6. CASE "call" \in opts /\ Section("calls")
    <2>1. \A l \in SparseLine : Owed(program, opts, l) =>
            (Passed("main", l, k, sym, instruction) <=> InFirst(l) /\ "calls" = "others")
      BY <1>5
    <2>2. Whole(program, opts, printed', sparse_pc', k', sym', instruction')
      BY <1>3, <1>4, <1>6, <2>1, WholeSection
    <2> QED  BY <1>1, <1>6, <2>2 DEF Completed
  <1>7. CASE "call" \notin opts /\ Section("others")
    <2>0. \A l \in SparseLine : Owed(program, opts, l) => ~InFirst(l)
      BY <1>4, <1>7, OwedIs
    <2>1. \A l \in SparseLine : Owed(program, opts, l) =>
            (Passed("main", l, k, sym, instruction) <=> InFirst(l) /\ "others" = "others")
      BY <1>5, <2>0
    <2>2. Whole(program, opts, printed', sparse_pc', k', sym', instruction')
      BY <1>3, <1>4, <1>7, <2>1, WholeSection
    <2>3. sparse_pc' # "calls"
      BY <1>7 DEF Section
    <2> QED  BY <1>1, <2>2, <2>3 DEF Completed
  <1>8. CASE opts = {} /\ sparse_pc' = "open" /\ printed' = printed
    <2>1. \A l \in SparseLine : ~Owed(program, opts, l)
      BY <1>4, <1>8, OwedIs
    <2>2. "open" \notin Passes
      BY Kinds
    <2>3. Whole(program, opts, printed, "open", k', sym', instruction')
      BY <1>3, <2>1, <2>2, WholeStays
    <2> QED  BY <1>1, <1>8, <2>3 DEF Completed
  <1> QED  BY <1>1, <1>6, <1>7, <1>8

LEMMA WholeEndPass ==
  ASSUME Inputs, Analyzed, Completed, EndPass
  PROVE  Completed'
  <1>1. /\ sparse_pc \in Passes /\ k > Len(program) /\ program' = program /\ opts' = opts
        /\ crashed' = crashed
        /\ \/ sparse_pc = "calls" /\ Section("others")
           \/ /\ sparse_pc = "others" \/ opts \cap Other = {}
              /\ sparse_pc' = "open" /\ printed' = printed
    BY DEF EndPass, input
  <1>2. ~crashed /\ printed \in Seq(SparseLine) /\ k \in 1..(Len(program) + 1)
    BY <1>1 DEF Analyzed, An, Printed, CursorAt
  <1>3. Whole(program, opts, printed, sparse_pc, k, sym, instruction)
    BY <1>2 DEF Completed
  <1>4. program \in Seq(Seq(Function)) /\ "others" \in Passes
    BY DEF Inputs, Passes
  <1>5. k \in Nat
    BY <1>2
  <1>6. \A l \in SparseLine : Owed(program, opts, l) => Before(l, k, sym, instruction)
    BY <1>1, <1>4, <1>5, BeforeFirst
  <1>7. CASE sparse_pc = "calls" /\ Section("others")
    <2>1. \A l \in SparseLine : Owed(program, opts, l) =>
            (Passed(sparse_pc, l, k, sym, instruction) <=> InFirst(l) /\ "others" = "others")
      BY <1>6, <1>7 DEF Passed
    <2>2. Whole(program, opts, printed', sparse_pc', k', sym', instruction')
      BY <1>2, <1>3, <1>4, <1>7, <2>1, WholeSection
    <2>3. sparse_pc' # "calls"
      BY <1>7 DEF Section
    <2> QED  BY <1>1, <2>2, <2>3 DEF Completed
  <1>8. CASE /\ sparse_pc = "others" \/ opts \cap Other = {}
             /\ sparse_pc' = "open" /\ printed' = printed
    <2>1. ASSUME NEW l \in SparseLine, Owed(program, opts, l)
          PROVE  Passed(sparse_pc, l, k, sym, instruction)
      <3>1. Before(l, k, sym, instruction)
        BY <1>6, <2>1
      <3>2. ~InFirst(l) => l.kind \in opts
        BY <1>4, <2>1, OwedIs
      <3>3. sparse_pc = "calls" => InFirst(l)
        BY <1>8, <3>2 DEF InFirst
      <3>4. sparse_pc # "main"
        BY <1>1, Kinds
      <3> QED  BY <3>1, <3>3, <3>4 DEF Passed
    <2>2. "open" \notin Passes
      BY Kinds
    <2>3. Whole(program, opts, printed, "open", k', sym', instruction')
      BY <1>2, <1>3, <2>1, <2>2, WholeStays
    <2> QED  BY <1>1, <1>8, <2>3 DEF Completed
  <1> QED  BY <1>1, <1>7, <1>8

LEMMA WholeDies ==
  ASSUME NoBlackList \/ AnalyzerDies
  PROVE  Completed'
  BY DEF NoBlackList, AnalyzerDies, Completed

LEMMA WholeRead ==
  ASSUME Analyzed, Completed, UNCHANGED <<input, analyzerVars>>, sparse_pc \notin Passes, sparse_pc # "main",
         sparse_pc' \notin Passes, sparse_pc' # "main"
  PROVE  Completed'
  <1>1. program' = program /\ opts' = opts /\ printed' = printed /\ crashed' = crashed
    BY DEF input, analyzerVars
  <1>2. printed \in Seq(SparseLine)
    BY DEF Analyzed, An, Printed
  <1>3. \A l : Passed(sparse_pc, l, k, sym, instruction)
    BY DEF Passed, Passes
  <1>4. ~crashed => Whole(program, opts, printed, sparse_pc', k', sym', instruction')
    BY <1>2, <1>3, WholeStays DEF Completed
  <1>5. sparse_pc' # "calls"
    BY DEF Passes
  <1> QED  BY <1>1, <1>4, <1>5 DEF Completed

LEMMA CompletedStep ==
  ASSUME Ready, Completed, SparseNext \/ UNCHANGED sparseVars
  PROVE  Completed'
  <1>1. Inputs /\ Analyzed
    BY DEF Ready
  <1>2. CASE Analyze
    BY <1>1, <1>2, WholeMain, WholeEndPass, WholeFileBegins, WholeFileEnds, WholeFunctionBegins,
       WholeFunctionEnds, WholeExamine, WholeSummary, WholeDies
       DEF Analyze, parse_file_list, parse_function_list
  <1>3. CASE fopen \/ parse_output_file
    <2>1. UNCHANGED <<input, analyzerVars>>
      BY <1>3 DEF fopen, parse_output_file, FindSection, ReadFile, ReadFunction, ReadError, SectionRead
    <2>2. /\ sparse_pc \notin Passes /\ sparse_pc # "main"
          /\ sparse_pc' \notin Passes /\ sparse_pc' # "main"
      BY <1>3 DEF fopen, parse_output_file, FindSection, ReadFile, ReadFunction, ReadError,
             SectionRead, Passes
    <2> QED  BY <1>1, <2>1, <2>2, WholeRead
  <1>4. CASE UNCHANGED sparseVars
    <2>1. UNCHANGED <<program, opts, printed, crashed, sparse_pc, k, sym, instruction>>
      BY <1>4 DEF sparseVars, input, analyzerVars
    <2> QED  BY <2>1 DEF Completed
  <1> QED  BY <1>2, <1>3, <1>4 DEF SparseNext, SparseStopped

LEMMA CompletedInit ==
  ASSUME SparseInit
  PROVE  Completed
  <1>1. printed = <<>> /\ sparse_pc = "main" /\ Len(<<>>) = 0 /\ 1..0 = {}
    BY DEF SparseInit
  <1>2. \A l : ~Passed("main", l, k, sym, instruction)
    BY DEF Passed
  <1>3. Whole(program, opts, <<>>, "main", k, sym, instruction)
    BY <1>1, <1>2 DEF Whole
  <1> QED  BY <1>1, <1>3 DEF Completed

-----------------------------------------------------------------------------
(* Sparse: the reader takes every line that is tracked *)

\* The kinds of lines that become errors.
TakenKinds(F) == {c \in InFirstPass : "call" \in F} \cup (Other \cap F)

\* The errors E are the lines of the kinds W among the first a, in order.
ErrorsTo(E, p, a, W) ==
  /\ \A n \in 1..Len(E) : \E i \in 1..a : E[n].line = p[i] /\ p[i].kind \in W
  /\ \A i \in 1..a : p[i].kind \in W => \E n \in 1..Len(E) : E[n].line = p[i]
  /\ \A m, n \in 1..Len(E) : m < n => Precedes(E[m].line, E[n].line)

\* The analyzer lived, and printed the first section if it is looked for.
AsAsked == ~crashed /\ (TracksCalls => "call" \in opts)

ReadsOn == /\ sparse_pc # "done" => ErrorsTo(sparse_errs, printed, sparse_at, TakenKinds(sparse_flags))
           /\ sparse_pc = "done" => ErrorsTo(sparse_errs, printed, Len(printed), TakenKinds(sparse_flags))
           /\ sparse_pc = "find calls" => sparse_at = 0 /\ TracksCalls
           /\ sparse_pc \in InCalls => TracksCalls
           /\ sparse_pc = "find others" =>
                /\ sparse_at = Len(printed) \/ ~OthersBy(printed, sparse_at)
                /\ TracksCalls => AtFile(printed, sparse_at, Len(program) + 1)

Gathers == AsAsked => ReadsOn

LEMMA TakenKindsAre ==
  ASSUME NEW F
  PROVE  /\ TakenKinds(F) \subseteq BodyKind
         /\ \A c \in InFirstPass : c \in TakenKinds(F) <=> "call" \in F
         /\ \A c \in Other : c \in TakenKinds(F) <=> c \in F
  BY Kinds DEF TakenKinds

LEMMA ErrorsToNone ==
  ASSUME NEW p, NEW W, NEW a, \A i \in 1..a : p[i].kind \notin W
  PROVE  ErrorsTo(<<>>, p, a, W)
  <1>1. 1..Len(<<>>) = {}
    OBVIOUS
  <1> QED  BY <1>1 DEF ErrorsTo

\* Lines that are not tracked are passed over.
LEMMA ErrorsToSkip ==
  ASSUME NEW E, NEW p, NEW W, NEW a \in Nat, NEW b \in Nat, a <= b, ErrorsTo(E, p, a, W),
         \A i \in 1..b : i > a => p[i].kind \notin W
  PROVE  ErrorsTo(E, p, b, W)
  <1>1. /\ \A i \in 1..a : i \in 1..b
        /\ \A i \in 1..b : i > a \/ i \in 1..a
    OBVIOUS
  <1> QED  BY <1>1 DEF ErrorsTo

LEMMA ErrorsToAppend ==
  ASSUME NEW E \in Seq(SparseErrors), NEW p, NEW W, NEW a \in Nat, ErrorsTo(E, p, a, W),
         NEW e \in SparseErrors, e.line = p[a + 1], p[a + 1].kind \in W,
         \A i \in 1..a : p[i].kind \in W => Precedes(p[i], p[a + 1])
  PROVE  ErrorsTo(Append(E, e), p, a + 1, W)
  <1> DEFINE F == Append(E, e)
  <1>1. /\ Len(E) \in Nat /\ Len(F) = Len(E) + 1 /\ F[Len(E) + 1] = e
        /\ \A n \in 1..Len(E) : F[n] = E[n]
    OBVIOUS
  <1>2. /\ \A n \in 1..(Len(E) + 1) : n = Len(E) + 1 \/ n \in 1..Len(E)
        /\ \A n \in 1..Len(E) : n \in 1..(Len(E) + 1)
        /\ Len(E) + 1 \in 1..(Len(E) + 1)
        /\ \A m, n \in 1..(Len(E) + 1) : m < n => m \in 1..Len(E)
        /\ \A i \in 1..(a + 1) : i = a + 1 \/ i \in 1..a
        /\ \A i \in 1..a : i \in 1..(a + 1)
        /\ a + 1 \in 1..(a + 1)
    BY <1>1
  <1>3. /\ \A n \in 1..Len(E) : \E i \in 1..a : E[n].line = p[i] /\ p[i].kind \in W
        /\ \A i \in 1..a : p[i].kind \in W => \E n \in 1..Len(E) : E[n].line = p[i]
        /\ \A m, n \in 1..Len(E) : m < n => Precedes(E[m].line, E[n].line)
    BY DEF ErrorsTo
  <1> HIDE DEF F
  <1>4. ASSUME NEW n \in 1..Len(F)
        PROVE  \E i \in 1..(a + 1) : F[n].line = p[i] /\ p[i].kind \in W
    <2>1. CASE n = Len(E) + 1
      BY <1>1, <1>2, <2>1
    <2>2. CASE n \in 1..Len(E)
      <3>1. PICK i \in 1..a : E[n].line = p[i] /\ p[i].kind \in W
        BY <1>3, <2>2
      <3> QED  BY <1>1, <1>2, <2>2, <3>1
    <2> QED  BY <1>1, <1>2, <2>1, <2>2
  <1>5. ASSUME NEW i \in 1..(a + 1), p[i].kind \in W
        PROVE  \E n \in 1..Len(F) : F[n].line = p[i]
    <2>1. CASE i = a + 1
      BY <1>1, <1>2, <2>1
    <2>2. CASE i \in 1..a
      <3>1. PICK n \in 1..Len(E) : E[n].line = p[i]
        BY <1>3, <1>5, <2>2
      <3> QED  BY <1>1, <1>2, <3>1
    <2> QED  BY <1>2, <2>1, <2>2
  <1>6. ASSUME NEW m \in 1..Len(F), NEW n \in 1..Len(F), m < n
        PROVE  Precedes(F[m].line, F[n].line)
    <2>1. m \in 1..Len(E) /\ F[m] = E[m]
      BY <1>1, <1>2, <1>6
    <2>2. CASE n = Len(E) + 1
      <3>1. PICK i \in 1..a : E[m].line = p[i] /\ p[i].kind \in W
        BY <1>3, <2>1
      <3> QED  BY <1>1, <2>1, <2>2, <3>1
    <2>3. CASE n \in 1..Len(E)
      BY <1>1, <1>3, <1>6, <2>1, <2>3
    <2> QED  BY <1>1, <1>2, <2>2, <2>3
  <1>7. ErrorsTo(F, p, a + 1, W)
    BY <1>4, <1>5, <1>6 DEF ErrorsTo
  <1> QED  BY <1>7 DEF F

\* What a step of the reader starts from.
LEMMA ReaderIs ==
  ASSUME SparseAt, Completed, AsAsked
  PROVE  /\ Ready /\ sparse_errs \in Seq(SparseErrors)
         /\ Printed(program, printed) /\ TornLast(printed) /\ TornFree(printed)
         /\ sparse_at \in Nat /\ Len(printed) \in Nat /\ sparse_at <= Len(printed)
         /\ Len(program) \in Nat /\ sparse_at \in 0..Len(printed)
         /\ Whole(program, opts, printed, sparse_pc, k, sym, instruction)
  <1>1. Ready /\ sparse_errs \in Seq(SparseErrors)
    BY DEF SparseAt, Attribution
  <1>2. /\ Printed(program, printed) /\ TornLast(printed) /\ Len(program) \in Nat
        /\ sparse_at \in 0..Len(printed) /\ sparse_at \in Nat /\ Len(printed) \in Nat
    BY <1>1, ReadyIs
  <1>3. sparse_at <= Len(printed)
    BY <1>2
  <1>4. TornFree(printed) /\ Whole(program, opts, printed, sparse_pc, k, sym, instruction)
    BY <1>1 DEF AsAsked, Ready, Analyzed, An, Completed
  <1> QED  BY <1>1, <1>2, <1>3, <1>4

\* One line is read.
LEMMA LineRead ==
  ASSUME SparseAt, Completed, AsAsked, Read
  PROVE  /\ sparse_at \in Nat /\ sparse_at + 1 \in Nat /\ sparse_at' = sparse_at + 1
         /\ sparse_at < Len(printed) /\ sparse_at # Len(printed)
         /\ read = printed[sparse_at + 1] /\ read.kind # "torn" /\ read \in SparseLine
         /\ read.kind \in Other => OthersBy(printed, sparse_at)
         /\ read.kind \in InFirstPass \cup Passes => ~OthersBy(printed, sparse_at)
         /\ OthersBy(printed, sparse_at + 1) <=> OthersBy(printed, sparse_at) \/ read.kind = "others"
         /\ \A i \in 1..sparse_at : printed[i].kind \in BodyKind /\ read.kind \in BodyKind =>
              Precedes(printed[i], read)
  <1>1. /\ Ready /\ Printed(program, printed) /\ TornLast(printed) /\ TornFree(printed)
        /\ sparse_at \in Nat /\ Len(printed) \in Nat /\ sparse_at \in 0..Len(printed)
        /\ Whole(program, opts, printed, sparse_pc, k, sym, instruction)
    BY ReaderIs
  <1>2. sparse_at < Len(printed) /\ sparse_at' = sparse_at + 1
    BY DEF Read, More
  <1>3. /\ sparse_at + 1 \in 1..Len(printed) /\ sparse_at # Len(printed) /\ read \in SparseLine
        /\ OthersBy(printed, sparse_at + 1) <=> OthersBy(printed, sparse_at) \/ read.kind = "others"
    BY <1>1, <1>2, NextIs DEF read
  <1>4. (sparse_at + 1) - 1 = sparse_at /\ sparse_at + 1 \in Nat
    BY <1>1
  <1>5. /\ read.kind \in Other => OthersBy(printed, sparse_at)
        /\ read.kind \in InFirstPass \cup Passes => ~OthersBy(printed, sparse_at)
    BY <1>1, <1>3, <1>4 DEF Printed, Sectioned, read
  <1>6. read.kind # "torn"
    BY <1>1, <1>3 DEF TornFree, read
  <1>7. \A i \in 1..sparse_at : i \in 1..Len(printed) /\ i < sparse_at + 1
    BY <1>1, <1>2
  <1>8. \A i \in 1..sparse_at : printed[i].kind \in BodyKind /\ read.kind \in BodyKind =>
              Precedes(printed[i], read)
    BY <1>1, <1>3, <1>7 DEF Whole, read
  <1> QED  BY <1>1, <1>2, <1>3, <1>4, <1>5, <1>6, <1>8 DEF read

LEMMA ErrorsToOver ==
  ASSUME SparseAt, Completed, AsAsked, Read, read.kind \notin TakenKinds(sparse_flags),
         ErrorsTo(sparse_errs, printed, sparse_at, TakenKinds(sparse_flags))
  PROVE  ErrorsTo(sparse_errs, printed, sparse_at + 1, TakenKinds(sparse_flags))
  <1>1. /\ sparse_at \in Nat /\ sparse_at + 1 \in Nat /\ read = printed[sparse_at + 1]
    BY LineRead
  <1>2. sparse_at <= sparse_at + 1 /\ \A i \in 1..(sparse_at + 1) : i > sparse_at => i = sparse_at + 1
    BY <1>1
  <1> QED  BY <1>1, <1>2, ErrorsToSkip

LEMMA FirstPlace == 0 + 1 = 1
  OBVIOUS

LEMMA GathersFind ==
  ASSUME SparseAt, Completed, AsAsked, ReadsOn,
         \/ FindSection("calls", "find calls", "calls file")
         \/ FindSection("others", "find others", "others file")
  PROVE  ReadsOn'
  <1> DEFINE W == TakenKinds(sparse_flags)
  <1>1. /\ program' = program /\ printed' = printed /\ sparse_flags' = sparse_flags
        /\ sparse_errs' = sparse_errs
    BY DEF FindSection, input, analyzerVars
  <1>2. ErrorsTo(sparse_errs, printed, sparse_at, W)
    BY DEF ReadsOn, FindSection
  <1>3. CASE ~More /\ sparse_at' = sparse_at
    <2>1. sparse_pc' \in {"calls file", "others file"} /\ (sparse_pc' = "calls file" => TracksCalls)
      BY <1>3 DEF FindSection, Read, ReadsOn
    <2>2. ErrorsTo(sparse_errs', printed', sparse_at', W)
      BY <1>1, <1>2, <1>3
    <2>3. /\ sparse_pc' # "done" /\ sparse_pc' # "find calls" /\ sparse_pc' # "find others"
          /\ sparse_pc' \in InCalls => TracksCalls
      BY <2>1 DEF InCalls
    <2> QED  BY <1>1, <2>2, <2>3 DEF ReadsOn, TracksCalls
  <1>4. CASE Read /\ FindSection("calls", "find calls", "calls file")
    <2>1. sparse_at = 0 /\ TracksCalls
      BY <1>4 DEF FindSection, ReadsOn
    <2>2. Len(printed) > 0 /\ printed[1].kind = "calls"
      BY <1>4, <2>1 DEF FindSection, SparseAt, Ready, Analyzed, An, AsAsked
    <2>3. read.kind = "calls"
      <3>1. read = printed[sparse_at + 1]
        BY <1>4, LineRead
      <3>2. read = printed[0 + 1]
        BY <2>1, <3>1, Zenon
      <3> QED  BY <2>2, <3>2, FirstPlace, Zenon
    <2>4. sparse_pc' = "calls file"
      BY <1>4, <2>3 DEF FindSection, Read
    <2>5. read.kind \notin W
      BY <2>3, TakenKindsAre, Kinds DEF Passes
    <2>6. ErrorsTo(sparse_errs, printed, sparse_at + 1, W)
      BY <1>2, <1>4, <2>5, ErrorsToOver
    <2>7. sparse_at' = sparse_at + 1
      BY <1>4, LineRead
    <2> QED  BY <1>1, <2>1, <2>4, <2>6, <2>7 DEF ReadsOn, TracksCalls, InCalls
  <1>5. CASE Read /\ FindSection("others", "find others", "others file")
    <2>1. /\ sparse_at' = sparse_at + 1 /\ sparse_at < Len(printed) /\ sparse_at # Len(printed)
          /\ read.kind \in Other => OthersBy(printed, sparse_at)
          /\ OthersBy(printed, sparse_at + 1) <=> OthersBy(printed, sparse_at) \/ read.kind = "others"
          /\ read = printed[sparse_at + 1] /\ read.kind # "torn"
      BY <1>5, LineRead
    <2>2. /\ ~OthersBy(printed, sparse_at)
          /\ TracksCalls => AtFile(printed, sparse_at, Len(program) + 1)
      BY <1>5, <2>1 DEF FindSection, ReadsOn
    <2>3. TracksCalls => read.kind = "others"
      <3>1. /\ Printed(program, printed) /\ TornLast(printed) /\ Len(program) \in Nat
            /\ sparse_at \in 0..Len(printed)
        BY ReaderIs
      <3>2. TracksCalls => printed[sparse_at + 1].kind \in {"others", "torn"}
        BY <2>1, <2>2, <3>1, AfterLastFile
      <3> QED  BY <2>1, <3>2
    <2>4. read.kind \notin W
      <3>1. CASE read.kind = "others"
        BY <3>1, TakenKindsAre, Kinds DEF Passes
      <3>2. CASE read.kind # "others"
        <4>1. read.kind \notin Other /\ ~TracksCalls
          BY <2>1, <2>2, <2>3, <3>2
        <4>2. W \subseteq InFirstPass \cup Other /\ \A c \in InFirstPass : c \notin W
          BY <4>1, TakenKindsAre DEF TracksCalls, BodyKind
        <4> QED  BY <4>1, <4>2
      <3> QED  BY <3>1, <3>2
    <2>5. ErrorsTo(sparse_errs, printed, sparse_at + 1, W)
      BY <1>2, <1>5, <2>4, ErrorsToOver
    <2>6. CASE read.kind = "others"
      <3>1. sparse_pc' = "others file" /\ "others file" \notin InCalls
        BY <1>5, <2>6 DEF FindSection, Read, InCalls
      <3> QED  BY <1>1, <2>1, <2>5, <3>1 DEF ReadsOn
    <2>7. CASE read.kind # "others"
      <3>1. sparse_pc' = "find others" /\ "find others" \notin InCalls /\ ~TracksCalls
        BY <1>5, <2>3, <2>7 DEF FindSection, Read, InCalls
      <3>2. ~OthersBy(printed, sparse_at + 1)
        BY <2>1, <2>2, <2>7
      <3>3. ~TracksCalls'
        BY <1>1, <3>1 DEF TracksCalls
      <3> QED  BY <1>1, <2>1, <2>5, <3>1, <3>2, <3>3 DEF ReadsOn
    <2> QED  BY <2>6, <2>7
  <1>6. Read \/ (~More /\ sparse_at' = sparse_at)
    BY DEF FindSection
  <1> QED  BY <1>3, <1>4, <1>5, <1>6

\* A step inside a section that adds no error.
LEMMA GathersWithin ==
  ASSUME SparseAt, Completed, AsAsked, ReadsOn,
         UNCHANGED <<program, printed, sparse_flags, sparse_errs>>,
         sparse_pc \in InCalls \cup InOthers, sparse_pc' \in InCalls \cup InOthers,
         sparse_pc' \in InCalls => sparse_pc \in InCalls,
         \/ Read /\ read.kind \notin TakenKinds(sparse_flags)
         \/ sparse_at' = sparse_at
  PROVE  ReadsOn'
  <1> DEFINE W == TakenKinds(sparse_flags)
  <1>1. /\ sparse_pc # "done" /\ sparse_pc' # "done" /\ sparse_pc' # "find calls"
        /\ sparse_pc' # "find others"
    BY DEF InCalls, InOthers
  <1>2. ErrorsTo(sparse_errs, printed, sparse_at, W) /\ (sparse_pc \in InCalls => TracksCalls)
    BY <1>1 DEF ReadsOn
  <1>3. ErrorsTo(sparse_errs, printed, sparse_at', W)
    <2>1. CASE Read /\ read.kind \notin W
      BY <1>2, <2>1, ErrorsToOver, LineRead
    <2>2. CASE sparse_at' = sparse_at
      BY <1>2, <2>2
    <2> QED  BY <2>1, <2>2
  <1>4. sparse_pc' \in InCalls => TracksCalls'
    BY <1>2 DEF TracksCalls
  <1> QED  BY <1>1, <1>3, <1>4 DEF ReadsOn

\* A heading is not tracked.
LEMMA HeadingsAreNot ==
  ASSUME NEW F
  PROVE  {"file", "end file", "function", "end function", "torn"} \cap TakenKinds(F) = {}
  BY TakenKindsAre, Kinds

LEMMA GathersFile ==
  ASSUME SparseAt, Completed, AsAsked, ReadsOn,
         ReadFile("calls file", "calls functions") \/ ReadFile("others file", "others functions")
  PROVE  ReadsOn'
  <1>1. /\ UNCHANGED <<program, printed, sparse_flags, sparse_errs>>
        /\ sparse_pc \in {"calls file", "others file"} /\ k <= Len(program)
        /\ sparse_pc = "calls file" => sparse_pc' = "calls functions"
        /\ sparse_pc = "others file" => sparse_pc' = "others functions"
        /\ Read \/ sparse_at' = sparse_at
    BY DEF ReadFile, input, analyzerVars
  <1>2. /\ sparse_pc \in InCalls \cup InOthers /\ sparse_pc' \in InCalls \cup InOthers
        /\ sparse_pc' \in InCalls => sparse_pc \in InCalls
    BY <1>1 DEF InCalls, InOthers
  <1>3. ASSUME Read PROVE read.kind \notin TakenKinds(sparse_flags)
    <2>1. /\ Ready /\ Printed(program, printed) /\ TornLast(printed) /\ Len(program) \in Nat
          /\ sparse_at \in 0..Len(printed)
      BY ReaderIs
    <2>2. k \in 1..(Len(program) + 1) /\ AtFile(printed, sparse_at, k)
      BY <1>1, <2>1 DEF Ready, Positioned, Position
    <2>3. k \in Nat /\ 0 < k
      BY <1>1, <2>1, <2>2, WithinRange
    <2>4. sparse_at < Len(printed) /\ read = printed[sparse_at + 1]
      BY <1>3, LineRead
    <2>5. read.kind \in {"file", "torn"}
      BY <1>1, <2>1, <2>2, <2>3, <2>4, AfterFile
    <2> QED  BY <2>5, HeadingsAreNot
  <1> QED  BY <1>1, <1>2, <1>3, GathersWithin

LEMMA GathersFunction ==
  ASSUME SparseAt, Completed, AsAsked, ReadsOn,
         \/ ReadFunction("calls file", "calls functions", "calls errors")
         \/ ReadFunction("others file", "others functions", "others errors")
  PROVE  ReadsOn'
  <1>1. /\ UNCHANGED <<program, printed, sparse_flags, sparse_errs>>
        /\ sparse_pc \in {"calls functions", "others functions"}
        /\ sparse_pc = "calls functions" => sparse_pc' \in {"calls file", "calls errors"}
        /\ sparse_pc = "others functions" => sparse_pc' \in {"others file", "others errors"}
        /\ Read \/ sparse_at' = sparse_at
    BY DEF ReadFunction, input, analyzerVars
  <1>2. /\ sparse_pc \in InCalls \cup InOthers /\ sparse_pc' \in InCalls \cup InOthers
        /\ sparse_pc' \in InCalls => sparse_pc \in InCalls
    BY <1>1 DEF InCalls, InOthers
  <1>3. ASSUME Read PROVE read.kind \notin TakenKinds(sparse_flags)
    <2>1. /\ Ready /\ Printed(program, printed) /\ TornLast(printed)
          /\ sparse_at \in 0..Len(printed)
      BY ReaderIs
    <2>2. AtFunctions(printed, sparse_at, k, file_name)
      BY <1>1, <2>1 DEF Ready, Positioned, Position
    <2>3. sparse_at < Len(printed) /\ read = printed[sparse_at + 1]
      BY <1>3, LineRead
    <2>4. read.kind \in {"function", "end file", "torn"}
      BY <2>1, <2>2, <2>3, AfterFunctions
    <2> QED  BY <2>4, HeadingsAreNot
  <1> QED  BY <1>1, <1>2, <1>3, GathersWithin

LEMMA GathersError ==
  ASSUME SparseAt, Completed, AsAsked, ReadsOn,
         NEW file, NEW functions, NEW errors, ReadError(file, functions, errors),
         <<file, functions, errors>> \in {<<"calls file", "calls functions", "calls errors">>,
                                          <<"others file", "others functions", "others errors">>}
  PROVE  ReadsOn'
  <1> DEFINE W == TakenKinds(sparse_flags)
             e == [type |-> IF file = "calls file" THEN "call" ELSE read.kind,
                   file |-> file_name, func |-> func_name, line |-> read]
  <1>1. /\ program' = program /\ printed' = printed /\ sparse_flags' = sparse_flags
        /\ sparse_pc = errors /\ sparse_pc' \in {functions, errors}
        /\ \/ /\ Read
              /\ sparse_errs' = IF read.kind # "end function" /\ Wanted(file, read)
                                THEN Append(sparse_errs, e) ELSE sparse_errs
           \/ sparse_at' = sparse_at /\ sparse_errs' = sparse_errs
    BY DEF ReadError, input, analyzerVars
  <1>2. /\ sparse_pc \in {"calls errors", "others errors"}
        /\ sparse_pc \in InCalls \cup InOthers /\ sparse_pc' \in InCalls \cup InOthers
        /\ sparse_pc' \in InCalls <=> sparse_pc \in InCalls
        /\ sparse_pc \in InCalls <=> file = "calls file"
        /\ sparse_pc \in InOthers <=> file # "calls file"
    BY <1>1 DEF InCalls, InOthers
  <1>3. ErrorsTo(sparse_errs, printed, sparse_at, W) /\ (sparse_pc \in InCalls => TracksCalls)
    BY <1>2 DEF ReadsOn
  <1>4. ASSUME Read
        PROVE  /\ read.kind \in BodyKind \cup {"end function"} /\ sparse_at # Len(printed)
               /\ read.kind \in BodyKind => (Wanted(file, read) <=> read.kind \in W)
    <2>1. Ready
      BY ReaderIs
    <2>2. read.kind \in BodyKind \cup {"end function", "torn"}
      BY <1>2, <1>4, <2>1, ErrorRead
    <2>3. /\ read.kind # "torn" /\ sparse_at # Len(printed)
          /\ read.kind \in Other => OthersBy(printed, sparse_at)
          /\ read.kind \in InFirstPass \cup Passes => ~OthersBy(printed, sparse_at)
      BY <1>4, LineRead
    <2>4. /\ sparse_pc \in InCalls => ~OthersBy(printed, sparse_at)
          /\ sparse_pc \in InOthers => OthersBy(printed, sparse_at)
      BY <2>1, <2>3 DEF Ready, Positioned, Position
    <2>5. ASSUME read.kind \in BodyKind PROVE Wanted(file, read) <=> read.kind \in W
      <3>1. read.kind \in InFirstPass \/ read.kind \in Other
        BY <2>5 DEF BodyKind
      <3>2. CASE file = "calls file"
        <4>1. read.kind \in InFirstPass /\ TracksCalls
          BY <1>2, <1>3, <2>3, <2>4, <3>1, <3>2
        <4>2. read.kind \in W
          BY <4>1, TakenKindsAre DEF TracksCalls
        <4> QED  BY <3>2, <4>2 DEF Wanted
      <3>3. CASE file # "calls file"
        <4>1. read.kind \in Other
          BY <1>2, <2>3, <2>4, <3>1, <3>3
        <4>2. read.kind \in W <=> read.kind \in sparse_flags
          BY <4>1, TakenKindsAre
        <4> QED  BY <3>3, <4>1, <4>2 DEF Wanted
      <3> QED  BY <3>2, <3>3
    <2> QED  BY <2>2, <2>3, <2>5
  <1>5. CASE sparse_errs' = sparse_errs /\ (sparse_at' = sparse_at \/ (Read /\ read.kind \notin W))
    BY <1>1, <1>2, <1>5, GathersWithin
  <1>6. CASE Read /\ read.kind \in BodyKind /\ read.kind \in W /\ sparse_errs' = Append(sparse_errs, e)
    <2>1. Ready /\ sparse_errs \in Seq(SparseErrors)
      BY ReaderIs
    <2>2. read.kind # "end function" /\ Wanted(file, read)
      BY <1>4, <1>6, Kinds
    <2>3. e \in SparseErrors
      BY <1>6, <2>1, <2>2, ErrorMade
    <2>4. e.line = read
      OBVIOUS
    <2> HIDE DEF e
    <2>5. /\ sparse_at \in Nat /\ sparse_at' = sparse_at + 1 /\ read = printed[sparse_at + 1]
          /\ \A i \in 1..sparse_at : printed[i].kind \in BodyKind => Precedes(printed[i], read)
      BY <1>6, LineRead
    <2>6. \A i \in 1..sparse_at : printed[i].kind \in W => Precedes(printed[i], read)
      BY <2>5, TakenKindsAre
    <2>7. ErrorsTo(Append(sparse_errs, e), printed, sparse_at + 1, W)
      BY <1>3, <1>6, <2>1, <2>3, <2>4, <2>5, <2>6, ErrorsToAppend
    <2>8. /\ sparse_pc' # "done" /\ sparse_pc' # "find calls" /\ sparse_pc' # "find others"
      BY <1>2 DEF InCalls, InOthers
    <2>9. sparse_pc' \in InCalls => TracksCalls'
      BY <1>1, <1>2, <1>3 DEF TracksCalls
    <2>10. ErrorsTo(sparse_errs', printed', sparse_at', TakenKinds(sparse_flags'))
      BY <1>1, <1>6, <2>5, <2>7
    <2> QED  BY <2>8, <2>9, <2>10 DEF ReadsOn
  <1>7. Read /\ read.kind = "end function" => read.kind \notin W /\ read.kind \notin BodyKind
    BY HeadingsAreNot, Kinds
  <1> HIDE DEF W, e
  <1> QED  BY <1>1, <1>4, <1>5, <1>6, <1>7

LEMMA GathersSection ==
  ASSUME SparseAt, Completed, AsAsked, ReadsOn, SectionRead
  PROVE  ReadsOn'
  <1> DEFINE W == TakenKinds(sparse_flags)
  <1>1. /\ program' = program /\ printed' = printed /\ sparse_flags' = sparse_flags
        /\ sparse_errs' = sparse_errs /\ sparse_at' = sparse_at
        /\ sparse_pc \in {"calls file", "others file"} /\ k > Len(program)
        /\ sparse_pc' = IF sparse_pc = "calls file" /\ TracksOthers THEN "find others" ELSE "done"
    BY DEF SectionRead, input, analyzerVars, moduleVars
  <1>2. /\ Ready /\ Printed(program, printed) /\ TornLast(printed) /\ TornFree(printed)
        /\ Len(program) \in Nat /\ sparse_at \in 0..Len(printed) /\ sparse_at \in Nat
        /\ Len(printed) \in Nat /\ sparse_at <= Len(printed)
    BY ReaderIs
  <1>3. /\ ErrorsTo(sparse_errs, printed, sparse_at, W)
        /\ sparse_pc = "calls file" => TracksCalls
    BY <1>1 DEF ReadsOn, InCalls
  <1>4. /\ k \in 1..(Len(program) + 1) /\ AtFile(printed, sparse_at, k)
        /\ sparse_pc = "calls file" => sparse_at = Len(printed) \/ ~OthersBy(printed, sparse_at)
        /\ sparse_pc = "others file" => sparse_at = Len(printed) \/ OthersBy(printed, sparse_at)
    BY <1>1, <1>2 DEF Ready, Positioned, Position, InCalls, InOthers
  <1>5. AtFile(printed, sparse_at, Len(program) + 1)
    <2>1. k = Len(program) + 1
      <3>1. Len(program) \in Nat /\ k \in 1..(Len(program) + 1) /\ k > Len(program)
        BY <1>1, <1>2, <1>4
      <3> QED  BY <3>1, WithinRange
    <2> QED  BY <1>4, <2>1
  <1>6. sparse_at < Len(printed) =>
          /\ sparse_at + 1 \in 1..Len(printed) /\ printed[sparse_at + 1].kind = "others"
          /\ ~OthersBy(printed, sparse_at)
    <2>1. SUFFICES ASSUME sparse_at < Len(printed)
                   PROVE  /\ sparse_at + 1 \in 1..Len(printed) /\ printed[sparse_at + 1].kind = "others"
                          /\ ~OthersBy(printed, sparse_at)
      OBVIOUS
    <2>2. sparse_at + 1 \in 1..Len(printed)
      BY <1>2, <2>1
    <2>3. printed[sparse_at + 1].kind \in {"others", "torn"}
      BY <1>2, <1>5, <2>1, AfterLastFile
    <2>4. printed[sparse_at + 1].kind = "others"
      BY <1>2, <2>2, <2>3 DEF TornFree
    <2>5. ~OthersBy(printed, (sparse_at + 1) - 1)
      BY <1>2, <2>2, <2>4 DEF Printed, Sectioned, Passes
    <2>6. (sparse_at + 1) - 1 = sparse_at
      BY <1>2
    <2> QED  BY <2>2, <2>4, <2>5, <2>6
  <1>7. CASE sparse_pc = "calls file" /\ TracksOthers
    <2>1. sparse_pc' = "find others" /\ "find others" \notin InCalls
      BY <1>1, <1>7 DEF InCalls
    <2> QED  BY <1>1, <1>3, <1>4, <1>5, <1>7, <2>1 DEF ReadsOn
  <1>8. CASE ~(sparse_pc = "calls file" /\ TracksOthers)
    <2>1. sparse_pc' = "done" /\ "done" \notin InCalls
      BY <1>1, <1>8 DEF InCalls
    <2>2. \A i \in 1..Len(printed) : i > sparse_at => printed[i].kind \notin W
      <3>1. SUFFICES ASSUME NEW i \in 1..Len(printed), i > sparse_at PROVE printed[i].kind \notin W
        OBVIOUS
      <3>2. sparse_at < Len(printed) /\ sparse_at # Len(printed)
        BY <1>2, <3>1
      <3>3. sparse_pc # "others file"
        BY <1>4, <1>6, <3>2
      <3>4. ~TracksOthers
        BY <1>1, <1>8, <3>3
      <3>5. W \subseteq InFirstPass
        BY <3>4, Kinds DEF TracksOthers, TakenKinds
      <3>6. printed[i].kind \notin InFirstPass
        <4>1. CASE i = sparse_at + 1
          <5>1. "others" \notin InFirstPass
            BY DEF InFirstPass, Noise
          <5> QED  BY <1>6, <3>2, <4>1, <5>1
        <4>2. CASE i # sparse_at + 1
          <5>1. sparse_at + 1 \in 1..(i - 1)
            BY <1>2, <3>1, <4>2
          <5>2. OthersBy(printed, i - 1)
            BY <1>6, <3>2, <5>1 DEF OthersBy
          <5> QED  BY <1>2, <5>2 DEF Printed, Sectioned
        <4> QED  BY <4>1, <4>2
      <3> QED  BY <3>5, <3>6
    <2>3. ErrorsTo(sparse_errs, printed, Len(printed), W)
      BY <1>2, <1>3, <2>2, ErrorsToSkip
    <2> QED  BY <1>1, <2>1, <2>3 DEF ReadsOn
  <1> QED  BY <1>7, <1>8

\* Until the reader starts nothing has been read.
LEMMA GathersNothing ==
  ASSUME sparse_pc \in {"main", "open"} \cup Passes, sparse_at = 0, sparse_errs = <<>>
  PROVE  ReadsOn
  <1>0. 1..0 = {}
    OBVIOUS
  <1>1. sparse_pc # "done" /\ sparse_pc # "find calls" /\ sparse_pc # "find others"
        /\ sparse_pc \notin InCalls
    BY DEF Passes, InCalls
  <1>2. ErrorsTo(<<>>, printed, 0, TakenKinds(sparse_flags))
    BY <1>0, ErrorsToNone
  <1> QED  BY <1>1, <1>2 DEF ReadsOn

LEMMA GathersOpen ==
  ASSUME SparseAt, Completed, AsAsked, fopen
  PROVE  ReadsOn'
  <1> DEFINE W == TakenKinds(sparse_flags)
  <1>1. /\ program' = program /\ printed' = printed /\ sparse_flags' = sparse_flags
        /\ sparse_errs' = sparse_errs /\ sparse_at' = sparse_at /\ sparse_pc = "open"
        /\ sparse_pc' = CASE TracksCalls                   -> "find calls"
                          [] ~TracksCalls /\ TracksOthers  -> "find others"
                          [] OTHER                         -> "done"
    BY DEF fopen, input, analyzerVars, moduleVars
  <1>2. sparse_at = 0 /\ sparse_errs = <<>>
    BY <1>1 DEF SparseAt, Ready, Positioned, Position
  <1>3. 1..0 = {} /\ ~OthersBy(printed, 0)
    BY DEF OthersBy
  <1>4. ErrorsTo(<<>>, printed, 0, W)
    BY <1>3, ErrorsToNone
  <1>5. CASE TracksCalls
    <2>1. sparse_pc' = "find calls" /\ "find calls" \notin InCalls
      BY <1>1, <1>5 DEF InCalls
    <2> QED  BY <1>1, <1>2, <1>4, <1>5, <2>1 DEF ReadsOn, TracksCalls
  <1>6. CASE ~TracksCalls /\ TracksOthers
    <2>1. sparse_pc' = "find others" /\ "find others" \notin InCalls
      BY <1>1, <1>6 DEF InCalls
    <2> QED  BY <1>1, <1>2, <1>3, <1>4, <1>6, <2>1 DEF ReadsOn, TracksCalls
  <1>7. CASE ~TracksCalls /\ ~TracksOthers
    <2>1. sparse_pc' = "done" /\ "done" \notin InCalls
      BY <1>1, <1>7 DEF InCalls
    <2>2. W = {}
      BY <1>7 DEF TakenKinds, TracksCalls, TracksOthers
    <2>3. ErrorsTo(<<>>, printed, Len(printed), W)
      BY <2>2, ErrorsToNone
    <2> QED  BY <1>1, <1>2, <2>1, <2>3 DEF ReadsOn
  <1> QED  BY <1>5, <1>6, <1>7

LEMMA GathersStep ==
  ASSUME SparseAt, Completed, Gathers, SparseNext \/ UNCHANGED sparseVars
  PROVE  Gathers'
  <1>1. SparseAt'
    BY AtStep
  <1>2. CASE Analyze
    <2>1. sparse_pc' \in {"open"} \cup Passes
      <3>1. CASE main
        BY <3>1 DEF main, Section, Passes
      <3>2. CASE NoBlackList
        BY <3>2 DEF NoBlackList
      <3>3. CASE EndPass
        BY <3>3 DEF EndPass, Section, Passes
      <3>4. CASE parse_file_list
        BY <3>4 DEF parse_file_list, FileBegins, FileEnds, InFile
      <3>5. CASE parse_function_list
        BY <3>5 DEF parse_function_list, FunctionBegins, FunctionEnds, examine_stmt_expression,
                    Summary, InFile, InFunction
      <3>6. CASE AnalyzerDies
        BY <3>6 DEF AnalyzerDies
      <3> QED  BY <1>2, <3>1, <3>2, <3>3, <3>4, <3>5, <3>6 DEF Analyze
    <2>2. sparse_at' = 0 /\ sparse_errs' = <<>>
      BY <1>1, <2>1 DEF SparseAt, Ready, Positioned, Position
    <2>0. 1..0 = {}
      OBVIOUS
    <2>3. /\ sparse_pc' # "done" /\ sparse_pc' # "find calls"
          /\ sparse_pc' # "find others" /\ sparse_pc' \notin InCalls
      BY <2>1 DEF Passes, InCalls
    <2>4. ErrorsTo(sparse_errs', printed', sparse_at', TakenKinds(sparse_flags'))
      BY <2>0, <2>2, ErrorsToNone
    <2> QED  BY <2>3, <2>4 DEF Gathers, ReadsOn
  <1>3. CASE fopen \/ parse_output_file \/ UNCHANGED sparseVars
    <2>1. crashed' = crashed /\ opts' = opts /\ sparse_flags' = sparse_flags
      BY <1>3 DEF fopen, parse_output_file, FindSection, ReadFile, ReadFunction, ReadError, SectionRead,
                  sparseVars, analyzerVars, input
    <2>2. AsAsked' => AsAsked
      BY <2>1 DEF AsAsked, TracksCalls
    <2>3. SUFFICES ASSUME AsAsked, ReadsOn PROVE ReadsOn'
      BY <2>2 DEF Gathers
    <2>4. CASE fopen
      BY <2>3, <2>4, GathersOpen
    <2>5. CASE parse_output_file
      <3>1. CASE \/ ReadError("calls file", "calls functions", "calls errors")
                 \/ ReadError("others file", "others functions", "others errors")
        <4>1. /\ <<"calls file", "calls functions", "calls errors">> \in
                   {<<"calls file", "calls functions", "calls errors">>,
                    <<"others file", "others functions", "others errors">>}
              /\ <<"others file", "others functions", "others errors">> \in
                   {<<"calls file", "calls functions", "calls errors">>,
                    <<"others file", "others functions", "others errors">>}
          OBVIOUS
        <4> QED  BY <2>3, <3>1, <4>1, GathersError
      <3> QED  BY <2>3, <2>5, <3>1, GathersFind, GathersFile, GathersFunction, GathersSection
                  DEF parse_output_file
    <2>6. CASE UNCHANGED sparseVars
      <3>1. /\ UNCHANGED <<program, sparse_flags, printed, sparse_pc, sparse_at, sparse_errs>>
        BY <2>6 DEF sparseVars, input, analyzerVars, moduleVars
      <3> QED  BY <2>3, <3>1 DEF ReadsOn, TracksCalls
    <2> QED  BY <1>3, <2>4, <2>5, <2>6
  <1> QED  BY <1>2, <1>3 DEF SparseNext, SparseStopped

LEMMA GathersInit ==
  ASSUME SparseInit
  PROVE  Gathers
  <1>1. sparse_pc = "main" /\ sparse_at = 0 /\ sparse_errs = <<>>
    BY DEF SparseInit
  <1> QED  BY <1>1, GathersNothing DEF Gathers

\* What Deserved names is what is owed and tracked.
LEMMA DeservedIs ==
  ASSUME Inputs, AsAsked, NEW l \in SparseLine
  PROVE  /\ Owed(program, opts, l) /\ l.kind \in TakenKinds(sparse_flags) =>
              /\ l.file \in 1..Len(program) /\ l.func \in 1..Len(program[l.file])
              /\ l \in Deserved(l.file, l.func)
  <1> SUFFICES ASSUME Owed(program, opts, l), l.kind \in TakenKinds(sparse_flags)
               PROVE  /\ l.file \in 1..Len(program) /\ l.func \in 1..Len(program[l.file])
                      /\ l \in Deserved(l.file, l.func)
    OBVIOUS
  <1>1. program \in Seq(Seq(Function))
    BY DEF Inputs
  <1>2. l.file \in 1..Len(program) /\ l.func \in 1..Len(program[l.file])
    BY DEF Owed
  <1>3. /\ InFirst(l) => OwedCall(program, opts, l)
        /\ ~InFirst(l) => OwedOther(program, opts, l)
        /\ InFirst(l) <=> l.kind \in InFirstPass
    BY <1>1, OwedIs
  <1>4. l = Line(l.kind, l.file, l.func, l.stmt)
    BY DEF SparseLine, Line
  <1> DEFINE func == program[l.file][l.func]
             L(kind, s) == Line(kind, l.file, l.func, s)
  <1>5. CASE InFirst(l)
    <2>1. /\ l.kind \in {"call"} \cup Noise /\ l.stmt \in 1..Len(func.calls)
          /\ l.kind \in Says(func.calls[l.stmt]) /\ TracksCalls
      BY <1>3, <1>5, TakenKindsAre DEF OwedCall, InFirstPass, TracksCalls
    <2> HIDE DEF func
    <2>2. l \in {L(kind, s) : kind \in {"call"} \cup Noise, s \in 1..Len(func.calls)}
      <3>1. l = L(l.kind, l.stmt)
        BY <1>4
      <3>2. \E kind \in {"call"} \cup Noise : \E s \in 1..Len(func.calls) : l = L(kind, s)
        BY <2>1, <3>1
      <3> HIDE DEF L
      <3> QED  BY <3>2
    <2>3. l \in Deserved(l.file, l.func)
      BY <2>1, <2>2 DEF Deserved, func
    <2> QED  BY <1>2, <2>3
  <1>6. CASE ~InFirst(l)
    <2>1. /\ l.stmt \in 1..Len(SummaryOrder) /\ l.kind = SummaryOrder[l.stmt]
          /\ l.kind \in func.other \cap opts /\ l.kind \in Other
      BY <1>3, <1>6 DEF OwedOther, InFirst
    <2>2. l.kind \in sparse_flags
      BY <2>1, TakenKindsAre
    <2> HIDE DEF func
    <2>3. l.stmt \in {t \in 1..Len(SummaryOrder) : SummaryOrder[t] \in func.other \cap opts \cap sparse_flags}
      BY <2>1, <2>2
    <2>4. l \in {L(SummaryOrder[s], s) :
                   s \in {t \in 1..Len(SummaryOrder) :
                         SummaryOrder[t] \in func.other \cap opts \cap sparse_flags}}
      BY <1>4, <2>1, <2>3
    <2>5. l \in Deserved(l.file, l.func)
      BY <2>4 DEF Deserved, func
    <2> QED  BY <1>2, <2>5
  <1> QED  BY <1>5, <1>6

LEMMA DeservedIsOwed ==
  ASSUME Inputs, AsAsked, NEW f \in 1..Len(program), NEW g \in 1..Len(program[f]), NEW l \in Deserved(f, g)
  PROVE  l \in SparseLine /\ Owed(program, opts, l) /\ l.kind \in TakenKinds(sparse_flags)
  <1> DEFINE func == program[f][g]
  <1>1. func \in Function
    BY DEF Inputs
  <1>2. func.calls \in Seq(Statement) /\ func.other \subseteq Other
    BY <1>1 DEF Function
  <1>3. f \in Nat /\ g \in Nat
    <2>1. Len(program) \in Nat /\ Len(program[f]) \in Nat
      BY DEF Inputs
    <2> QED  BY <2>1
  <1>4. CASE \E kind \in {"call"} \cup Noise, s \in 1..Len(func.calls) :
               l = Line(kind, f, g, s) /\ TracksCalls /\ l.kind \in Says(func.calls[l.stmt])
    <2>1. PICK kind \in {"call"} \cup Noise, s \in 1..Len(func.calls) :
               l = Line(kind, f, g, s) /\ TracksCalls /\ l.kind \in Says(func.calls[l.stmt])
      BY <1>4
    <2>2. kind \in InFirstPass /\ kind \in SparseKind /\ s \in Nat
      <3>1. \A c \in Seq(Statement) : \A t \in 1..Len(c) : t \in Nat
        OBVIOUS
      <3>2. s \in Nat
        BY <1>2, <3>1, Zenon
      <3> QED  BY <3>2, Kinds DEF InFirstPass
    <2>3. l \in SparseLine /\ l.kind = kind /\ l.file = f /\ l.func = g /\ l.stmt = s
      BY <1>3, <2>1, <2>2 DEF Line, SparseLine
    <2>4. OwedCall(program, opts, l)
      BY <2>1, <2>2, <2>3 DEF OwedCall, AsAsked
    <2>5. l.kind \in TakenKinds(sparse_flags)
      BY <2>1, <2>2, <2>3, TakenKindsAre DEF TracksCalls
    <2> QED  BY <2>3, <2>4, <2>5 DEF Owed
  <1>5. CASE \E s \in 1..Len(SummaryOrder) :
               /\ SummaryOrder[s] \in func.other \cap opts \cap sparse_flags
               /\ l = Line(SummaryOrder[s], f, g, s)
    <2>1. PICK s \in 1..Len(SummaryOrder) :
               /\ SummaryOrder[s] \in func.other \cap opts \cap sparse_flags
               /\ l = Line(SummaryOrder[s], f, g, s)
      BY <1>5
    <2>2. s \in Nat
      BY DEF SummaryOrder
    <2> DEFINE kind == SummaryOrder[s]
    <2>3. kind \in Other /\ kind \in SparseKind /\ kind \in func.other \cap opts \cap sparse_flags
      BY <1>2, <2>1, Kinds
    <2> HIDE DEF kind
    <2>4. l \in SparseLine /\ l.kind = kind /\ l.file = f /\ l.func = g /\ l.stmt = s
      BY <1>3, <2>1, <2>2, <2>3 DEF Line, SparseLine, kind
    <2>5. OwedOther(program, opts, l)
      BY <2>3, <2>4 DEF OwedOther, kind
    <2>6. l.kind \in TakenKinds(sparse_flags)
      BY <2>3, <2>4, TakenKindsAre
    <2> QED  BY <2>4, <2>5, <2>6 DEF Owed
  <1>6. \/ \E kind \in {"call"} \cup Noise, s \in 1..Len(func.calls) :
               l = Line(kind, f, g, s) /\ TracksCalls /\ l.kind \in Says(func.calls[l.stmt])
        \/ \E s \in 1..Len(SummaryOrder) :
               /\ SummaryOrder[s] \in func.other \cap opts \cap sparse_flags
               /\ l = Line(SummaryOrder[s], f, g, s)
    BY DEF Deserved
  <1> QED  BY <1>4, <1>5, <1>6

SparseWhole == joined = {} => SparseAt /\ Completed /\ Gathers

\* What makes the reading complete holds throughout: the analyzer has printed
\* what it has passed, and the reader has added what it has read.
THEOREM SparseCompleteness == SparseSpec => [](SparseSafe /\ SparseWhole)
  <1>1. SparseInit => SparseSafe /\ SparseWhole
    BY AtInit, CompletedInit, GathersInit DEF SparseSafe, SparseWhole, SparseInit
  <1>2. SparseSafe /\ SparseWhole /\ [SparseNext]_sparseVars => (SparseSafe /\ SparseWhole)'
    <2> SUFFICES ASSUME SparseSafe, SparseWhole, SparseNext \/ UNCHANGED sparseVars
                 PROVE  SparseSafe' /\ SparseWhole'
      OBVIOUS
    <2>1. joined' = joined
      BY DEF SparseNext, sparseVars, Analyze, main, NoBlackList, EndPass, parse_file_list,
           parse_function_list, FileBegins, FileEnds, FunctionBegins, FunctionEnds,
           examine_stmt_expression, Summary, AnalyzerDies, fopen, parse_output_file, FindSection,
           ReadFile, ReadFunction, ReadError, SectionRead, SparseStopped, input
    <2>2. ASSUME joined = {} PROVE SparseAt' /\ Completed' /\ Gathers'
      <3>1. SparseAt /\ Completed /\ Gathers /\ Ready
        BY <2>2 DEF SparseWhole, SparseAt
      <3> QED  BY <3>1, AtStep, CompletedStep, GathersStep
    <2> QED  BY <2>1, <2>2 DEF SparseSafe, SparseWhole
  <1> QED  BY <1>1, <1>2, PTL DEF SparseSpec

\* SparseReadsAll, for every program: what parse_output_file adds is what the
\* two passes of static_analyzer have to say, each complaint once, in order.
THEOREM SparseAllRead == SparseSpec => []SparseReadsAll
  <1>1. SparseSafe /\ SparseWhole => SparseReadsAll
    <2> SUFFICES ASSUME SparseSafe, SparseWhole, sparse_pc = "done", ~crashed, joined = {},
                        TracksCalls => "call" \in opts
                 PROVE  /\ \A n \in 1..Len(sparse_errs) : \E f \in 1..Len(program) :
                             \E g \in 1..Len(program[f]) : sparse_errs[n].line \in Deserved(f, g)
                        /\ \A f \in 1..Len(program) : \A g \in 1..Len(program[f]) :
                             \A l \in Deserved(f, g) :
                               \E n \in 1..Len(sparse_errs) : sparse_errs[n].line = l
                        /\ \A m, n \in 1..Len(sparse_errs) :
                             m < n => Precedes(sparse_errs[m].line, sparse_errs[n].line)
      BY DEF SparseReadsAll
    <2>1. AsAsked /\ SparseAt /\ Completed /\ Gathers
      BY DEF AsAsked, SparseWhole
    <2>2. Inputs
      BY <2>1 DEF SparseAt, Ready
    <2> DEFINE W == TakenKinds(sparse_flags)
    <2>3. ErrorsTo(sparse_errs, printed, Len(printed), W)
      BY <2>1 DEF Gathers, ReadsOn
    <2>4. Whole(program, opts, printed, sparse_pc, k, sym, instruction) /\ printed \in Seq(SparseLine)
      BY <2>1, ReaderIs DEF Printed
    <2>5. W \subseteq BodyKind
      BY TakenKindsAre
    <2> HIDE DEF W
    <2>6. ASSUME NEW n \in 1..Len(sparse_errs)
          PROVE  \E f \in 1..Len(program) : \E g \in 1..Len(program[f]) :
                   sparse_errs[n].line \in Deserved(f, g)
      <3>1. PICK i \in 1..Len(printed) : sparse_errs[n].line = printed[i] /\ printed[i].kind \in W
        BY <2>3 DEF ErrorsTo
      <3> DEFINE l == printed[i]
      <3>2. l \in SparseLine
        BY <2>4
      <3>3. Owed(program, opts, l)
        BY <2>4, <2>5, <3>1 DEF Whole
      <3> HIDE DEF l
      <3>4. /\ l.file \in 1..Len(program) /\ l.func \in 1..Len(program[l.file])
            /\ l \in Deserved(l.file, l.func)
        BY <2>1, <2>2, <3>1, <3>2, <3>3, DeservedIs DEF W, l
      <3> QED  BY <3>1, <3>4 DEF l
    <2>7. ASSUME NEW f \in 1..Len(program), NEW g \in 1..Len(program[f]), NEW l \in Deserved(f, g)
          PROVE  \E n \in 1..Len(sparse_errs) : sparse_errs[n].line = l
      <3>1. l \in SparseLine /\ Owed(program, opts, l) /\ l.kind \in W
        BY <2>1, <2>2, DeservedIsOwed DEF W
      <3>2. Passed(sparse_pc, l, k, sym, instruction)
        BY DEF Passed
      <3>3. PICK i \in 1..Len(printed) : printed[i] = l
        BY <2>4, <3>1, <3>2 DEF Whole
      <3> QED  BY <2>3, <3>1, <3>3 DEF ErrorsTo
    <2>8. \A m, n \in 1..Len(sparse_errs) :
            m < n => Precedes(sparse_errs[m].line, sparse_errs[n].line)
      BY <2>3 DEF ErrorsTo
    <2> QED  BY <2>6, <2>7, <2>8
  <1> QED  BY <1>1, SparseCompleteness, PTL
=============================================================================
