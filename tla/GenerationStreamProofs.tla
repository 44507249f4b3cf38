----------------------- MODULE GenerationStreamProofs -----------------------
(***************************************************************************)
(* Proofs about GenerationStream: for any number of chunks, and pieces of  *)
(* any size, the reply is a prefix of what the model said, and the stream  *)
(* implements Reply.                                                       *)
(***************************************************************************)
EXTENDS GenerationStream, WellFoundedInduction, SequenceTheorems, TLAPS

States == [line : Seq(Symbols), shown : Seq(Nat), result : [amisJson : Nat, modelUsed : BOOLEAN]]

\* The browser has more than before, or as much.
Grown(s, t) ==
  Len(s.shown) <= Len(t.shown) /\ (s.result.amisJson # 0 => t.result.amisJson # 0)

-----------------------------------------------------------------------------
(* Events and their symbols.                                               *)

LEMMA EventIs ==
  ASSUME TypeOK, NEW e \in Events
  PROVE  /\ e.kind \in {"meta", "content", "done", "error"} /\ e.n \in 0..full
         /\ e.kind = "content" => e.n \in 1..full
         /\ e.kind = "done" => e.n = full /\ full > 0 /\ agent \in {"done", "cut"}
         /\ e.kind = "meta" => e.n = 0
         /\ FirstOf(e) \in {1, 3} /\ (FirstOf(e) = 3 <=> e.kind = "content")
BY DEF TypeOK, Events, Meta, Error, Content, Done, FirstOf

LEMMA SymbolIs ==
  ASSUME TypeOK, NEW b \in Symbols
  PROVE  /\ b.of \in Events /\ b.at \in 1..6 /\ b.at >= FirstOf(b.of)
         /\ b = [of |-> b.of, at |-> b.at]
BY DEF Symbols

LEMMA ReadSymbolIs ==
  ASSUME TypeOK, NEW b \in Symbols \cup {Before}
  PROVE  /\ b.at \in 1..6 /\ b.of.n \in 0..full /\ b = [of |-> b.of, at |-> b.at]
         /\ b.of.kind \in {"start", "meta", "content", "done", "error"}
         /\ b.of.kind = "content" => b.of.n \in 1..full
         /\ b.of.kind = "done" => b.of.n = full /\ full > 0 /\ agent \in {"done", "cut"}
         /\ b.of.kind \in {"start", "meta"} => b.of.n = 0
<1>1. CASE b = Before
  BY <1>1 DEF Before, Start, TypeOK
<1>2. CASE b \in Symbols
  BY <1>2, SymbolIs, EventIs
<1>3. QED BY <1>1, <1>2

-----------------------------------------------------------------------------
(* One line, and one symbol.                                               *)

LEMMA ShortLine ==
  ASSUME NEW s, Len(s.line) # 2
  PROVE  Process(s) = s
BY DEF Process, IsData

LEMMA DataLine ==
  ASSUME TypeOK, NEW s \in States, NEW e \in Events,
         s.line = <<[of |-> e, at |-> 3], [of |-> e, at |-> 4]>>
  PROVE  /\ Process(s) \in States /\ Process(s).line = s.line
         /\ Process(s).shown = IF e.kind = "content" THEN Append(s.shown, e.n) ELSE s.shown
         /\ Process(s).result.amisJson = IF e.kind = "done" THEN e.n ELSE s.result.amisJson
<1>1. IsData(s.line) /\ s.line[1].of = e
  BY DEF IsData
<1>2. e.kind \in {"meta", "content", "done", "error"} /\ e.n \in Nat
  BY EventIs DEF TypeOK
<1>3. CASE e.kind = "content"
  <2>1. Process(s) = [s EXCEPT !.shown = Append(@, e.n)]
    BY <1>1, <1>3 DEF Process
  <2>2. Append(s.shown, e.n) \in Seq(Nat)
    BY <1>2 DEF States
  <2>3. QED BY <1>3, <2>1, <2>2 DEF States
<1>4. CASE e.kind = "done"
  BY <1>1, <1>2, <1>4 DEF Process, States
<1>5. CASE e.kind = "meta"
  BY <1>1, <1>2, <1>5 DEF Process, States
<1>6. CASE e.kind = "error"
  BY <1>1, <1>2, <1>6 DEF Process, States
<1>7. QED BY <1>2, <1>3, <1>4, <1>5, <1>6

\* Content that continues a prefix makes a prefix.
LEMMA LongerPrefix ==
  ASSUME full \in Nat, NEW s \in Seq(Nat), Prefix(s), Len(s) < full
  PROVE  /\ Append(s, Len(s) + 1) \in Seq(Nat) /\ Prefix(Append(s, Len(s) + 1))
         /\ Len(Append(s, Len(s) + 1)) = Len(s) + 1
<1> DEFINE t == Append(s, Len(s) + 1)
<1>1. /\ t \in Seq(Nat) /\ Len(t) = Len(s) + 1 /\ Len(s) \in Nat
      /\ \A i \in 1..Len(s) : t[i] = s[i]
      /\ t[Len(s) + 1] = Len(s) + 1
  BY AppendProperties
<1> HIDE DEF t
<1>2. ASSUME NEW i \in 1..Len(t) PROVE t[i] = i
  <2>1. CASE i = Len(s) + 1
    BY <1>1, <2>1
  <2>2. CASE i \in 1..Len(s)
    BY <1>1, <2>2 DEF Prefix
  <2>3. QED BY <1>1, <2>1, <2>2
<1>3. t = [i \in 1..Len(t) |-> i]
  BY <1>1, <1>2
<1>4. QED BY <1>1, <1>3 DEF Prefix, t

\* After a newline the next line is empty.
LEMMA LineOver ==
  ASSUME NEW s \in States, NEW c, c.at \in {2, 5, 6}
  PROVE  /\ [s EXCEPT !.line = <<>>] \in States
         /\ [s EXCEPT !.line = <<>>].line = LineOf(c)
         /\ [s EXCEPT !.line = <<>>].shown = s.shown
         /\ [s EXCEPT !.line = <<>>].result = s.result
<1>1. LineOf(c) = <<>>
  BY DEF LineOf
<1>2. <<>> \in Seq(Symbols)
  OBVIOUS
<1>3. QED BY <1>1, <1>2 DEF States

\* The symbol that follows leaves the browser where that symbol says.
LEMMA TakeNext ==
  ASSUME TypeOK, NEW s \in States, NEW b \in Symbols \cup {Before}, NEW c \in Symbols,
         HasRead(s, b), Follows(b, c)
  PROVE  Take(s, c) \in States /\ HasRead(Take(s, c), c) /\ Grown(s, Take(s, c))
<1>0. /\ c.of \in Events /\ c.at \in 1..6 /\ c.at >= FirstOf(c.of)
      /\ c = [of |-> c.of, at |-> c.at]
      /\ b.at \in 1..6 /\ b = [of |-> b.of, at |-> b.at] /\ full \in Nat
  BY SymbolIs, ReadSymbolIs DEF TypeOK
<1>1. CASE c.at \in {1, 3, 4}
  <2>1. Take(s, c) = [s EXCEPT !.line = Append(@, c)]
    BY <1>1 DEF Take, IsNewline
  <2>2. Append(s.line, c) = LineOf(c)
    <3>1. CASE c.at = 4
      <4>1. b = [of |-> c.of, at |-> 3]
        BY <1>0, <3>1, EventIs DEF Follows
      <4>2. s.line = <<b>>
        BY <4>1 DEF HasRead, LineOf
      <4>3. Append(<<b>>, c) = <<b, c>>
        <5>1. <<b>> \in Seq(Symbols)
          BY <4>2 DEF States
        <5>2. b \in Symbols
          BY <5>1
        <5> DEFINE t == Append(<<b>>, c)
        <5>3. t \in Seq(Symbols) /\ Len(t) = 2 /\ t[1] = b /\ t[2] = c
          BY <5>1, AppendProperties
        <5> HIDE DEF t
        <5>4. t = <<b, c>>
          BY <5>2, <5>3
        <5>5. QED BY <5>4 DEF t
      <4>4. QED BY <3>1, <4>1, <4>2, <4>3 DEF LineOf
    <3>2. CASE c.at \in {1, 3}
      <4>1. b.at \in {2, 6}
        BY <1>0, <3>2 DEF Follows
      <4>2. s.line = <<>>
        BY <4>1 DEF HasRead, LineOf
      <4>3. QED BY <3>2, <4>2 DEF LineOf
    <3>3. QED BY <1>1, <3>1, <3>2
  <2>3. /\ Take(s, c) \in States /\ Take(s, c).line = LineOf(c)
        /\ Take(s, c).shown = s.shown /\ Take(s, c).result = s.result
    BY <2>1, <2>2 DEF States
  <2>4. c.of.kind # "error" => Upto(c) = Upto(b) /\ b.of.kind # "error"
    <3>1. CASE b.at < 6
      BY <1>0, <1>1, <3>1 DEF Follows, Upto
    <3>2. CASE b.at = 6
      BY <1>0, <1>1, <3>2, ReadSymbolIs DEF Follows, Upto, Meta, Content, Done, Error
    <3>3. QED BY <1>0, <3>1, <3>2
  <2>5. s.result.amisJson = 0
    <3>1. ~(b.of.kind = "done" /\ b.at >= 5)
      BY <1>0, <1>1 DEF Follows
    <3>2. QED BY <3>1 DEF HasRead
  <2>6. HasRead(Take(s, c), c)
    BY <1>1, <2>3, <2>4, <2>5 DEF HasRead
  <2>7. QED BY <2>3, <2>5, <2>6 DEF Grown, States
<1>2. CASE c.at \in {2, 6}
  <2>1. b.at \in {1, 5} /\ b.of = c.of
    BY <1>0, <1>2 DEF Follows, FirstOf
  <2>2. Len(s.line) # 2
    BY <2>1 DEF HasRead, LineOf
  <2>3. Take(s, c) = [s EXCEPT !.line = <<>>]
    BY <1>2, <2>2, ShortLine DEF Take, IsNewline
  <2>4. /\ Take(s, c) \in States /\ Take(s, c).line = LineOf(c)
        /\ Take(s, c).shown = s.shown /\ Take(s, c).result = s.result
    BY <1>2, <2>3, LineOver
  <2>5. Upto(c) = Upto(b) /\ (c.at >= 5 <=> b.at >= 5)
    BY <1>0, <1>2, <2>1, EventIs DEF Upto, Follows
  <2>6. HasRead(Take(s, c), c)
    BY <2>1, <2>4, <2>5 DEF HasRead
  <2>7. QED BY <2>4, <2>6 DEF Grown, States
<1>3. CASE c.at = 5
  <2>1. b.at = 4 /\ b.of = c.of /\ b = [of |-> c.of, at |-> 4]
    BY <1>0, <1>3 DEF Follows, FirstOf
  <2>2. s.line = <<[of |-> c.of, at |-> 3], [of |-> c.of, at |-> 4]>>
    BY <2>1 DEF HasRead, LineOf
  <2>3. Take(s, c) = [Process(s) EXCEPT !.line = <<>>]
    BY <1>3 DEF Take, IsNewline
  <2>4. /\ Process(s) \in States
        /\ Process(s).shown = IF c.of.kind = "content" THEN Append(s.shown, c.of.n) ELSE s.shown
        /\ Process(s).result.amisJson =
             IF c.of.kind = "done" THEN c.of.n ELSE s.result.amisJson
    BY <1>0, <2>2, DataLine
  <2>5. /\ Take(s, c) \in States /\ Take(s, c).line = LineOf(c)
        /\ Take(s, c).shown = Process(s).shown /\ Take(s, c).result = Process(s).result
    BY <1>3, <2>3, <2>4, LineOver
  <2>6. s.result.amisJson = 0 /\ s.shown \in Seq(Nat)
    BY <2>1 DEF HasRead, States
  <2>7. Take(s, c).result.amisJson = IF c.of.kind = "done" THEN c.of.n ELSE 0
    BY <2>4, <2>5, <2>6
  <2>8. Prefix(Take(s, c).shown) /\ Len(s.shown) <= Len(Take(s, c).shown)
        /\ (c.of.kind # "error" => Len(Take(s, c).shown) = Upto(c))
    <3>1. CASE c.of.kind = "content"
      <4>1. Len(s.shown) = c.of.n - 1 /\ c.of.n \in 1..full /\ Prefix(s.shown)
        BY <1>0, <2>1, <3>1, EventIs DEF HasRead, Upto
      <4>2. Take(s, c).shown = Append(s.shown, Len(s.shown) + 1) /\ Len(s.shown) < full
        BY <1>0, <2>4, <2>5, <3>1, <4>1
      <4>3. QED BY <1>0, <1>3, <2>6, <3>1, <4>1, <4>2, LongerPrefix DEF Upto
    <3>2. CASE c.of.kind # "content"
      BY <2>1, <2>4, <2>5, <2>6, <3>2 DEF HasRead, Upto
    <3>3. QED BY <3>1, <3>2
  <2>9. HasRead(Take(s, c), c)
    BY <1>3, <2>5, <2>7, <2>8 DEF HasRead
  <2>10. QED BY <2>5, <2>6, <2>8, <2>9 DEF Grown
<1>4. QED BY <1>0, <1>1, <1>2, <1>3

-----------------------------------------------------------------------------
(* A piece: n symbols, one after the other.                                *)

\* The recursion in Split, as the relation between its values.
Taken(taken, n) ==
  /\ taken = [k \in 0..n |-> taken[k]] /\ taken[0] = Buffered
  /\ \A k \in 1..n : taken[k] = Take(taken[k - 1], wire[k])

LEMMA TakenExists ==
  ASSUME NEW n \in Nat
  PROVE  \E taken : Taken(taken, n)
<1> DEFINE T == {m \in Nat : ~\E taken : Taken(taken, m)}
<1>1. SUFFICES ASSUME T # {} PROVE FALSE
  OBVIOUS
<1>2. PICK m \in T : \A k \in T : ~(k < m)
  <2>1. PICK m \in T : \A k \in T : ~(<<k, m>> \in OpToRel(<, Nat))
    BY <1>1, WFMin, NatLessThanWellFounded, Zenon
  <2>2. QED BY <2>1 DEF OpToRel
<1>3. m # 0
  <2>1. Taken([k \in 0..0 |-> Buffered], 0)
    BY DEF Taken
  <2>2. QED BY <2>1
<1>4. PICK taken : Taken(taken, m - 1)
  BY <1>2, <1>3
<1> DEFINE next == [k \in 0..m |-> IF k < m THEN taken[k] ELSE Take(taken[m - 1], wire[m])]
<1>5. Taken(next, m)
  <2>1. m \in Nat /\ m - 1 \in Nat
    BY <1>3
  <2>2. next[0] = Buffered
    BY <1>3, <1>4, <2>1 DEF Taken
  <2>3. ASSUME NEW k \in 1..m PROVE next[k] = Take(next[k - 1], wire[k])
    <3>1. next[k - 1] = taken[k - 1]
      BY <2>1
    <3>2. CASE k = m
      BY <2>1, <3>1, <3>2
    <3>3. CASE k # m
      <4>1. k \in 1..m - 1 /\ next[k] = taken[k]
        BY <2>1, <3>3
      <4>2. QED BY <1>4, <3>1, <4>1 DEF Taken
    <3>4. QED BY <3>2, <3>3
  <2>4. next = [k \in 0..m |-> next[k]]
    OBVIOUS
  <2> HIDE DEF next
  <2>5. QED BY <2>2, <2>3, <2>4 DEF Taken
<1>6. QED BY <1>5

LEMMA SplitIs ==
  ASSUME NEW n \in Nat
  PROVE  \E taken : Taken(taken, n) /\ Split(n) = taken[n]
<1> DEFINE Step(t) == [k \in 0..n |-> IF k = 0 THEN Buffered ELSE Take(t[k - 1], wire[k])]
           all == CHOOSE t : t = Step(t)
<1>1. Split(n) = all[n]
  BY DEF Split
<1>2. ASSUME NEW t PROVE t = Step(t) <=> Taken(t, n)
  <2>1. ASSUME t = Step(t) PROVE Taken(t, n)
    <3>1. t = [k \in 0..n |-> t[k]] /\ t[0] = Buffered
      BY <2>1
    <3>2. ASSUME NEW k \in 1..n PROVE t[k] = Take(t[k - 1], wire[k])
      <4>1. k \in 0..n /\ k # 0
        OBVIOUS
      <4>2. t[k] = Step(t)[k]
        BY <2>1
      <4>3. QED BY <4>1, <4>2
    <3>3. QED BY <3>1, <3>2 DEF Taken
  <2>2. ASSUME Taken(t, n) PROVE t = Step(t)
    <3>1. ASSUME NEW k \in 0..n PROVE t[k] = Step(t)[k]
      <4>1. CASE k = 0
        BY <2>2, <4>1 DEF Taken
      <4>2. CASE k # 0
        <5>1. k \in 1..n
          BY <4>2
        <5>2. QED BY <2>2, <4>2, <5>1 DEF Taken
      <4>3. QED BY <4>1, <4>2
    <3>2. t = [k \in 0..n |-> t[k]]
      BY <2>2 DEF Taken
    <3>3. QED BY <3>1, <3>2
  <2>3. QED BY <2>1, <2>2
<1>3. \E t : t = Step(t)
  BY <1>2, TakenExists
<1> HIDE DEF Step
<1>4. all = Step(all)
  BY <1>3
<1> HIDE DEF all
<1>5. Taken(all, n)
  BY <1>2, <1>4
<1>6. QED BY <1>1, <1>5

\* However many symbols are read at once: what the browser has is what the last
\* of them says.
LEMMA SplitHasRead ==
  ASSUME TypeOK, NEW b \in Symbols \cup {Before}, HasRead(Buffered, b), InOrder(b),
         NEW n \in 1..Len(wire)
  PROVE  Split(n) \in States /\ HasRead(Split(n), wire[n]) /\ Grown(Buffered, Split(n))
<1>0. n \in Nat /\ Len(wire) \in Nat /\ \A k \in 1..Len(wire) : wire[k] \in Symbols
  BY DEF TypeOK
<1>1. PICK taken : Taken(taken, n) /\ Split(n) = taken[n]
  BY <1>0, SplitIs
<1> DEFINE last(k) == IF k = 0 THEN b ELSE wire[k]
           Good(k) == /\ taken[k] \in States /\ HasRead(taken[k], last(k))
                      /\ Grown(Buffered, taken[k])
           T == {k \in Nat : k <= n /\ ~Good(k)}
<1>2. Good(0)
  <2>1. taken[0] = Buffered /\ Buffered \in States
    BY <1>1 DEF Taken, Buffered, States, TypeOK
  <2>2. Grown(Buffered, Buffered)
    BY DEF Grown, Buffered, TypeOK
  <2>3. QED BY <2>1, <2>2
<1>3. ASSUME NEW k \in 1..n, Good(k - 1) PROVE Good(k)
  <2>1. k \in 1..Len(wire) /\ last(k) = wire[k] /\ wire[k] \in Symbols
    BY <1>0
  <2>2. last(k - 1) \in Symbols \cup {Before} /\ Follows(last(k - 1), wire[k])
    <3>1. CASE k = 1
      <4>1. wire # <<>>
        BY <2>1, <3>1
      <4>2. QED BY <3>1, <4>1 DEF InOrder
    <3>2. CASE k # 1
      <4>1. k - 1 \in 1..Len(wire) - 1 /\ last(k - 1) = wire[k - 1] /\ (k - 1) + 1 = k
        BY <1>0, <2>1, <3>2
      <4>2. Follows(wire[k - 1], wire[(k - 1) + 1]) /\ wire[k - 1] \in Symbols
        BY <1>0, <4>1 DEF InOrder
      <4>3. QED BY <4>1, <4>2
    <3>3. QED BY <3>1, <3>2
  <2>3. taken[k] = Take(taken[k - 1], wire[k])
    BY <1>1 DEF Taken
  <2> HIDE DEF last
  <2>4. /\ taken[k] \in States /\ HasRead(taken[k], wire[k])
        /\ Grown(taken[k - 1], taken[k])
    BY <1>3, <2>1, <2>2, <2>3, TakeNext
  <2>5. Grown(Buffered, taken[k])
    BY <1>3, <2>4 DEF Grown, States, Buffered, TypeOK
  <2>6. QED BY <2>1, <2>4, <2>5
<1> HIDE DEF Good
<1>4. T = {}
  <2>1. SUFFICES ASSUME T # {} PROVE FALSE
    OBVIOUS
  <2>2. PICK k \in T : \A j \in T : ~(j < k)
    <3>1. PICK k \in T : \A j \in T : ~(<<j, k>> \in OpToRel(<, Nat))
      BY <2>1, WFMin, NatLessThanWellFounded, Zenon
    <3>2. QED BY <3>1 DEF OpToRel
  <2>3. k # 0
    BY <1>2
  <2>4. k \in 1..n /\ k - 1 \in Nat /\ k - 1 <= n /\ k - 1 < k
    BY <1>0, <2>2, <2>3
  <2>5. Good(k - 1)
    BY <2>2, <2>4
  <2>6. QED BY <1>3, <2>4, <2>5
<1>5. Good(n)
  <2>1. n \notin T
    BY <1>4
  <2>2. QED BY <1>0, <2>1
<1>6. last(n) = wire[n]
  OBVIOUS
<1>7. QED BY <1>1, <1>5, <1>6 DEF Good

-----------------------------------------------------------------------------
(* The agent.                                                              *)

LEMMA FrameIs ==
  ASSUME NEW e
  PROVE  /\ FirstOf(e) \in {1, 3}
         /\ Len(Frame(e)) = 7 - FirstOf(e) /\ Len(Frame(e)) \in 4..6
         /\ Frame(e) \in Seq([of : {e}, at : 1..6])
         /\ \A i \in 1..Len(Frame(e)) :
              Frame(e)[i] = [of |-> e, at |-> FirstOf(e) + i - 1]
<1> DEFINE f == FirstOf(e)
           frame == [i \in 1..7 - f |-> [of |-> e, at |-> f + i - 1]]
<1>1. Frame(e) = frame
  BY DEF Frame
<1>2. f \in {1, 3}
  BY DEF FirstOf
<1> HIDE DEF f
<1>3. frame \in [1..7 - f -> [of : {e}, at : 1..6]] /\ 7 - f \in Nat
  BY <1>2
<1>4. Len(frame) = 7 - f /\ frame \in Seq([of : {e}, at : 1..6])
  BY <1>2, <1>3
<1>5. \A i \in 1..7 - f : frame[i] = [of |-> e, at |-> f + i - 1]
  OBVIOUS
<1> HIDE DEF frame
<1>6. 7 - f \in 4..6
  BY <1>2
<1>7. QED BY <1>1, <1>2, <1>4, <1>5, <1>6 DEF f

LEMMA FrameInOrder ==
  ASSUME NEW e
  PROVE  /\ Frame(e)[1] = [of |-> e, at |-> FirstOf(e)]
         /\ Frame(e)[Len(Frame(e))] = [of |-> e, at |-> 6]
         /\ \A i \in 1..Len(Frame(e)) - 1 : Follows(Frame(e)[i], Frame(e)[i + 1])
<1> DEFINE f == FirstOf(e)
           frame == Frame(e)
<1>1. /\ f \in {1, 3} /\ Len(frame) = 7 - f
      /\ \A i \in 1..Len(frame) : frame[i] = [of |-> e, at |-> f + i - 1]
  BY FrameIs
<1> HIDE DEF f, frame
<1>2. frame[1] = [of |-> e, at |-> f] /\ frame[Len(frame)] = [of |-> e, at |-> 6]
  <2>1. 1 \in 1..Len(frame) /\ Len(frame) \in 1..Len(frame)
    BY <1>1
  <2>2. f + 1 - 1 = f /\ f + Len(frame) - 1 = 6
    BY <1>1
  <2>3. QED BY <1>1, <2>1, <2>2
<1>3. ASSUME NEW i \in 1..Len(frame) - 1 PROVE Follows(frame[i], frame[i + 1])
  <2>1. /\ i \in 1..Len(frame) /\ i + 1 \in 1..Len(frame) /\ f + i - 1 < 6
        /\ f + (i + 1) - 1 = (f + i - 1) + 1
    BY <1>1
  <2>2. /\ frame[i] = [of |-> e, at |-> f + i - 1]
        /\ frame[i + 1] = [of |-> e, at |-> (f + i - 1) + 1]
    BY <1>1, <2>1
  <2>3. QED BY <2>1, <2>2 DEF Follows
<1>4. QED BY <1>2, <1>3 DEF f, frame

\* What may have been sent stays so.
LEMMA EventsStay ==
  ASSUME TypeOK, full' = full \/ full' = full + 1,
         agent \in {"done", "cut"} => agent' \in {"done", "cut"} /\ full' = full
  PROVE  Events \subseteq Events' /\ Symbols \subseteq Symbols' /\ full <= full'
<1>1. Events \subseteq Events' /\ full <= full'
  BY DEF Events, TypeOK
<1>2. QED BY <1>1 DEF Symbols

\* Sending an event that follows what was sent last keeps the order.
LEMMA YieldInOrder ==
  ASSUME wire \in Seq(Symbols), NEW b, InOrder(b), NEW e, Yield(e),
         Follows(LastSent(b), [of |-> e, at |-> FirstOf(e)]), agent' # "config",
         agent' = "stream" => e = IF full' = 0 THEN Meta ELSE Content(full')
  PROVE  InOrder(b)'
<1> DEFINE frame == Frame(e)
           n == Len(wire)
           m == Len(frame)
<1>1. /\ n \in Nat /\ m \in 4..6 /\ wire \in Seq(Symbols)
      /\ frame \in Seq([of : {e}, at : 1..6])
  BY FrameIs
<1>2. /\ frame[1] = [of |-> e, at |-> FirstOf(e)] /\ frame[m] = [of |-> e, at |-> 6]
      /\ \A i \in 1..m - 1 : Follows(frame[i], frame[i + 1])
  BY FrameInOrder
<1>3. wire' = wire \o frame
  BY DEF Yield
<1> HIDE DEF frame
<1>4. /\ Len(wire') = n + m /\ wire' # <<>>
      /\ \A k \in 1..n : wire'[k] = wire[k]
      /\ \A k \in n + 1..n + m : wire'[k] = frame[k - n]
  <2> DEFINE S == Symbols \cup [of : {e}, at : 1..6]
  <2>1. wire \in Seq(S) /\ frame \in Seq(S)
    <3>1. Symbols \subseteq S /\ [of : {e}, at : 1..6] \subseteq S
      OBVIOUS
    <3> HIDE DEF S
    <3>2. Seq(Symbols) \subseteq Seq(S) /\ Seq([of : {e}, at : 1..6]) \subseteq Seq(S)
      BY <3>1, SeqMonotonic
    <3>3. QED BY <1>1, <3>2
  <2> HIDE DEF S
  <2>2. /\ wire' \in Seq(S) /\ Len(wire') = n + m
        /\ \A k \in 1..Len(wire') :
             wire'[k] = IF k <= n THEN wire[k] ELSE frame[k - n]
    BY <1>3, <2>1, ConcatProperties
  <2> HIDE DEF n, m
  <2>3. n \in Nat /\ m \in 4..6
    BY <1>1
  <2>4. ASSUME NEW k \in 1..n PROVE wire'[k] = wire[k]
    BY <2>2, <2>3
  <2>5. ASSUME NEW k \in n + 1..n + m PROVE wire'[k] = frame[k - n]
    BY <2>2, <2>3
  <2>6. wire' # <<>>
    BY <2>2, <2>3
  <2>7. QED BY <2>2, <2>4, <2>5, <2>6
<1> HIDE DEF n, m
<1>5. wire'[n + 1] = frame[1] /\ wire'[n + m] = frame[m]
  <2>1. n + 1 \in n + 1..n + m /\ n + m \in n + 1..n + m /\ (n + 1) - n = 1 /\ (n + m) - n = m
    BY <1>1
  <2>2. QED BY <1>4, <2>1
<1>6. /\ wire = <<>> => n = 0
      /\ wire # <<>> => n \in 1..n /\ LastSent(b) = wire[n]
      /\ wire = <<>> => LastSent(b) = b
  BY <1>1 DEF n, LastSent
<1>7. Follows(b, wire'[1])
  <2>1. CASE wire = <<>>
    BY <1>2, <1>5, <1>6, <2>1
  <2>2. CASE wire # <<>>
    BY <1>1, <1>4, <1>6, <2>2 DEF InOrder
  <2>3. QED BY <2>1, <2>2
<1>8. ASSUME NEW k \in 1..Len(wire') - 1 PROVE Follows(wire'[k], wire'[k + 1])
  <2>1. CASE k < n
    <3>1. k \in 1..n - 1 /\ k \in 1..n /\ k + 1 \in 1..n
      BY <1>1, <1>4, <2>1
    <3>2. Follows(wire[k], wire[k + 1])
      BY <3>1 DEF InOrder, n
    <3>3. QED BY <1>4, <3>1, <3>2
  <2>2. CASE k = n
    <3>1. wire # <<>> /\ k \in 1..n
      BY <1>6, <2>2
    <3>2. QED BY <1>2, <1>4, <1>5, <1>6, <2>2, <3>1
  <2>3. CASE k > n
    <3>1. /\ k \in n + 1..n + m /\ k + 1 \in n + 1..n + m
          /\ k - n \in 1..m - 1 /\ (k + 1) - n = (k - n) + 1
      BY <1>1, <1>4, <2>3
    <3>2. wire'[k] = frame[k - n] /\ wire'[k + 1] = frame[(k - n) + 1]
      BY <1>4, <3>1
    <3>3. QED BY <1>2, <3>1, <3>2
  <2>4. QED BY <1>1, <2>1, <2>2, <2>3
<1>9. LastSent(b)' = [of |-> e, at |-> 6]
  BY <1>2, <1>4, <1>5 DEF LastSent
<1>10. QED BY <1>4, <1>7, <1>8, <1>9 DEF InOrder

\* What the browser has is as true after the agent said more.
LEMMA HasReadStays ==
  ASSUME TypeOK, NEW b, HasRead(Buffered, b), full <= full', full' \in Nat,
         UNCHANGED <<sseBuffer, shown, result>>
  PROVE  HasRead(Buffered, b)'
BY DEF TypeOK, HasRead, Buffered, Prefix

LEMMA InitStreamInv == Init => StreamInv
<1> SUFFICES ASSUME Init PROVE StreamInv
  OBVIOUS
<1>1. TypeOK
  BY DEF Init, TypeOK, NoResult
<1>2. ShownIsPrefix /\ OfferIsWhole
  BY DEF Init, ShownIsPrefix, OfferIsWhole, NoResult
<1>3. HasRead(Buffered, Before) /\ InOrder(Before)
  BY DEF Init, HasRead, Buffered, Prefix, Upto, LineOf, Before, Start, NoResult, InOrder,
     LastSent
<1>4. QED BY <1>1, <1>2, <1>3 DEF StreamInv, Init

\* A step of the agent that sends at most one event keeps the invariant.
LEMMA AgentSends ==
  ASSUME StreamInv, UNCHANGED <<sseBuffer, shown, result, reader>>,
         full' = full \/ full' = full + 1, chunks' \in Nat,
         agent' \in {"stream", "done", "error"}, agent \in {"config", "stream"},
         agent' = "done" => full' > 0,
         NEW e \in Events', Yield(e),
         agent' = "stream" => e = IF full' = 0 THEN Meta ELSE Content(full'),
         \A b \in Symbols \cup {Before} :
           InOrder(b) => Follows(LastSent(b), [of |-> e, at |-> FirstOf(e)])
  PROVE  StreamInv'
<1>0. TypeOK /\ OfferIsWhole /\ ShownIsPrefix /\ reader # "closed"
  BY DEF StreamInv
<1>1. Symbols \subseteq Symbols' /\ full <= full' /\ full' \in Nat
  BY <1>0, EventsStay DEF TypeOK
<1>3. Frame(e) \in Seq(Symbols')
  <2> DEFINE frame == Frame(e)
             f == FirstOf(e)
  <2>1. /\ f \in {1, 3} /\ Len(frame) = 7 - f /\ frame \in Seq([of : {e}, at : 1..6])
        /\ \A i \in 1..Len(frame) : frame[i] = [of |-> e, at |-> f + i - 1]
    BY FrameIs
  <2> HIDE DEF frame
  <2>2. ASSUME NEW i \in 1..Len(frame) PROVE frame[i] \in Symbols'
    <3> HIDE DEF f
    <3>1. /\ frame[i] = [of |-> e, at |-> f + i - 1]
          /\ f + i - 1 \in 1..6 /\ f + i - 1 >= f
      BY <2>1
    <3>2. frame[i] \in [of : Events', at : 1..6]
      BY <3>1
    <3>3. QED BY <3>1, <3>2 DEF Symbols, f
  <2>3. frame \in Seq(Symbols')
    BY <2>1, <2>2
  <2>4. QED BY <2>3 DEF frame
<1>4. TypeOK'
  <2>1. wire \in Seq(Symbols') /\ sseBuffer \in Seq(Symbols')
    BY <1>0, <1>1 DEF TypeOK
  <2>2. wire' \in Seq(Symbols')
    BY <1>3, <2>1 DEF Yield
  <2>3. QED BY <1>0, <1>1, <2>1, <2>2 DEF TypeOK
<1>5. ShownIsPrefix' /\ OfferIsWhole'
  <2>1. result.amisJson = 0
    BY <1>0 DEF OfferIsWhole
  <2>2. OfferIsWhole'
    BY <2>1 DEF OfferIsWhole
  <2>3. Len(shown) <= full'
    BY <1>0, <1>1 DEF ShownIsPrefix, TypeOK
  <2>4. QED BY <1>0, <2>2, <2>3 DEF ShownIsPrefix
<1>6. ASSUME reader' = "open"
      PROVE  (\E b \in Symbols \cup {Before} : HasRead(Buffered, b) /\ InOrder(b))'
  <2>1. PICK b \in Symbols \cup {Before} : HasRead(Buffered, b) /\ InOrder(b)
    BY <1>6 DEF StreamInv
  <2>2. HasRead(Buffered, b)'
    BY <1>0, <1>1, <2>1, HasReadStays
  <2>3. InOrder(b)'
    BY <1>0, <2>1, YieldInOrder DEF TypeOK
  <2>4. b \in Symbols' \cup {Before}
    BY <1>1, <2>1
  <2>5. QED BY <2>2, <2>3, <2>4 DEF Before, Start
<1>7. QED BY <1>0, <1>4, <1>5, <1>6 DEF StreamInv

-----------------------------------------------------------------------------
(* Every step keeps the invariant.                                         *)

\* What is cut off at the end does not disturb the order of the rest.
LEMMA CutInOrder ==
  ASSUME wire \in Seq(Symbols), NEW b, InOrder(b), NEW n \in 0..Len(wire),
         wire' = SubSeq(wire, 1, n), agent' \notin {"config", "stream"}
  PROVE  wire' \in Seq(Symbols) /\ InOrder(b)'
<1>1. /\ wire' \in Seq(Symbols) /\ Len(wire') = n /\ n \in Nat /\ n <= Len(wire)
      /\ \A k \in 1..n : wire'[k] = wire[k] /\ wire # <<>>
  BY SubSeqProperties
<1>2. wire' # <<>> => 1 \in 1..n
  BY <1>1
<1>3. QED BY <1>1, <1>2 DEF InOrder

\* Nor does what is read at the front.
LEMMA RestInOrder ==
  ASSUME wire \in Seq(Symbols), NEW b, InOrder(b), NEW n \in 1..Len(wire),
         NEW c, c = wire[n],
         wire' = SubSeq(wire, n + 1, Len(wire)), UNCHANGED <<agent, full>>
  PROVE  wire' \in Seq(Symbols) /\ InOrder(c)'
<1>1. /\ wire' \in Seq(Symbols) /\ Len(wire') = Len(wire) - n /\ n \in Nat /\ Len(wire) \in Nat
      /\ \A k \in 1..Len(wire') : wire'[k] = wire[n + k]
  BY SubSeqProperties
<1>2. \A k \in n..Len(wire) - 1 : Follows(wire[k], wire[k + 1])
  BY DEF InOrder
<1>3. LastSent(c)' = LastSent(b)
  <2>1. CASE n = Len(wire)
    BY <1>1, <2>1 DEF LastSent
  <2>2. CASE n < Len(wire)
    <3>1. /\ wire' # <<>> /\ wire # <<>> /\ Len(wire') \in 1..Len(wire')
          /\ n + Len(wire') = Len(wire)
      <4>1. Len(wire') \in 1..Len(wire') /\ n + Len(wire') = Len(wire)
        BY <1>1, <2>2
      <4>2. wire' # <<>>
        <5>1. \A q : q = <<>> => ~(Len(q) \in 1..Len(q))
          OBVIOUS
        <5>2. QED BY <4>1, <5>1, Zenon
      <4>3. wire # <<>>
        BY <1>1, <2>2
      <4>4. QED BY <4>1, <4>2, <4>3
    <3>2. wire'[Len(wire')] = wire[Len(wire)]
      BY <1>1, <3>1
    <3>3. QED BY <3>1, <3>2 DEF LastSent
  <2>3. QED BY <1>1, <2>1, <2>2
<1>4. wire' # <<>> => Follows(c, wire'[1])
  BY <1>1, <1>2
<1>5. ASSUME NEW k \in 1..Len(wire') - 1 PROVE Follows(wire'[k], wire'[k + 1])
  <2>1. wire'[k] = wire[n + k] /\ wire'[k + 1] = wire[(n + k) + 1] /\ n + k \in n..Len(wire) - 1
    BY <1>1
  <2>2. QED BY <1>2, <2>1
<1>6. QED BY <1>1, <1>3, <1>4, <1>5 DEF InOrder

\* A read of the browser, of n symbols.
LEMMA ReadKeeps ==
  ASSUME StreamInv, NEW n \in 1..MaxRead, Read(n)
  PROVE  StreamInv' /\ Grown(Buffered, Buffered') /\ UNCHANGED <<agent, full>>
<1>1. /\ TypeOK /\ reader = "open" /\ n \in 1..Len(wire) /\ Became(Split(n))
      /\ wire' = SubSeq(wire, n + 1, Len(wire)) /\ UNCHANGED <<agent, chunks, full, reader>>
  BY DEF StreamInv, Read
<1>2. PICK b \in Symbols \cup {Before} : HasRead(Buffered, b) /\ InOrder(b)
  BY <1>1 DEF StreamInv
<1>3. Split(n) \in States /\ HasRead(Split(n), wire[n]) /\ Grown(Buffered, Split(n))
  BY <1>1, <1>2, SplitHasRead
<1>4. PICK c : c = wire[n] /\ c \in Symbols
  BY <1>1 DEF TypeOK
<1>5. wire' \in Seq(Symbols) /\ InOrder(c)'
  BY <1>1, <1>2, <1>4, RestInOrder DEF TypeOK
<1>6. Symbols' = Symbols
  BY <1>1 DEF Symbols, Events
<1> DEFINE s == Split(n)
<1>7. Buffered' = s
  BY <1>1, <1>3 DEF Became, Buffered, States
<1>8. HasRead(Buffered, c)'
  <2>1. HasRead(s, c)
    BY <1>3, <1>4
  <2> HIDE DEF s
  <2>2. QED BY <1>1, <1>7, <2>1 DEF HasRead, Prefix
<1>9. /\ sseBuffer' \in Seq(Symbols) /\ shown' \in Seq(Nat)
      /\ result' \in [amisJson : Nat, modelUsed : BOOLEAN]
      /\ Buffered'.shown = shown' /\ Buffered'.result = result'
  BY <1>1, <1>3 DEF Became, States, Buffered
<1>10. TypeOK'
  BY <1>1, <1>5, <1>6, <1>9 DEF TypeOK
<1>11. ShownIsPrefix'
  BY <1>8, <1>9 DEF HasRead, Prefix, ShownIsPrefix
<1>12. OfferIsWhole'
  <2>1. \/ result'.amisJson = 0
        \/ c.of.kind = "done" /\ result'.amisJson = c.of.n /\ Len(shown') = Upto(c)
    BY <1>8, <1>9 DEF HasRead
  <2>2. c.of.kind = "done" => Upto(c) = c.of.n /\ c.of.n = full /\ agent \in {"done", "cut"}
    BY <1>1, <1>4, ReadSymbolIs DEF Upto
  <2>3. QED BY <1>1, <2>1, <2>2 DEF OfferIsWhole
<1>13. Grown(Buffered, Buffered')
  BY <1>3, <1>7
<1>14. QED
  BY <1>1, <1>4, <1>5, <1>6, <1>8, <1>10, <1>11, <1>12, <1>13 DEF StreamInv

\* The last read: what is left in the buffer is processed as a line.
LEMMA ReadDoneKeeps ==
  ASSUME StreamInv, ReadDone
  PROVE  StreamInv' /\ Grown(Buffered, Buffered') /\ UNCHANGED <<agent, full>>
<1>1. /\ TypeOK /\ reader = "open" /\ wire = <<>> /\ agent \notin {"config", "stream"}
      /\ Became(Process(Buffered)) /\ reader' = "closed"
      /\ UNCHANGED <<agent, chunks, full, wire>>
  BY DEF StreamInv, ReadDone
<1>2. PICK b \in Symbols \cup {Before} : HasRead(Buffered, b) /\ InOrder(b)
  BY <1>1 DEF StreamInv
<1> DEFINE s == Buffered
           t == Process(Buffered)
<1>3. s \in States
  BY <1>1 DEF Buffered, States, TypeOK
<1>4. /\ t \in States /\ Prefix(t.shown) /\ Grown(s, t)
      /\ t.result.amisJson # 0 =>
           agent \in {"done", "cut"} /\ t.result.amisJson = full /\ Len(t.shown) = full
  <2>1. /\ b.of.kind = "done" => b.of.n = full /\ full > 0 /\ agent \in {"done", "cut"}
        /\ b.of.kind = "content" => b.of.n \in 1..full
        /\ full \in Nat /\ b.at \in 1..6
    BY <1>1, ReadSymbolIs DEF TypeOK
  <2>2. /\ s.line = LineOf(b) /\ Prefix(s.shown)
        /\ b.of.kind # "error" => Len(s.shown) = Upto(b)
        /\ s.result.amisJson = IF b.of.kind = "done" /\ b.at >= 5 THEN b.of.n ELSE 0
    BY <1>2 DEF HasRead
  <2> HIDE DEF s
  <2>3. CASE b.at = 4 /\ b # Before
    <3>1. s.line = <<[of |-> b.of, at |-> 3], [of |-> b.of, at |-> 4]>> /\ b.of \in Events
      BY <1>1, <1>2, <2>2, <2>3, SymbolIs DEF LineOf
    <3>2. /\ t \in States
          /\ t.shown = IF b.of.kind = "content" THEN Append(s.shown, b.of.n) ELSE s.shown
          /\ t.result.amisJson = IF b.of.kind = "done" THEN b.of.n ELSE s.result.amisJson
      BY <1>1, <1>3, <3>1, DataLine DEF s
    <3> HIDE DEF t
    <3>3. s.shown \in Seq(Nat) /\ s.result.amisJson = 0
      BY <1>3, <2>2, <2>3 DEF States
    <3>4. CASE b.of.kind = "content"
      <4>1. Len(s.shown) = b.of.n - 1 /\ b.of.n = Len(s.shown) + 1 /\ Len(s.shown) < full
        BY <2>1, <2>2, <2>3, <3>3, <3>4 DEF Upto
      <4>2. t.shown = Append(s.shown, Len(s.shown) + 1)
        BY <3>2, <3>4, <4>1
      <4>3. Prefix(t.shown) /\ Len(t.shown) = Len(s.shown) + 1
        BY <2>1, <2>2, <3>3, <4>1, <4>2, LongerPrefix
      <4>4. QED BY <3>2, <3>3, <3>4, <4>3 DEF Grown
    <3>5. CASE b.of.kind # "content"
      BY <2>1, <2>2, <3>2, <3>3, <3>5 DEF Grown, Upto
    <3>6. QED BY <3>4, <3>5
  <2>4. CASE b.at # 4
    <3>1. Len(s.line) # 2
      BY <2>2, <2>4 DEF LineOf
    <3>2. t = s
      BY <3>1, ShortLine DEF s
    <3> HIDE DEF t
    <3>3. QED BY <1>3, <2>1, <2>2, <3>2 DEF Grown, Upto, States
  <2>5. b.at = 4 => b # Before
    BY DEF Before
  <2>6. QED BY <2>3, <2>4, <2>5
<1>5. Buffered' = t
  BY <1>1, <1>4 DEF Became, Buffered, States
<1>6. Symbols' = Symbols
  BY <1>1 DEF Symbols, Events
<1>7. /\ sseBuffer' \in Seq(Symbols) /\ shown' \in Seq(Nat)
      /\ result' \in [amisJson : Nat, modelUsed : BOOLEAN]
      /\ t.shown = shown' /\ t.result = result'
  BY <1>1, <1>4 DEF Became, States
<1> HIDE DEF s, t
<1>8. TypeOK' /\ ShownIsPrefix' /\ OfferIsWhole'
  BY <1>1, <1>4, <1>6, <1>7 DEF TypeOK, ShownIsPrefix, OfferIsWhole, Prefix
<1>9. QED BY <1>1, <1>4, <1>5, <1>8 DEF StreamInv, s

\* What follows what was sent last, by where the agent is.
LEMMA WhatFollows ==
  ASSUME TypeOK, NEW b \in Symbols \cup {Before}, InOrder(b)
  PROVE  /\ agent = "config" =>
              /\ Follows(LastSent(b), [of |-> Meta, at |-> FirstOf(Meta)])
              /\ Follows(LastSent(b), [of |-> Error, at |-> FirstOf(Error)])
         /\ agent = "stream" =>
              /\ Follows(LastSent(b), [of |-> Content(full + 1), at |-> FirstOf(Content(full + 1))])
              /\ Follows(LastSent(b), [of |-> Error, at |-> FirstOf(Error)])
              /\ full > 0 =>
                   Follows(LastSent(b), [of |-> Done(full), at |-> FirstOf(Done(full))])
<1>1. ASSUME agent = "config"
      PROVE  LastSent(b).of = Start /\ LastSent(b).at = 6
  BY <1>1 DEF InOrder, Before
<1>2. ASSUME agent = "stream"
      PROVE  LastSent(b).at = 6 /\ LastSent(b).of = IF full = 0 THEN Meta ELSE Content(full)
  BY <1>2 DEF InOrder
<1>3. CASE agent = "config"
  BY <1>1, <1>3 DEF Follows, Start, Meta, Error
<1>4. CASE agent = "stream"
  BY <1>2, <1>4 DEF Follows, Meta, Error, Content, Done, TypeOK
<1>5. QED BY <1>3, <1>4

LEMMA NextStreamInv == StreamInv /\ [Next]_vars => StreamInv'
<1> SUFFICES ASSUME StreamInv, [Next]_vars PROVE StreamInv'
  OBVIOUS
<1>0. TypeOK /\ ShownIsPrefix /\ OfferIsWhole
  BY DEF StreamInv
<1>1. CASE SendMeta
  <2>1. /\ agent = "config" /\ agent' = "stream" /\ Yield(Meta) /\ full = 0
        /\ UNCHANGED <<chunks, full, sseBuffer, shown, result, reader>>
    BY <1>0, <1>1 DEF SendMeta, TypeOK
  <2>2. \A b \in Symbols \cup {Before} :
          InOrder(b) => Follows(LastSent(b), [of |-> Meta, at |-> FirstOf(Meta)])
    BY <1>0, <2>1, WhatFollows
  <2>3. Meta \in Events' /\ chunks' \in Nat
    BY <1>0, <2>1 DEF Events, TypeOK
  <2>4. QED BY <2>1, <2>2, <2>3, AgentSends
<1>2. CASE ContentChunk
  <2>1. /\ agent = "stream" /\ agent' = "stream" /\ full' = full + 1 /\ chunks' = chunks + 1
        /\ Yield(Content(full + 1)) /\ UNCHANGED <<sseBuffer, shown, result, reader>>
        /\ full \in Nat /\ chunks \in Nat
    BY <1>0, <1>2 DEF ContentChunk, TypeOK
  <2>2. PICK e : e = Content(full + 1)
    OBVIOUS
  <2>3. \A b \in Symbols \cup {Before} :
          InOrder(b) => Follows(LastSent(b), [of |-> e, at |-> FirstOf(e)])
    BY <1>0, <2>1, <2>2, WhatFollows
  <2>4. full' # 0 /\ e = Content(full') /\ full' \in 1..full'
    BY <2>1, <2>2
  <2>5. e \in Events' /\ chunks' \in Nat
    BY <2>1, <2>4 DEF Events
  <2>6. Yield(e)
    BY <2>1, <2>2
  <2>7. QED BY <2>1, <2>3, <2>4, <2>5, <2>6, AgentSends
<1>3. CASE Raise
  <2>1. /\ agent \in {"config", "stream"} /\ agent' = "error" /\ Yield(Error)
        /\ UNCHANGED <<chunks, full, sseBuffer, shown, result, reader>>
    BY <1>3 DEF Raise
  <2>2. \A b \in Symbols \cup {Before} :
          InOrder(b) => Follows(LastSent(b), [of |-> Error, at |-> FirstOf(Error)])
    BY <1>0, <2>1, WhatFollows
  <2>3. Error \in Events' /\ chunks' \in Nat
    BY <1>0, <2>1 DEF Events, TypeOK
  <2>4. QED BY <2>1, <2>2, <2>3, AgentSends
<1>4. CASE EndOfStream /\ full = 0
  <2>1. /\ agent = "stream" /\ agent' = "error" /\ Yield(Error)
        /\ UNCHANGED <<chunks, full, sseBuffer, shown, result, reader>>
    BY <1>4 DEF EndOfStream
  <2>2. \A b \in Symbols \cup {Before} :
          InOrder(b) => Follows(LastSent(b), [of |-> Error, at |-> FirstOf(Error)])
    BY <1>0, <2>1, WhatFollows
  <2>3. Error \in Events' /\ chunks' \in Nat
    BY <1>0, <2>1 DEF Events, TypeOK
  <2>4. QED BY <2>1, <2>2, <2>3, AgentSends
<1>5. CASE EndOfStream /\ full # 0
  <2>1. /\ agent = "stream" /\ agent' = "done" /\ Yield(Done(full)) /\ full > 0
        /\ UNCHANGED <<chunks, full, sseBuffer, shown, result, reader>>
    BY <1>0, <1>5 DEF EndOfStream, TypeOK
  <2>2. PICK e : e = Done(full)
    OBVIOUS
  <2>3. \A b \in Symbols \cup {Before} :
          InOrder(b) => Follows(LastSent(b), [of |-> e, at |-> FirstOf(e)])
    BY <1>0, <2>1, <2>2, WhatFollows
  <2>4. e \in Events' /\ chunks' \in Nat /\ Yield(e)
    BY <1>0, <2>1, <2>2 DEF Events, TypeOK
  <2>5. QED BY <2>1, <2>3, <2>4, AgentSends
<1>6. CASE IgnoredChunk
  <2>1. /\ UNCHANGED <<agent, full, wire, sseBuffer, shown, result, reader>> /\ chunks' \in Nat
    BY <1>0, <1>6 DEF IgnoredChunk, TypeOK
  <2>2. QED BY <2>1 DEF StreamInv, TypeOK, Symbols, Events, ShownIsPrefix, OfferIsWhole,
        HasRead, Prefix, Buffered, InOrder, LastSent
<1>7. CASE Die
  <2>1. PICK n \in 0..Len(wire) : wire' = SubSeq(wire, 1, n)
    BY <1>7 DEF Die
  <2>2. /\ agent' \in {"cut", "dead"} /\ (agent \in {"done", "cut"} <=> agent' \in {"done", "cut"})
        /\ UNCHANGED <<chunks, full, sseBuffer, shown, result, reader>>
    BY <1>7 DEF Die
  <2>3. Symbols' = Symbols
    BY <2>2 DEF Symbols, Events
  <2>4. wire' \in Seq(Symbols)
    BY <1>0, <2>1, SubSeqProperties DEF TypeOK
  <2>5. TypeOK' /\ ShownIsPrefix' /\ OfferIsWhole'
    BY <1>0, <2>2, <2>3, <2>4 DEF TypeOK, ShownIsPrefix, OfferIsWhole
  <2>6. ASSUME reader' = "open"
        PROVE  (\E b \in Symbols \cup {Before} : HasRead(Buffered, b) /\ InOrder(b))'
    <3>1. PICK b \in Symbols \cup {Before} : HasRead(Buffered, b) /\ InOrder(b)
      BY <2>2, <2>6 DEF StreamInv
    <3>2. HasRead(Buffered, b)'
      BY <1>0, <2>2, <3>1, HasReadStays DEF TypeOK
    <3>3. InOrder(b)'
      BY <1>0, <2>1, <2>2, <3>1, CutInOrder DEF TypeOK
    <3>4. QED BY <2>3, <3>2, <3>3 DEF Before, Start
  <2>7. QED BY <2>2, <2>5, <2>6 DEF StreamInv
<1>8. ASSUME NEW n \in 1..MaxRead, Read(n) PROVE StreamInv'
  BY <1>8, ReadKeeps
<1>9. CASE ReadDone
  BY <1>9, ReadDoneKeeps
<1>10. CASE ReadFails
  <2>1. reader' = "failed" /\ UNCHANGED <<agent, chunks, full, wire, sseBuffer, shown, result>>
    BY <1>10 DEF ReadFails
  <2>2. QED BY <2>1 DEF StreamInv, TypeOK, Symbols, Events, ShownIsPrefix, OfferIsWhole
<1>11. CASE UNCHANGED vars
  BY <1>11 DEF vars, StreamInv, TypeOK, Symbols, Events, ShownIsPrefix, OfferIsWhole,
     HasRead, Prefix, Buffered, InOrder, LastSent
<1>12. QED
  BY <1>1, <1>2, <1>3, <1>4, <1>5, <1>6, <1>7, <1>8, <1>9, <1>10, <1>11
  DEF Next, AgentStep, BrowserStep

\* Types, the prefix, whole offers, and where the browser is in the stream.
THEOREM StreamHolds == Spec => []StreamInv
<1>1. QED BY InitStreamInv, NextStreamInv, PTL DEF Spec

\* Whatever pieces the bytes arrive in, and wherever the agent dies or the
\* connection breaks, the reply is a prefix of what the model said.
THEOREM ReplyIsPrefix == Spec => []ShownIsPrefix
<1>1. StreamInv => ShownIsPrefix
  BY DEF StreamInv
<1>2. QED BY <1>1, StreamHolds, PTL

-----------------------------------------------------------------------------
(* The stream is a Reply.                                                  *)

LEMMA InitReply == Init => ReplyOf!Init
BY DEF Init, NoResult, ReplyOf!Init

\* What a read shows, and offers, is what a Reply may reveal.
LEMMA Reveals ==
  ASSUME StreamInv, StreamInv', Grown(Buffered, Buffered'), UNCHANGED <<agent, full>>
  PROVE  ReplyOf!Reveal
<1>1. Len(shown) \in Nat /\ Len(shown') \in Nat /\ full \in Nat /\ full' = full
  BY DEF StreamInv, TypeOK
<1>2. Len(shown) <= Len(shown') /\ Len(shown') <= full
  BY <1>1 DEF StreamInv, Grown, Buffered, ShownIsPrefix
<1>3. \/ result'.amisJson = result.amisJson
      \/ agent \in {"done", "cut"} /\ Len(shown') = full /\ result'.amisJson = full
  BY <1>1 DEF StreamInv, OfferIsWhole, Grown, Buffered
<1>4. QED BY <1>1, <1>2, <1>3 DEF ReplyOf!Reveal

LEMMA NextReply == StreamInv /\ StreamInv' /\ [Next]_vars => [ReplyOf!Next]_ReplyOf!vars
<1> SUFFICES ASSUME StreamInv, StreamInv', [Next]_vars
             PROVE  ReplyOf!Next \/ UNCHANGED ReplyOf!vars
  OBVIOUS
<1>0. full \in Nat
  BY DEF StreamInv, TypeOK
<1>1. CASE ContentChunk
  BY <1>1 DEF ContentChunk, ReplyOf!Next, ReplyOf!Say
<1>2. CASE Raise
  BY <1>0, <1>2 DEF Raise, ReplyOf!Next, ReplyOf!End
<1>3. CASE EndOfStream
  BY <1>0, <1>3 DEF EndOfStream, ReplyOf!Next, ReplyOf!End
<1>4. CASE Die
  <2>1. CASE agent \in {"config", "stream"}
    BY <1>0, <1>4, <2>1 DEF Die, ReplyOf!Next, ReplyOf!End
  <2>2. CASE agent \notin {"config", "stream"}
    BY <1>4, <2>2 DEF Die, ReplyOf!vars
  <2>3. QED BY <2>1, <2>2
<1>5. CASE SendMeta \/ IgnoredChunk \/ ReadFails
  BY <1>5 DEF SendMeta, IgnoredChunk, ReadFails, ReplyOf!vars
<1>6. ASSUME NEW n \in 1..MaxRead, Read(n) PROVE ReplyOf!Next
  BY <1>6, ReadKeeps, Reveals DEF ReplyOf!Next
<1>7. CASE ReadDone
  BY <1>7, ReadDoneKeeps, Reveals DEF ReplyOf!Next
<1>8. CASE UNCHANGED vars
  BY <1>8 DEF vars, ReplyOf!vars
<1>9. QED
  BY <1>1, <1>2, <1>3, <1>4, <1>5, <1>6, <1>7, <1>8 DEF Next, AgentStep, BrowserStep

\* stream_generate and transformSSEStream together implement Reply: bytes, lines,
\* events, failures and cuts are steps of a reply, or no step at all.
THEOREM StreamIsAReply == Spec => ImplementsReply
<1>1. QED BY InitReply, NextReply, StreamHolds, PTL DEF Spec, ImplementsReply, ReplyOf!Spec

-----------------------------------------------------------------------------
(* What a Reply promises, and so the stream.                               *)

LEMMA ReplyInvInit == ReplyOf!Init => ReplyOf!ReplyInv
BY DEF ReplyOf!Init, ReplyOf!ReplyInv, ReplyOf!TypeOK, ReplyOf!OfferedIsWhole

LEMMA ReplyInvNext == ReplyOf!ReplyInv /\ [ReplyOf!Next]_ReplyOf!vars => ReplyOf!ReplyInv'
<1> SUFFICES ASSUME ReplyOf!ReplyInv, [ReplyOf!Next]_ReplyOf!vars PROVE ReplyOf!ReplyInv'
  OBVIOUS
<1> USE DEF ReplyOf!ReplyInv, ReplyOf!TypeOK, ReplyOf!OfferedIsWhole
<1>1. CASE ReplyOf!Say
  BY <1>1 DEF ReplyOf!Say
<1>2. CASE ReplyOf!End
  BY <1>2 DEF ReplyOf!End
<1>3. CASE ReplyOf!Reveal
  BY <1>3 DEF ReplyOf!Reveal
<1>4. CASE UNCHANGED ReplyOf!vars
  BY <1>4 DEF ReplyOf!vars
<1>5. QED BY <1>1, <1>2, <1>3, <1>4 DEF ReplyOf!Next

\* A document is offered only when the model has finished, made of all that it
\* said and after the user saw all of it: a promise of Reply, kept by the stream
\* because it is one.
THEOREM OfferedWhole == Spec => []ReplyOf!OfferedIsWhole
<1>1. ReplyOf!Spec => []ReplyOf!ReplyInv
  BY ReplyInvInit, ReplyInvNext, PTL DEF ReplyOf!Spec
<1>2. ReplyOf!ReplyInv => ReplyOf!OfferedIsWhole
  BY DEF ReplyOf!ReplyInv
<1>3. QED BY <1>1, <1>2, StreamIsAReply, PTL DEF ImplementsReply
=============================================================================
