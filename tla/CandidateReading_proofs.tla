---------------------- MODULE CandidateReading_proofs ----------------------
(***************************************************************************)
(* What the rules and Gemini read off a document, whatever the document    *)
(* and the answer: there are finitely many candidates, the value of a      *)
(* candidate is text of the units it cites, labels that contradict each    *)
(* other leave a field open, and an open field has an issue.               *)
(*                                                                         *)
(* The lines of a document are flattened, and those of a value gathered,   *)
(* by recursion.  What holds of every step of a recursion is shown by the  *)
(* smallest number at which it would not.                                  *)
(***************************************************************************)
EXTENDS CandidateReading, FieldComparison_proofs, FiniteSetTheorems, SequenceTheorems, TLAPS

\* first followed by the sequences g[at + 1] .. g[n], as it is computed.
IsJoin(f, first, g, at, n) ==
  f = [i \in at..n |-> IF i = at THEN first ELSE f[i - 1] \o g[i]]

Joinable(S, first, g, at, n) ==
  /\ at \in Nat /\ n \in Nat /\ at <= n
  /\ first \in Seq(S)
  /\ \A i \in (at + 1)..n : g[i] \in Seq(S)

LEMMA JoinExists ==
  ASSUME NEW S, NEW first, NEW g, NEW at, NEW n, Joinable(S, first, g, at, n)
  PROVE  \E f : IsJoin(f, first, g, at, n)
PROOF
<1> SUFFICES ASSUME ~\E f : IsJoin(f, first, g, at, n) PROVE FALSE
  OBVIOUS
<1> USE DEF Joinable
<1> DEFINE bad == {m \in at..n : ~\E f : IsJoin(f, first, g, at, m)}
<1>1. PICK m \in bad : \A k \in bad : m <= k
  <2>1. bad \in SUBSET Nat /\ n \in bad
    OBVIOUS
  <2> HIDE DEF bad
  <2> QED BY <2>1, SmallestMember
<1>2. CASE m = at
  <2>1. PICK f : f = [i \in at..at |-> first]
    OBVIOUS
  <2>2. f = [i \in at..at |-> IF i = at THEN first ELSE f[i - 1] \o g[i]]
    BY <2>1
  <2> QED BY <1>1, <1>2, <2>2 DEF IsJoin
<1>3. CASE m # at
  <2>1. m - 1 \in Nat /\ m - 1 \in at..n /\ m - 1 \notin bad /\ m \in Nat /\ m > at
    BY <1>1, <1>3
  <2>2. PICK f : f = [i \in at..(m - 1) |-> IF i = at THEN first ELSE f[i - 1] \o g[i]]
    BY <2>1 DEF IsJoin
  <2>3. PICK h : h = [i \in at..m |-> IF i = m THEN f[m - 1] \o g[m] ELSE f[i]]
    OBVIOUS
  <2>4. ASSUME NEW i \in at..m
        PROVE  h[i] = IF i = at THEN first ELSE h[i - 1] \o g[i]
    <3>1. CASE i = at
      <4>1. h[i] = f[i] /\ i \in at..(m - 1)
        BY <2>1, <2>3, <3>1
      <4>2. f[i] = first
        BY <2>2, <3>1, <4>1
      <4> QED BY <3>1, <4>1, <4>2
    <3>2. CASE i # at /\ i # m
      <4>1. i \in at..(m - 1) /\ i - 1 \in at..(m - 1) /\ i - 1 \in at..m /\ i - 1 # m
        BY <2>1, <3>2
      <4>2. h[i] = f[i] /\ h[i - 1] = f[i - 1]
        BY <2>3, <3>2, <4>1
      <4>3. f[i] = f[i - 1] \o g[i]
        BY <2>2, <3>2, <4>1
      <4> QED BY <3>2, <4>2, <4>3
    <3>3. CASE i = m
      <4>1. m - 1 \in at..m /\ m - 1 # m
        BY <2>1
      <4>2. h[m] = f[m - 1] \o g[m] /\ h[m - 1] = f[m - 1]
        BY <2>3, <3>3, <4>1
      <4>3. h[i] = h[i - 1] \o g[i]
        BY <3>3, <4>2
      <4> QED BY <1>3, <3>3, <4>3
    <3> QED BY <3>1, <3>2, <3>3
  <2>5. h = [i \in at..m |-> IF i = at THEN first ELSE h[i - 1] \o g[i]]
    BY <2>3, <2>4
  <2> QED BY <1>1, <2>5 DEF IsJoin
<1> QED BY <1>2, <1>3

LEMMA JoinType ==
  ASSUME NEW S, NEW first, NEW g, NEW at, NEW n, Joinable(S, first, g, at, n),
         NEW f, IsJoin(f, first, g, at, n)
  PROVE  \A i \in at..n : f[i] \in Seq(S)
PROOF
<1> SUFFICES ASSUME NEW j \in at..n, f[j] \notin Seq(S) PROVE FALSE
  OBVIOUS
<1> USE DEF Joinable
<1> DEFINE bad == {m \in at..n : f[m] \notin Seq(S)}
<1>1. PICK m \in bad : \A k \in bad : m <= k
  <2>1. bad \in SUBSET Nat /\ j \in bad
    OBVIOUS
  <2> HIDE DEF bad
  <2> QED BY <2>1, SmallestMember
<1>2. f[m] = IF m = at THEN first ELSE f[m - 1] \o g[m]
  BY <1>1 DEF IsJoin
<1>3. m # at
  BY <1>1, <1>2
<1>4. m - 1 \in at..n /\ m - 1 \notin bad /\ m \in (at + 1)..n
  BY <1>1, <1>3
<1>5. f[m - 1] \in Seq(S) /\ g[m] \in Seq(S)
  BY <1>4
<1>6. f[m] = f[m - 1] \o g[m]
  BY <1>2, <1>3
<1>7. f[m - 1] \o g[m] \in Seq(S)
  BY <1>5, ConcatProperties
<1> QED BY <1>1, <1>6, <1>7

\* Whatever function the recursion is, it gives a sequence, and first to begin with.
LEMMA JoinIsSeq ==
  ASSUME NEW S, NEW first, NEW g, NEW at, NEW n, Joinable(S, first, g, at, n)
  PROVE  LET f == CHOOSE f : IsJoin(f, first, g, at, n)
         IN f[n] \in Seq(S) /\ f[at] = first
PROOF
<1>1. PICK f : f = CHOOSE h : IsJoin(h, first, g, at, n)
  OBVIOUS
<1>2. IsJoin(f, first, g, at, n)
  BY <1>1, JoinExists
<1>3. \A i \in at..n : f[i] \in Seq(S)
  BY <1>2, JoinType
<1>4. f[at] = first
  BY <1>2 DEF IsJoin, Joinable
<1> QED BY <1>1, <1>3, <1>4 DEF Joinable

\* A line outside of cells is one of the unit it is said to be from.
FragmentsOf(units) ==
  UNION {{[line |-> units[i].lines[j], unit |-> i] : j \in DOMAIN units[i].lines} :
           i \in DOMAIN units}

LEMMA FragmentsSeq ==
  ASSUME NEW units \in Seq(SourceUnit)
  PROVE  Fragments(units) \in Seq(FragmentsOf(units))
PROOF
<1> DEFINE n == Len(units)
           g == [i \in 1..n |->
                   IF units[i].row > 0 THEN <<>>
                   ELSE [j \in DOMAIN units[i].lines |-> [line |-> units[i].lines[j], unit |-> i]]]
           S == FragmentsOf(units)
<1>1. \A i \in 1..n : g[i] \in Seq(S)
  <2> SUFFICES ASSUME NEW i \in 1..n PROVE g[i] \in Seq(S)
    OBVIOUS
  <2>1. units[i].lines \in Seq(Line)
    <3>1. PICK unit \in SourceUnit : unit = units[i]
      OBVIOUS
    <3>2. unit.lines \in Seq(Line)
      BY DEF SourceUnit
    <3> QED BY <3>1, <3>2
  <2>2. CASE units[i].row > 0
    BY <2>2
  <2>3. CASE ~(units[i].row > 0)
    <3>1. PICK lines \in Seq(Line) : lines = units[i].lines
      BY <2>1
    <3>2. g[i] = [j \in 1..Len(lines) |-> [line |-> lines[j], unit |-> i]]
      BY <2>3, <3>1
    <3>3. \A j \in 1..Len(lines) : [line |-> lines[j], unit |-> i] \in S
      BY <3>1 DEF FragmentsOf
    <3> HIDE DEF S, g
    <3> QED BY <3>2, <3>3
  <2> QED BY <2>2, <2>3
<1>2. Fragments(units) = (CHOOSE f : IsJoin(f, <<>>, g, 0, n))[n]
  <2>1. \A f : f = [i \in 0..n |-> IF i = 0 THEN <<>> ELSE f[i - 1] \o
               (IF units[i].row > 0 THEN <<>>
                ELSE [j \in DOMAIN units[i].lines |-> [line |-> units[i].lines[j], unit |-> i]])]
               <=> IsJoin(f, <<>>, g, 0, n)
    <3> SUFFICES ASSUME NEW f
                 PROVE  [i \in 0..n |-> IF i = 0 THEN <<>> ELSE f[i - 1] \o
               (IF units[i].row > 0 THEN <<>>
                ELSE [j \in DOMAIN units[i].lines |-> [line |-> units[i].lines[j], unit |-> i]])]
                   = [i \in 0..n |-> IF i = 0 THEN <<>> ELSE f[i - 1] \o g[i]]
      BY DEF IsJoin
    <3>1. \A i \in 0..n : i # 0 => i \in 1..n
      OBVIOUS
    <3> QED BY <3>1
  <2> QED BY <2>1 DEF Fragments
<1> HIDE DEF g, S
<1>3. n \in Nat /\ <<>> \in Seq(S)
  OBVIOUS
<1> HIDE DEF n
<1>4. Joinable(S, <<>>, g, 0, n)
  BY <1>1, <1>3 DEF Joinable
<1> QED BY <1>2, <1>4, JoinIsSeq DEF S

\* The values of a function on a finite set are finitely many.
LEMMA FiniteImage ==
  ASSUME NEW S, IsFiniteSet(S), NEW f
  PROVE  IsFiniteSet({f[x] : x \in S})
PROOF
<1> DEFINE T == {f[x] : x \in S}
<1>1. PICK h : h = [x \in S |-> f[x]]
  OBVIOUS
<1>2. h \in [S -> T] /\ \A t \in T : \E x \in S : h[x] = t
  BY <1>1
<1>3. h \in Surjection(S, T)
  BY <1>2 DEF Surjection
<1> HIDE DEF T
<1>4. IsFiniteSet(T)
  BY <1>3, FS_Surjection
<1> QED BY <1>4 DEF T

\* The places of a sequence that has a length.
LEMMA FiniteDomain ==
  ASSUME NEW S, NEW s \in Seq(S)
  PROVE  IsFiniteSet(DOMAIN s) /\ \A T \in SUBSET DOMAIN s : IsFiniteSet(T)
PROOF
<1>1. DOMAIN s = 1..Len(s) /\ Len(s) \in Int /\ 1 \in Int
  OBVIOUS
<1>2. IsFiniteSet(1..Len(s))
  BY <1>1, FS_Interval
<1> QED BY <1>1, <1>2, FS_Subset

\* A document has finitely many candidates.
LEMMA CellsFinite ==
  ASSUME NEW units \in Seq(SourceUnit)
  PROVE  IsFiniteSet(CellCandidates(units))
PROOF
<1> DEFINE L == {i \in DOMAIN units :
                   units[i].row > 0 /\ ~units[i].formula /\ IsLabel(units[i].lines[1])}
           own(i) == {Candidate(i, units[i].lines[1], units[i].lines[1].rest, {i}, FALSE, FALSE)}
           cell(i, j) == Candidate(i, units[i].lines[1], units[j].lines[1].own, {i, j},
                                   units[j].formula, FALSE)
           besides(i) == {cell(i, j) : j \in Beside(units, i)}
           of(i) == IF units[i].lines[1].rest # <<>> \/ Beside(units, i) = {}
                    THEN own(i) ELSE besides(i)
<1>1. IsFiniteSet(L) /\ \A i : IsFiniteSet(Beside(units, i))
  <2>1. L \in SUBSET DOMAIN units /\ \A i : Beside(units, i) \in SUBSET DOMAIN units
    BY DEF Beside
  <2> QED BY <2>1, FiniteDomain
<1>2. \A i : IsFiniteSet(of(i))
  <2> SUFFICES ASSUME NEW i PROVE IsFiniteSet(of(i))
    OBVIOUS
  <2>1. IsFiniteSet(own(i))
    BY FS_Singleton
  <2>2. IsFiniteSet(besides(i))
    <3>1. PICK f : f = [j \in Beside(units, i) |-> cell(i, j)]
      OBVIOUS
    <3>2. IsFiniteSet({f[j] : j \in Beside(units, i)})
      BY <1>1, FiniteImage
    <3>3. {f[j] : j \in Beside(units, i)} = besides(i)
      BY <3>1
    <3> QED BY <3>2, <3>3
  <2> QED BY <2>1, <2>2
<1>3. PICK g : g = [i \in L |-> of(i)]
  OBVIOUS
<1>4. IsFiniteSet({g[i] : i \in L}) /\ \A T \in {g[i] : i \in L} : IsFiniteSet(T)
  <2> HIDE DEF L, of
  <2>1. IsFiniteSet({g[i] : i \in L})
    BY <1>1, FiniteImage
  <2>2. ASSUME NEW T \in {g[i] : i \in L} PROVE IsFiniteSet(T)
    <3>1. PICK i \in L : T = g[i]
      OBVIOUS
    <3>2. g[i] = of(i)
      BY <1>3
    <3> QED BY <1>2, <3>1, <3>2
  <2> QED BY <2>1, <2>2
<1>5. IsFiniteSet(UNION {g[i] : i \in L})
  BY <1>4, FS_UNION
<1>6. {g[i] : i \in L} = {of(i) : i \in L}
  BY <1>3
<1>7. CellCandidates(units) = UNION {of(i) : i \in L}
  BY DEF CellCandidates
<1> QED BY <1>5, <1>6, <1>7

LEMMA TextsFinite ==
  ASSUME NEW S, NEW frags \in Seq(S), NEW after
  PROVE  IsFiniteSet(TextCandidates(frags, after))
PROOF
<1> DEFINE L == {i \in DOMAIN frags : (IsLabel(frags[i].line) \/ Joined(frags, i))
                                       /\ ~Joined(frags, i - 1)}
           place(i) == IF Joined(frags, i) THEN i + 1 ELSE i
           found(i) == LabelCandidate(frags, i, place(i), LastOf(frags, place(i)), after)
           of(i) == {LabelCandidate(frags, i, at, LastOf(frags, at), after) : at \in {place(i)}}
<1>1. IsFiniteSet(L)
  <2>1. L \in SUBSET DOMAIN frags
    OBVIOUS
  <2> HIDE DEF L
  <2> QED BY <2>1, FiniteDomain
<1>2. \A i : of(i) = {found(i)}
  OBVIOUS
<1> HIDE DEF found, of
<1>3. PICK g : g = [i \in L |-> {found(i)}]
  OBVIOUS
<1>4. IsFiniteSet({g[i] : i \in L}) /\ \A T \in {g[i] : i \in L} : IsFiniteSet(T)
  <2> HIDE DEF L
  <2>1. IsFiniteSet({g[i] : i \in L})
    BY <1>1, FiniteImage
  <2>2. ASSUME NEW T \in {g[i] : i \in L} PROVE IsFiniteSet(T)
    <3>1. PICK i \in L : T = g[i]
      OBVIOUS
    <3>2. g[i] = {found(i)}
      BY <1>3
    <3> QED BY <3>1, <3>2, FS_Singleton
  <2> QED BY <2>1, <2>2
<1>5. IsFiniteSet(UNION {g[i] : i \in L})
  BY <1>4, FS_UNION
<1>6. {g[i] : i \in L} = {of(i) : i \in L}
  BY <1>2, <1>3
<1>7. TextCandidates(frags, after) = UNION {of(i) : i \in L}
  BY DEF TextCandidates, of
<1> QED BY <1>5, <1>6, <1>7

LEMMA CandidatesFinite ==
  ASSUME NEW units \in Seq(SourceUnit)
  PROVE  \A T \in SUBSET Candidates(units) : IsFiniteSet(T)
PROOF
<1>1. IsFiniteSet(TextCandidates(Fragments(units), Len(units)))
  BY FragmentsSeq, TextsFinite
<1>3. IsFiniteSet(Candidates(units))
  BY <1>1, CellsFinite, FS_Union DEF Candidates
<1> QED BY <1>3, FS_Subset
-----------------------------------------------------------------------------
\* The units of a document as its reader gives them.
Sound(units) ==
  /\ units \in Seq(SourceUnit)
  /\ \A i \in DOMAIN units : WellFormed(units[i])

LEMMA PiecesOf ==
  /\ \A S : \A s \in Seq(S) : s \in Seq(Pieces(s)) /\ Pieces(s) \subseteq S
  /\ Pieces(<<>>) = {}
  /\ \A s, T : s \in Seq(T) => Pieces(s) \subseteq T
PROOF
<1>1. ASSUME NEW S, NEW s \in Seq(S) PROVE s \in Seq(Pieces(s)) /\ Pieces(s) \subseteq S
  <2>1. s = [i \in 1..Len(s) |-> s[i]] /\ DOMAIN s = 1..Len(s) /\ Len(s) \in Nat
    OBVIOUS
  <2>2. \A i \in 1..Len(s) : s[i] \in Pieces(s) /\ s[i] \in S
    BY <2>1 DEF Pieces
  <2>3. s \in [1..Len(s) -> Pieces(s)]
    BY <2>1, <2>2
  <2>4. s \in Seq(Pieces(s))
    BY <2>1, <2>3, SeqDef
  <2> QED BY <2>1, <2>2, <2>4 DEF Pieces
<1>2. Pieces(<<>>) = {}
  BY DEF Pieces
<1> QED BY <1>1, <1>2

\* What a line of a unit holds.
LEMMA UnitLines ==
  ASSUME NEW units, Sound(units), NEW i \in DOMAIN units
  PROVE  /\ units[i].lines \in Seq(Line)
         /\ units[i].row > 0 => 1 \in DOMAIN units[i].lines
         /\ \A j \in DOMAIN units[i].lines :
              LET line == units[i].lines[j]
              IN /\ line \in Line /\ line \in LinesOf(Pieces(units))
                 /\ line.own = <<>> => line.as = "text"
                 /\ Pieces(line.own) \subseteq TextOf(units[i])
                 /\ Pieces(line.rest) \subseteq TextOf(units[i])
PROOF
<1>1. PICK unit \in SourceUnit : unit = units[i]
  BY DEF Sound
<1>2. unit.lines \in Seq(Line) /\ unit \in Pieces(units)
  BY <1>1 DEF SourceUnit, Pieces
<1>3. WellFormed(unit)
  BY <1>1 DEF Sound
<1>4. unit.row > 0 => 1 \in DOMAIN unit.lines
  BY <1>2, <1>3 DEF WellFormed
<1>5. ASSUME NEW j \in DOMAIN unit.lines
      PROVE  /\ unit.lines[j] \in Line /\ unit.lines[j] \in LinesOf(Pieces(units))
             /\ unit.lines[j].own = <<>> => unit.lines[j].as = "text"
             /\ Pieces(unit.lines[j].own) \subseteq TextOf(unit)
             /\ Pieces(unit.lines[j].rest) \subseteq TextOf(unit)
  <2>1. unit.lines[j] \in Line
    BY <1>2
  <2>2. unit.lines[j] \in LinesOf(Pieces(units)) /\ unit.lines[j] \in LinesOf({unit})
    BY <1>2 DEF LinesOf
  <2>3. unit.lines[j].own = <<>> => unit.lines[j].as = "text"
    BY <1>3 DEF WellFormed
  <2>4. Pieces(unit.lines[j].own) \cup Pieces(unit.lines[j].rest) \subseteq TextOf(unit)
    BY <2>2 DEF TextOf
  <2> QED BY <2>1, <2>2, <2>3, <2>4
<1> QED BY <1>1, <1>2, <1>4, <1>5

LEMMA FragmentLines ==
  ASSUME NEW units, Sound(units), NEW frags, frags = Fragments(units)
  PROVE  /\ Len(frags) \in Nat /\ DOMAIN frags = 1..Len(frags)
         /\ \A i \in DOMAIN frags :
              LET line == frags[i].line
              IN /\ frags[i].unit \in DOMAIN units
                 /\ line \in Line /\ line \in LinesOf(Pieces(units))
                 /\ line.own = <<>> => line.as = "text"
                 /\ Pieces(line.own) \subseteq TextOf(units[frags[i].unit])
                 /\ Pieces(line.rest) \subseteq TextOf(units[frags[i].unit])
PROOF
<1>1. frags \in Seq(FragmentsOf(units))
  BY FragmentsSeq DEF Sound
<1>2. Len(frags) \in Nat /\ DOMAIN frags = 1..Len(frags)
      /\ \A i \in DOMAIN frags : frags[i] \in FragmentsOf(units)
  BY <1>1
<1>3. ASSUME NEW i \in DOMAIN frags
      PROVE  LET line == frags[i].line
             IN /\ frags[i].unit \in DOMAIN units
                /\ line \in Line /\ line \in LinesOf(Pieces(units))
                /\ line.own = <<>> => line.as = "text"
                /\ Pieces(line.own) \subseteq TextOf(units[frags[i].unit])
                /\ Pieces(line.rest) \subseteq TextOf(units[frags[i].unit])
  <2>1. PICK u \in DOMAIN units : \E j \in DOMAIN units[u].lines :
          frags[i] = [line |-> units[u].lines[j], unit |-> u]
    BY <1>2 DEF FragmentsOf
  <2> PICK j \in DOMAIN units[u].lines : frags[i] = [line |-> units[u].lines[j], unit |-> u]
    BY <2>1
  <2>2. frags[i].unit = u /\ frags[i].line = units[u].lines[j]
    OBVIOUS
  <2> QED BY <2>2, UnitLines
<1> QED BY <1>2, <1>3

LEMMA LinesTyped ==
  ASSUME NEW line \in Line
  PROVE  /\ line.own \in Seq(Text) /\ line.rest \in Seq(Text)
         /\ line.units \in SUBSET Measure /\ line.total \in BOOLEAN /\ line.packages \in BOOLEAN
PROOF BY DEF Line

\* The lines of a value begin with what follows the label, and hold nothing but this
\* and the lines under it.
LEMMA ValueLinesOf ==
  ASSUME NEW units, Sound(units), NEW frags, frags = Fragments(units),
         NEW at \in DOMAIN frags, NEW last \in at..Len(frags)
  PROVE  LET value == ValueLines(frags, at, last)
         IN /\ value \in Seq(Text)
            /\ Pieces(value) \subseteq Pieces(frags[at].line.rest)
                 \cup UNION {Pieces(frags[k].line.own) : k \in (at + 1)..last}
            /\ last = at => value = frags[at].line.rest
PROOF
<1> DEFINE first == frags[at].line.rest
           g == [k \in (at + 1)..last |-> frags[k].line.own]
           T == Pieces(first) \cup UNION {Pieces(frags[k].line.own) : k \in (at + 1)..last}
<1>1. /\ Len(frags) \in Nat /\ DOMAIN frags = 1..Len(frags) /\ at \in Nat /\ last \in Nat
      /\ at <= last /\ \A k \in (at + 1)..last : k \in DOMAIN frags
  <2>1. Len(frags) \in Nat /\ DOMAIN frags = 1..Len(frags)
    BY FragmentLines
  <2> QED BY <2>1
<1>2. \A k \in DOMAIN frags : frags[k].line.own \in Seq(Text) /\ frags[k].line.rest \in Seq(Text)
  BY FragmentLines, LinesTyped
<1>3. T \subseteq Text
  BY <1>1, <1>2, PiecesOf
<1>4. first \in Seq(T) /\ \A k \in (at + 1)..last : g[k] \in Seq(T)
  <2>1. \A S, U : S \subseteq U => Seq(S) \subseteq Seq(U)
    BY SeqMonotonic
  <2>2. first \in Seq(Pieces(first)) /\ Pieces(first) \subseteq T
    BY <1>2, PiecesOf
  <2>3. \A k \in (at + 1)..last : g[k] \in Seq(Pieces(g[k])) /\ Pieces(g[k]) \subseteq T
    BY <1>1, <1>2, PiecesOf
  <2> QED BY <2>1, <2>2, <2>3
<1>5. ValueLines(frags, at, last) = (CHOOSE f : IsJoin(f, first, g, at, last))[last]
  <2>1. \A f : f = [k \in at..last |->
                      IF k = at THEN frags[at].line.rest ELSE f[k - 1] \o frags[k].line.own]
               <=> IsJoin(f, first, g, at, last)
    <3> SUFFICES ASSUME NEW f
                 PROVE  [k \in at..last |->
                           IF k = at THEN frags[at].line.rest ELSE f[k - 1] \o frags[k].line.own]
                        = [k \in at..last |-> IF k = at THEN first ELSE f[k - 1] \o g[k]]
      BY DEF IsJoin
    <3>1. \A k \in at..last : k # at => k \in (at + 1)..last
      BY <1>1
    <3> QED BY <3>1
  <2> QED BY <2>1 DEF ValueLines
<1> HIDE DEF g, T, first
<1>6. Joinable(T, first, g, at, last)
  BY <1>1, <1>4 DEF Joinable
<1>7. PICK f : f = CHOOSE h : IsJoin(h, first, g, at, last)
  OBVIOUS
<1>8. f[last] \in Seq(T) /\ f[at] = first /\ ValueLines(frags, at, last) = f[last]
  BY <1>5, <1>6, <1>7, JoinIsSeq
<1>9. f[last] \in Seq(Text)
  BY <1>3, <1>8, SeqMonotonic
<1>10. Pieces(f[last]) \subseteq T
  BY <1>8, PiecesOf
<1>11. last = at => f[last] = frags[at].line.rest
  BY <1>8 DEF first
<1> QED BY <1>8, <1>9, <1>10, <1>11 DEF T, first

\* Where a value ends: no earlier than its label, and there when nothing goes on.
LEMMA LastLine ==
  ASSUME NEW frags, Len(frags) \in Nat, NEW at \in 1..Len(frags)
  PROVE  /\ LastOf(frags, at) \in at..Len(frags)
         /\ at = Len(frags) \/ Ends(frags, at + 1) => LastOf(frags, at) = at
PROOF
<1> DEFINE ending == {k \in at..Len(frags) : k = Len(frags) \/ Ends(frags, k + 1)}
           last(k) == /\ \A j \in (at + 1)..k : ~Ends(frags, j)
                      /\ k = Len(frags) \/ Ends(frags, k + 1)
<1>1. PICK m \in ending : \A k \in ending : m <= k
  <2>1. ending \in SUBSET Nat /\ Len(frags) \in ending
    OBVIOUS
  <2> HIDE DEF ending
  <2> QED BY <2>1, SmallestMember
<1>2. m \in at..Len(frags) /\ last(m)
  <2>1. ASSUME NEW j \in (at + 1)..m, Ends(frags, j) PROVE FALSE
    <3>1. PICK i \in at..Len(frags) : i + 1 = j /\ i < m
      BY <1>1
    <3>2. i \in ending
      BY <2>1, <3>1
    <3> QED BY <1>1, <3>1, <3>2
  <2> QED BY <1>1, <2>1
<1>3. LastOf(frags, at) = CHOOSE k \in at..Len(frags) : last(k)
  BY DEF LastOf
<1>4. PICK k : k = LastOf(frags, at)
  OBVIOUS
<1>5. k \in at..Len(frags) /\ last(k)
  BY <1>2, <1>3, <1>4
<1>6. ASSUME at = Len(frags) \/ Ends(frags, at + 1), k # at PROVE FALSE
  <2>1. at + 1 \in (at + 1)..k /\ at # Len(frags)
    BY <1>5, <1>6
  <2> QED BY <1>5, <1>6, <2>1
<1> QED BY <1>4, <1>5, <1>6

-----------------------------------------------------------------------------
\* What a candidate says stands in the units it cites.
Rooted(units, c) ==
  /\ c.units \subseteq DOMAIN units
  /\ c.line \in Line /\ c.line \in LinesOf(Pieces(units))
  /\ c.raw \in Seq(Text)
  /\ Pieces(c.raw) \subseteq UNION {TextOf(units[i]) : i \in c.units}

LEMMA CellsRooted ==
  ASSUME NEW units, Sound(units), NEW c \in CellCandidates(units)
  PROVE  Rooted(units, c)
PROOF
<1> DEFINE first(i) == units[i].lines[1]
<1>1. PICK i \in DOMAIN units :
        /\ units[i].row > 0
        /\ \/ c = Candidate(i, first(i), first(i).rest, {i}, FALSE, FALSE)
           \/ \E j \in Beside(units, i) :
                c = Candidate(i, first(i), first(j).own, {i, j}, units[j].formula, FALSE)
  BY DEF CellCandidates
<1>2. ASSUME NEW j \in DOMAIN units, units[j].row > 0
      PROVE  /\ first(j) \in Line /\ first(j) \in LinesOf(Pieces(units))
             /\ first(j).own \in Seq(Text) /\ first(j).rest \in Seq(Text)
             /\ Pieces(first(j).own) \subseteq TextOf(units[j])
             /\ Pieces(first(j).rest) \subseteq TextOf(units[j])
  <2>1. 1 \in DOMAIN units[j].lines
    BY <1>2, UnitLines
  <2>2. /\ first(j) \in Line /\ first(j) \in LinesOf(Pieces(units))
        /\ Pieces(first(j).own) \subseteq TextOf(units[j])
        /\ Pieces(first(j).rest) \subseteq TextOf(units[j])
    BY <2>1, UnitLines
  <2> QED BY <2>2, LinesTyped
<1> HIDE DEF first
<1>3. CASE c = Candidate(i, first(i), first(i).rest, {i}, FALSE, FALSE)
  <2>1. c.units = {i} /\ c.line = first(i) /\ c.raw = first(i).rest
    BY <1>3 DEF Candidate
  <2> QED BY <1>1, <1>2, <2>1 DEF Rooted
<1>4. ASSUME NEW j \in Beside(units, i),
             c = Candidate(i, first(i), first(j).own, {i, j}, units[j].formula, FALSE)
      PROVE  Rooted(units, c)
  <2>1. c.units = {i, j} /\ c.line = first(i) /\ c.raw = first(j).own
    BY <1>4 DEF Candidate
  <2>2. j \in DOMAIN units /\ units[j].row > 0
    BY <1>1 DEF Beside
  <2>3. TextOf(units[j]) \subseteq UNION {TextOf(units[u]) : u \in c.units}
    BY <2>1
  <2>4. Pieces(c.raw) \subseteq TextOf(units[j])
    BY <1>2, <2>1, <2>2
  <2>5. c.units \subseteq DOMAIN units
    BY <2>1, <2>2
  <2>6. c.line \in Line /\ c.line \in LinesOf(Pieces(units)) /\ c.raw \in Seq(Text)
    BY <1>1, <1>2, <2>1, <2>2
  <2> QED BY <2>3, <2>4, <2>5, <2>6 DEF Rooted
<1> QED BY <1>1, <1>3, <1>4

LEMMA TextsRooted ==
  ASSUME NEW units, Sound(units), NEW after,
         NEW c \in TextCandidates(Fragments(units), after)
  PROVE  Rooted(units, c)
PROOF
<1>1. PICK frags : frags = Fragments(units)
  OBVIOUS
<1>2. PICK i \in DOMAIN frags :
        \E at \in {IF Joined(frags, i) THEN i + 1 ELSE i} :
          c = LabelCandidate(frags, i, at, LastOf(frags, at), after)
  BY <1>1 DEF TextCandidates
<1>3. PICK at \in {IF Joined(frags, i) THEN i + 1 ELSE i} :
        c = LabelCandidate(frags, i, at, LastOf(frags, at), after)
  BY <1>2
<1>4. Len(frags) \in Nat /\ DOMAIN frags = 1..Len(frags)
  BY <1>1, FragmentLines
<1>5. at \in 1..Len(frags) /\ i \in 1..at
  BY <1>3, <1>4 DEF Joined
<1>6. PICK last \in at..Len(frags) : last = LastOf(frags, at)
  BY <1>4, <1>5, LastLine
<1> DEFINE value == ValueLines(frags, at, last)
           under == {k \in (at + 1)..last : frags[k].line.own # <<>>}
           text(k) == TextOf(units[frags[k].unit])
<1>7. /\ c.line = frags[at].line /\ c.raw = value
      /\ c.units = {frags[j].unit : j \in i..at} \cup {frags[j].unit : j \in under}
  BY <1>3, <1>6 DEF LabelCandidate, Candidate
<1>8. /\ value \in Seq(Text)
      /\ Pieces(value) \subseteq Pieces(frags[at].line.rest)
           \cup UNION {Pieces(frags[k].line.own) : k \in (at + 1)..last}
  <2>1. at \in DOMAIN frags
    BY <1>4, <1>5
  <2> QED BY <1>1, <2>1, ValueLinesOf
<1>9. \A k \in 1..Len(frags) :
        /\ frags[k].unit \in DOMAIN units
        /\ frags[k].line \in Line /\ frags[k].line \in LinesOf(Pieces(units))
        /\ Pieces(frags[k].line.own) \subseteq text(k)
        /\ Pieces(frags[k].line.rest) \subseteq text(k)
  BY <1>1, <1>4, FragmentLines
<1>10. \A k : k \in i..at \/ k \in under => k \in 1..Len(frags) /\ frags[k].unit \in c.units
  BY <1>4, <1>5, <1>6, <1>7
<1>11. c.units \subseteq DOMAIN units
  BY <1>7, <1>9, <1>10
<1>12. ASSUME NEW t \in Pieces(value)
       PROVE  \E u \in c.units : t \in TextOf(units[u])
  <2>1. CASE t \in Pieces(frags[at].line.rest)
    <3>1. at \in i..at /\ t \in text(at)
      BY <1>5, <1>9, <2>1
    <3> QED BY <1>10, <3>1
  <2>2. ASSUME NEW k \in (at + 1)..last, t \in Pieces(frags[k].line.own)
        PROVE  \E u \in c.units : t \in TextOf(units[u])
    <3>1. frags[k].line.own # <<>>
      BY <2>2, PiecesOf
    <3>2. k \in under
      BY <3>1
    <3>3. k \in 1..Len(frags) /\ frags[k].unit \in c.units
      BY <1>10, <3>2
    <3>4. t \in text(k)
      BY <1>9, <2>2, <3>3
    <3> QED BY <3>3, <3>4
  <2>3. t \in Pieces(frags[at].line.rest)
        \/ \E k \in (at + 1)..last : t \in Pieces(frags[k].line.own)
    BY <1>8
  <2> QED BY <2>1, <2>2, <2>3
<1>13. Pieces(c.raw) \subseteq UNION {TextOf(units[u]) : u \in c.units}
  BY <1>7, <1>12
<1>14. c.line \in Line /\ c.line \in LinesOf(Pieces(units)) /\ c.raw \in Seq(Text)
  BY <1>5, <1>7, <1>8, <1>9
<1> QED BY <1>11, <1>13, <1>14 DEF Rooted

LEMMA CandidatesRooted ==
  ASSUME NEW units, Sound(units), NEW c \in Candidates(units)
  PROVE  Rooted(units, c)
PROOF BY CellsRooted, TextsRooted DEF Candidates

\* Some candidate reads this line and nothing under it.
ReadAlone(units, line) ==
  \E c \in Candidates(units) : c.line = line /\ c.raw = line.rest /\ c.formula = FALSE

\* A label that stands alone with its value is a candidate with this value, in a cell
\* and on a line with nothing under it that goes on.
LEMMA CellAlone ==
  ASSUME NEW units, NEW i \in DOMAIN units, units[i].row > 0, ~units[i].formula,
         NEW line, line = units[i].lines[1], IsLabel(line), line.rest # <<>>
  PROVE  ReadAlone(units, line)
PROOF
<1>1. PICK c : c = Candidate(i, line, line.rest, {i}, FALSE, FALSE)
  OBVIOUS
<1>2. c \in CellCandidates(units)
  BY <1>1 DEF CellCandidates
<1> QED BY <1>1, <1>2 DEF Candidates, Candidate, ReadAlone

LEMMA LineAlone ==
  ASSUME NEW units, Sound(units), NEW frags, frags = Fragments(units),
         NEW i \in DOMAIN frags, i = Len(frags) \/ Ends(frags, i + 1),
         NEW line, line = frags[i].line, IsLabel(line)
  PROVE  ReadAlone(units, line)
PROOF
<1>1. /\ Len(frags) \in Nat /\ DOMAIN frags = 1..Len(frags) /\ i \in Nat
      /\ \A k \in DOMAIN frags : frags[k].line.own = <<>> => frags[k].line.as = "text"
  <2>1. Len(frags) \in Nat /\ DOMAIN frags = 1..Len(frags)
    BY FragmentLines
  <2> QED BY <2>1, FragmentLines
<1>2. LastOf(frags, i) = i /\ ValueLines(frags, i, i) = line.rest
  <2>1. LastOf(frags, i) = i
    BY <1>1, LastLine
  <2>2. i \in i..Len(frags)
    BY <1>1
  <2> QED BY <2>1, <2>2, ValueLinesOf
<1>3. line.as = "label" /\ ~Joined(frags, i)
  BY DEF IsLabel, Joined
<1>4. ASSUME NEW h \in {i, i - 1}, h \in DOMAIN frags, ~Joined(frags, h - 1),
             IsLabel(frags[h].line) \/ Joined(frags, h),
             i = IF Joined(frags, h) THEN h + 1 ELSE h
      PROVE  ReadAlone(units, line)
  <2>1. PICK c : c = LabelCandidate(frags, h, i, LastOf(frags, i), Len(units))
    OBVIOUS
  <2>2. c \in {LabelCandidate(frags, h, at, LastOf(frags, at), Len(units)) :
                 at \in {IF Joined(frags, h) THEN h + 1 ELSE h}}
    BY <1>4, <2>1
  <2>3. c \in TextCandidates(frags, Len(units))
    BY <1>4, <2>2 DEF TextCandidates
  <2>4. c.line = line /\ c.raw = line.rest /\ c.formula = FALSE
    BY <1>2, <2>1 DEF LabelCandidate, Candidate
  <2> QED BY <2>3, <2>4 DEF Candidates, ReadAlone
<1>5. CASE ~Joined(frags, i - 1)
  BY <1>3, <1>4, <1>5
<1>6. CASE Joined(frags, i - 1)
  <2>1. PICK h : h = i - 1
    OBVIOUS
  <2>2. h \in DOMAIN frags /\ h + 1 = i /\ Joined(frags, h)
    BY <1>1, <1>6, <2>1 DEF Joined
  <2>3. frags[h].line.own = <<>> /\ ~IsLabel(frags[h].line)
    BY <1>3, <2>2 DEF Joined
  <2>4. frags[h].line.as = "text"
    BY <1>1, <2>2, <2>3
  <2>5. ~Joined(frags, h - 1)
    <3>1. SUFFICES ASSUME Joined(frags, h - 1) PROVE FALSE
      OBVIOUS
    <3>2. (h - 1) + 1 = h
      BY <1>1, <2>1
    <3>3. frags[h].line.as = "tail" \/ IsLabel(frags[h].line)
      BY <3>1, <3>2 DEF Joined
    <3> QED BY <2>3, <2>4, <3>3
  <2> QED BY <1>4, <2>1, <2>2, <2>5
<1> QED BY <1>5, <1>6

-----------------------------------------------------------------------------
\* A normalized value takes its words, or its number, from the texts.
Holds(key, norm, texts) ==
  IF key \in Parties \cup Ports
  THEN Pieces(norm.words) \subseteq {text.words : text \in texts}
  ELSE \E text \in texts, factor \in {1} \cup {Factor[u] : u \in Measure} :
         norm.amount = text.num * factor

LEMMA IdentityEnds ==
  ASSUME NEW raw \in Seq(Text), raw # <<>>
  PROVE  IdentityEnd(raw) \in 2..(Len(raw) + 1)
PROOF
<1> DEFINE ends(e) == e = Len(raw) + 1 \/ ~GoesOn(raw, e)
           ending == {e \in 2..(Len(raw) + 1) : ends(e)}
<1>1. Len(raw) \in Nat /\ Len(raw) # 0
  OBVIOUS
<1>2. PICK m \in ending : \A k \in ending : m <= k
  <2>1. ending \in SUBSET Nat /\ Len(raw) + 1 \in ending
    BY <1>1
  <2> HIDE DEF ending
  <2> QED BY <2>1, SmallestMember
<1>3. \A i \in 2..(m - 1) : GoesOn(raw, i)
  <2> SUFFICES ASSUME NEW i \in 2..(m - 1), ~GoesOn(raw, i) PROVE FALSE
    OBVIOUS
  <2>1. i \in ending /\ i < m
    BY <1>1, <1>2
  <2> QED BY <1>2, <2>1
<1>4. m \in 2..(Len(raw) + 1) /\ (m = Len(raw) + 1 \/ ~GoesOn(raw, m))
  BY <1>2
<1> QED BY <1>3, <1>4 DEF IdentityEnd

LEMMA IdentityWords ==
  ASSUME NEW raw \in Seq(Text), raw # <<>>
  PROVE  Pieces(Words(PartyIdentity(raw))) \subseteq {text.words : text \in Pieces(raw)}
PROOF
<1>1. PICK n \in 0..Len(raw) : PartyIdentity(raw) = SubSeq(raw, 1, n) \/ PartyIdentity(raw) = <<>>
  <2>1. IdentityEnd(raw) - 1 \in 0..Len(raw)
    BY IdentityEnds
  <2> QED BY <2>1 DEF PartyIdentity
<1>2. PICK id : id = PartyIdentity(raw)
  OBVIOUS
<1>3. \A i \in DOMAIN id : i \in DOMAIN raw /\ id[i] = raw[i]
  <2>1. CASE id = SubSeq(raw, 1, n)
    <3>1. Len(raw) \in Nat /\ DOMAIN raw = 1..Len(raw)
      OBVIOUS
    <3>2. id = [i \in 1..n |-> raw[i]]
      BY <2>1, <3>1
    <3> QED BY <3>1, <3>2
  <2>2. CASE id = <<>>
    BY <2>2
  <2> QED BY <1>1, <1>2, <2>1, <2>2
<1>4. PICK words : words = Words(id)
  OBVIOUS
<1>5. \A i \in DOMAIN words : i \in DOMAIN id /\ words[i] = id[i].words
  BY <1>4 DEF Words
<1>6. \A w \in Pieces(words) : \E text \in Pieces(raw) : w = text.words
  BY <1>3, <1>5 DEF Pieces
<1> QED BY <1>2, <1>4, <1>6

LEMMA PresentIs ==
  /\ \A words, amount : /\ Present(words, amount).state = "PRESENT"
                        /\ Present(words, amount).norm.words = words
                        /\ Present(words, amount).norm.amount = amount
  /\ \A state, problem : /\ Unresolved(state, problem).state = state
                         /\ Unresolved(state, problem).problem = problem
  /\ \A problem : /\ Ambiguous(problem).state = "AMBIGUOUS"
                  /\ Ambiguous(problem).problem = problem
PROOF BY DEF Present, Unresolved, Ambiguous

\* The rule of a field.
LEMMA FieldRule ==
  ASSUME NEW key \in Fields
  PROVE  /\ key \in Parties \/ key \in Ports \/ key = Count \/ key = Weight
         /\ ~(key \in Parties /\ key \in Ports)
         /\ key \in Parties \cup Ports => key # Count /\ key # Weight
         /\ Count # Weight
PROOF BY KeysAssumption

LEMMA NormalCases ==
  ASSUME NEW key \in Fields, NEW c
  PROVE  \/ Normal(key, c) = Ambiguous("FORMULA_VALUE")
         \/ Normal(key, c) = Unresolved("MISSING", "MISSING_VALUE")
         \/ /\ ~Missing(c.raw)
            /\ \/ key \in Parties /\ Normal(key, c) = NormalParty(c.raw)
               \/ key = Count /\ Normal(key, c) = NormalCount(c.line, c.raw)
               \/ key = Weight /\ Normal(key, c) = NormalWeight(c.line, c.raw, c.table)
               \/ key \in Ports /\ Normal(key, c) = NormalPort(c.raw)
PROOF
<1>1. CASE c.formula
  BY <1>1 DEF Normal
<1>2. CASE ~c.formula /\ Missing(c.raw)
  BY <1>2 DEF Normal
<1>3. CASE ~c.formula /\ ~Missing(c.raw)
  <2>1. Normal(key, c) =
          CASE key \in Parties -> NormalParty(c.raw)
            [] key = Count -> NormalCount(c.line, c.raw)
            [] key = Weight -> NormalWeight(c.line, c.raw, c.table)
            [] key \in Ports -> NormalPort(c.raw)
    BY <1>3 DEF Normal
  <2>2. CASE key \in Parties
    BY <1>3, <2>1, <2>2, FieldRule
  <2>3. CASE key = Count
    BY <1>3, <2>1, <2>3, FieldRule
  <2>4. CASE key = Weight
    BY <1>3, <2>1, <2>4, FieldRule
  <2>5. CASE key \in Ports
    BY <1>3, <2>1, <2>5, FieldRule
  <2> QED BY <2>2, <2>3, <2>4, <2>5, FieldRule
<1> QED BY <1>1, <1>2, <1>3

LEMMA WeightIs ==
  ASSUME NEW line \in Line, NEW raw \in Seq(Text), NEW table
  PROVE  \/ \E problem \in {"TOTAL_WEIGHT_REQUIRED", "CONFLICTING_WEIGHT_UNITS",
                            "MISSING_WEIGHT_UNIT", "AMBIGUOUS_WEIGHT"} :
              NormalWeight(line, raw, table) = Ambiguous(problem)
         \/ \E i \in DOMAIN raw, u \in Measure :
              NormalWeight(line, raw, table) = Present(NoWords, raw[i].num * Factor[u])
PROOF
<1> DEFINE units == line.units \cup UNION {raw[i].units : i \in DOMAIN raw}
           stated == {i \in DOMAIN raw : raw[i].kind # "unit"}
           numbers == {i \in stated : stated = {i} /\ IsNumber(raw[i])}
           unit == IF units = {} THEN "kg" ELSE CHOOSE u \in units : TRUE
           at == CHOOSE i \in numbers : TRUE
<1>1. units \subseteq Measure
  <2>1. \A i \in DOMAIN raw : raw[i] \in Text
    OBVIOUS
  <2>2. \A i \in DOMAIN raw : raw[i].units \in SUBSET Measure
    BY <2>1 DEF Text
  <2>3. line.units \in SUBSET Measure
    BY LinesTyped
  <2> QED BY <2>2, <2>3
<1>2. unit \in Measure
  BY <1>1 DEF Measure
<1>3. numbers # {} => at \in DOMAIN raw
  OBVIOUS
<1>4. NormalWeight(line, raw, table) =
        IF table /\ ~line.total THEN Ambiguous("TOTAL_WEIGHT_REQUIRED")
        ELSE IF Cardinality(units) > 1 THEN Ambiguous("CONFLICTING_WEIGHT_UNITS")
        ELSE IF numbers = {}
        THEN Ambiguous(IF units = {} THEN "MISSING_WEIGHT_UNIT" ELSE "AMBIGUOUS_WEIGHT")
        ELSE Present(NoWords, raw[at].num * Factor[unit])
  BY DEF NormalWeight
<1> HIDE DEF units, numbers, unit, at
<1> QED BY <1>2, <1>3, <1>4

\* What a text states: a value is in it, and one that is not there has a problem.
LEMMA NormalIs ==
  ASSUME NEW key \in Fields, NEW c, c.line \in Line, c.raw \in Seq(Text)
  PROVE  /\ Normal(key, c).state = "PRESENT" => Holds(key, Normal(key, c).norm, Pieces(c.raw))
         /\ Normal(key, c).state # "PRESENT" => Normal(key, c).problem # ""
PROOF
<1>1. CASE \E state \in {"MISSING", "AMBIGUOUS"} : \E problem :
             problem # "" /\ Normal(key, c) = Unresolved(state, problem)
  <2>1. PICK state \in {"MISSING", "AMBIGUOUS"} : \E problem :
          problem # "" /\ Normal(key, c) = Unresolved(state, problem)
    BY <1>1
  <2>2. PICK problem : problem # "" /\ Normal(key, c) = Unresolved(state, problem)
    BY <2>1
  <2>3. /\ Unresolved(state, problem).state = state
        /\ Unresolved(state, problem).problem = problem
    BY DEF Unresolved
  <2>4. Normal(key, c).state = state /\ Normal(key, c).problem = problem
    BY ONLY <2>2, <2>3
  <2> QED BY ONLY <2>1, <2>2, <2>4
<1>2. ASSUME ~Missing(c.raw) PROVE c.raw # <<>>
  BY <1>2 DEF Missing
<1>3. CASE ~Missing(c.raw) /\ key \in Parties /\ Normal(key, c) = NormalParty(c.raw)
  <2>1. CASE PartyIdentity(c.raw) = <<>>
    BY <1>1, <1>3, <2>1 DEF NormalParty, Ambiguous
  <2>2. CASE PartyIdentity(c.raw) # <<>>
    <3>1. Normal(key, c) = Present(Words(PartyIdentity(c.raw)), 0)
      BY <1>3, <2>2 DEF NormalParty
    <3>2. Normal(key, c).state = "PRESENT" /\ Normal(key, c).norm.words = Words(PartyIdentity(c.raw))
      BY <3>1, PresentIs
    <3> QED BY <1>2, <1>3, <3>2, IdentityWords DEF Holds
  <2> QED BY <2>1, <2>2
<1>4. CASE key = Count /\ Normal(key, c) = NormalCount(c.line, c.raw)
  <2>1. CASE Normal(key, c) = Ambiguous("AMBIGUOUS_CONTAINER_COUNT")
    BY <1>1, <2>1 DEF Ambiguous
  <2>2. CASE Len(c.raw) = 1 /\ Normal(key, c) = Present(NoWords, c.raw[1].num)
    <3>1. Normal(key, c).state = "PRESENT" /\ Normal(key, c).norm.amount = c.raw[1].num
      BY <2>2, PresentIs
    <3>2. c.raw[1] \in Pieces(c.raw) /\ c.raw[1] \in Text
      <4>1. 1 \in DOMAIN c.raw
        BY <2>2
      <4> QED BY <4>1 DEF Pieces
    <3>3. c.raw[1].num \in Nat
      BY <3>2 DEF Text
    <3>4. c.raw[1].num = c.raw[1].num * 1
      BY <3>3
    <3>5. key \notin Parties \cup Ports
      BY <1>4, FieldRule
    <3> QED BY <3>1, <3>2, <3>4, <3>5 DEF Holds
  <2> QED BY <1>4, <2>1, <2>2 DEF NormalCount
<1>5. CASE key = Weight /\ Normal(key, c) = NormalWeight(c.line, c.raw, c.table)
  <2>1. CASE \E problem \in {"TOTAL_WEIGHT_REQUIRED", "CONFLICTING_WEIGHT_UNITS",
                            "MISSING_WEIGHT_UNIT", "AMBIGUOUS_WEIGHT"} :
               Normal(key, c) = Ambiguous(problem)
    BY <1>1, <2>1 DEF Ambiguous
  <2>2. ASSUME NEW i \in DOMAIN c.raw, NEW u \in Measure,
               Normal(key, c) = Present(NoWords, c.raw[i].num * Factor[u])
        PROVE  Normal(key, c).state = "PRESENT" /\ Holds(key, Normal(key, c).norm, Pieces(c.raw))
    <3>1. Normal(key, c).state = "PRESENT" /\ Normal(key, c).norm.amount = c.raw[i].num * Factor[u]
      BY <2>2, PresentIs
    <3>2. c.raw[i] \in Pieces(c.raw)
      BY DEF Pieces
    <3>3. key \notin Parties \cup Ports
      BY <1>5, FieldRule
    <3> QED BY <3>1, <3>2, <3>3 DEF Holds
  <2>3. \/ \E problem \in {"TOTAL_WEIGHT_REQUIRED", "CONFLICTING_WEIGHT_UNITS",
                            "MISSING_WEIGHT_UNIT", "AMBIGUOUS_WEIGHT"} :
               Normal(key, c) = Ambiguous(problem)
        \/ \E i \in DOMAIN c.raw, u \in Measure :
               Normal(key, c) = Present(NoWords, c.raw[i].num * Factor[u])
    BY <1>5, WeightIs
  <2> QED BY <2>1, <2>2, <2>3
<1>6. CASE key \in Ports /\ Normal(key, c) = NormalPort(c.raw)
  <2>1. CASE Len(c.raw) > 1
    BY <1>1, <1>6, <2>1 DEF NormalPort, Ambiguous
  <2>2. CASE ~(Len(c.raw) > 1)
    <3>1. Normal(key, c) = Present(Words(c.raw), 0)
      BY <1>6, <2>2 DEF NormalPort
    <3>2. Normal(key, c).state = "PRESENT" /\ Normal(key, c).norm.words = Words(c.raw)
      BY <3>1, PresentIs
    <3>3. Pieces(Words(c.raw)) \subseteq {text.words : text \in Pieces(c.raw)}
      BY DEF Words, Pieces
    <3> QED BY <1>6, <3>2, <3>3 DEF Holds
  <2> QED BY <2>1, <2>2
<1> QED BY <1>1, <1>3, <1>4, <1>5, <1>6, NormalCases DEF Ambiguous

LEMMA HoldsInMore ==
  ASSUME NEW key, NEW norm, NEW texts, NEW more, texts \subseteq more, Holds(key, norm, texts)
  PROVE  Holds(key, norm, more)
PROOF BY DEF Holds

\* What a value is, but for the table its line may follow.
LEMMA NormalAlone ==
  ASSUME NEW key \in Fields, NEW c, NEW d, d.line = c.line, d.raw = c.raw, d.formula = c.formula,
         ~d.table, Normal(key, c).state = "PRESENT"
  PROVE  Normal(key, d) = Normal(key, c)
PROOF
<1>1. CASE key # Weight
  BY <1>1 DEF Normal
<1>2. CASE key = Weight /\ (c.formula \/ Missing(c.raw))
  BY <1>2, PresentIs DEF Normal
<1>3. CASE key = Weight /\ ~c.formula /\ ~Missing(c.raw)
  <2>1. Normal(key, c) = NormalWeight(c.line, c.raw, c.table)
        /\ Normal(key, d) = NormalWeight(c.line, c.raw, d.table)
    BY <1>3, FieldRule DEF Normal
  <2>2. ~(c.table /\ ~c.line.total)
    BY <2>1, PresentIs DEF NormalWeight
  <2>3. ASSUME NEW t, ~(t /\ ~c.line.total)
        PROVE  NormalWeight(c.line, c.raw, t) = NormalWeight(c.line, c.raw, FALSE)
    BY <2>3 DEF NormalWeight
  <2>4. NormalWeight(c.line, c.raw, c.table) = NormalWeight(c.line, c.raw, FALSE)
    BY <2>2, <2>3
  <2>5. NormalWeight(c.line, c.raw, d.table) = NormalWeight(c.line, c.raw, FALSE)
    BY <2>3
  <2> QED BY <2>1, <2>4, <2>5
<1> QED BY <1>1, <1>2, <1>3

-----------------------------------------------------------------------------
\* What Decide makes of the candidates of a field.
LEMMA DecideIs ==
  ASSUME NEW key \in Fields, NEW items, IsFiniteSet(items),
         \A c \in items : c.line \in Line /\ c.raw \in Seq(Text)
  PROVE  /\ Decide(key, items).state = "PRESENT" =>
              items # {} /\ \A c \in items : Normal(key, c) = Decide(key, items)
         /\ Decide(key, items).state # "PRESENT" => Decide(key, items).problem # ""
PROOF
<1> DEFINE results == {Normal(key, c) : c \in items}
           conflict == \/ Cardinality(results) > 1
                       \/ \E c, d \in items : c.raw # d.raw /\ Normal(key, c).state # "PRESENT"
<1>1. Decide(key, items) =
        IF items = {} THEN Unresolved("MISSING", "FIELD_NOT_FOUND")
        ELSE IF conflict THEN Ambiguous("CONFLICTING_VALUES")
        ELSE CHOOSE result \in results : TRUE
  BY DEF Decide
<1>2. IsFiniteSet(results)
  <2>1. PICK f : f = [c \in items |-> Normal(key, c)]
    OBVIOUS
  <2>2. IsFiniteSet({f[c] : c \in items})
    BY FiniteImage
  <2>3. {f[c] : c \in items} = results
    BY <2>1
  <2> QED BY <2>2, <2>3
<1>3. CASE items = {}
  <2>1. Decide(key, items) = Unresolved("MISSING", "FIELD_NOT_FOUND")
    BY <1>1, <1>3
  <2> QED BY <2>1 DEF Unresolved
<1>4. CASE items # {} /\ conflict
  <2>1. Decide(key, items) = Ambiguous("CONFLICTING_VALUES")
    BY <1>1, <1>4
  <2> QED BY <2>1 DEF Ambiguous, Unresolved
<1>5. CASE items # {} /\ ~conflict
  <2>1. results # {} /\ ~(Cardinality(results) > 1)
    BY <1>5
  <2> HIDE DEF results, conflict
  <2>2. PICK result : result = CHOOSE r \in results : TRUE
    OBVIOUS
  <2>3. result \in results /\ Decide(key, items) = result
    BY <1>1, <1>5, <2>1, <2>2
  <2>4. \A r \in results : r = result
    <3>1. Cardinality(results) \in Nat /\ Cardinality(results) # 0
      BY <1>2, <2>1, FS_CardinalityType, FS_EmptySet
    <3>2. Cardinality(results) = 1
      BY <2>1, <3>1
    <3>3. \E x : results = {x}
      BY <1>2, <3>2, FS_Singleton
    <3> QED BY <2>3, <3>3
  <2>5. \A c \in items : Normal(key, c) = result
    BY <2>4 DEF results
  <2>6. PICK c \in items : TRUE
    BY <1>5
  <2>7. result.state # "PRESENT" => result.problem # ""
    BY <2>5, <2>6, NormalIs
  <2> QED BY <1>5, <2>3, <2>5, <2>7
<1> QED BY <1>3, <1>4, <1>5

\* A value nobody has to confirm is in the units it cites.
Sourced(units, key, row) ==
  row.state = "PRESENT" /\ ~row.needs =>
    Holds(key, row.norm, UNION {TextOf(units[cite.unit]) : cite \in row.cites})

\* Where the rules decided, all candidates that count say the same.
Decided(units, key, row) ==
  row.state = "PRESENT" /\ row.method = "rule" =>
    \A c, d \in Chosen(Candidates(units), key) :
      Normal(key, c).state = "PRESENT" /\ Normal(key, c) = Normal(key, d)

\* A value that is open has an issue of its field.
AskedAbout(result, key) ==
  \/ result.rows[key].state = "PRESENT" /\ ~result.rows[key].needs
  \/ \E issue \in result.issues : issue.field = key

IsResult(r) ==
  /\ r = [status |-> r.status, role |-> r.role, rows |-> r.rows, issues |-> r.issues, ai |-> r.ai]
  /\ r.rows = [key \in Fields |-> r.rows[key]]

\* What holds of every result of a document.
IsReading(file, result) ==
  /\ IsResult(result)
  /\ \A key \in Fields :
       /\ Sourced(file.units, key, result.rows[key])
       /\ Decided(file.units, key, result.rows[key])
       /\ result.role \in Role => AskedAbout(result, key)
  /\ \/ \A key \in Fields : result.rows[key].method # "gemini_vision"
     \/ file.suffix = "pdf" /\ result.status = "NO_USABLE_TEXT"

LEMMA RuleRows ==
  ASSUME NEW units, Sound(units), NEW key \in Fields,
         NEW items, items = Chosen(Candidates(units), key),
         NEW row, row = RuleRow(Decide(key, items), UnitsOf(items))
  PROVE  /\ Sourced(units, key, row) /\ Decided(units, key, row)
         /\ row.method = "rule" /\ row.needs = FALSE /\ row.state = Decide(key, items).state
         /\ row.state # "PRESENT" => Decide(key, items).problem # ""
PROOF
<1>1. items \subseteq Candidates(units)
  BY DEF Chosen, OfField
<1>2. IsFiniteSet(items)
  BY <1>1, CandidatesFinite DEF Sound
<1>3. \A c \in items : Rooted(units, c)
  BY <1>1, CandidatesRooted
<1>4. PICK n : n = Decide(key, items)
  OBVIOUS
<1>5. /\ n.state = "PRESENT" => items # {} /\ \A c \in items : Normal(key, c) = n
      /\ n.state # "PRESENT" => n.problem # ""
  BY <1>2, <1>3, <1>4, DecideIs DEF Rooted
<1>6. PICK cites : cites = {Cite(i, TRUE, TRUE) : i \in UnitsOf(items)}
  OBVIOUS
<1>7. /\ row.state = n.state /\ row.norm = n.norm /\ row.method = "rule"
      /\ row.needs = FALSE /\ row.cites = cites
  <2>1. row = Row(n, "rule", FALSE, cites)
    BY <1>4, <1>6 DEF RuleRow
  <2> QED BY <2>1 DEF Row
<1>8. ASSUME row.state = "PRESENT"
      PROVE  Holds(key, row.norm, UNION {TextOf(units[cite.unit]) : cite \in row.cites})
  <2>1. PICK c \in items : Normal(key, c) = n
    BY <1>5, <1>7, <1>8
  <2>2. Holds(key, n.norm, Pieces(c.raw))
    BY <1>3, <1>7, <1>8, <2>1, NormalIs DEF Rooted
  <2>3. Pieces(c.raw) \subseteq UNION {TextOf(units[i]) : i \in c.units}
    BY <1>3 DEF Rooted
  <2>4. \A i \in c.units : \E cite \in cites : cite.unit = i
    <3> SUFFICES ASSUME NEW i \in c.units PROVE \E cite \in cites : cite.unit = i
      OBVIOUS
    <3>1. i \in UnitsOf(items)
      BY <2>1 DEF UnitsOf
    <3>2. Cite(i, TRUE, TRUE) \in cites /\ Cite(i, TRUE, TRUE).unit = i
      BY <1>6, <3>1 DEF Cite
    <3> QED BY <3>2
  <2>5. Pieces(c.raw) \subseteq UNION {TextOf(units[cite.unit]) : cite \in cites}
    BY <2>3, <2>4
  <2> QED BY <1>7, <2>2, <2>5, HoldsInMore
<1>9. Decided(units, key, row)
  BY <1>5, <1>7 DEF Decided
<1> QED BY <1>4, <1>5, <1>7, <1>8, <1>9 DEF Sourced

-----------------------------------------------------------------------------
LEMMA UnreadableRows ==
  ASSUME NEW file, NEW status, NEW code
  PROVE  IsReading(file, Unreadable(status, code))
PROOF
<1>1. PICK row : row = Row(Unresolved("UNREADABLE", code), "rule", FALSE, {})
  OBVIOUS
<1>2. row.state = "UNREADABLE" /\ row.method = "rule"
  BY <1>1 DEF Row, Unresolved
<1>3. PICK r : r = Unreadable(status, code)
  OBVIOUS
<1>4. IsResult(r) /\ r.role = "none" /\ \A key \in Fields : r.rows[key] = row
  BY <1>1, <1>3 DEF Unreadable, Extracted, IsResult
<1> QED BY <1>2, <1>3, <1>4 DEF IsReading, Sourced, Decided, Role

LEMMA ReadableRows ==
  ASSUME NEW file, Sound(file.units), NEW role, NEW problem
  PROVE  IsReading(file, Readable(role, problem, FieldResults(Candidates(file.units))))
PROOF
<1> DEFINE items(key) == Chosen(Candidates(file.units), key)
           n(key) == Decide(key, items(key))
           row(key) == RuleRow(n(key), UnitsOf(items(key)))
<1>1. PICK results : results = FieldResults(Candidates(file.units))
  OBVIOUS
<1>2. \A key \in Fields : results[key].result = n(key) /\ results[key].cites = UnitsOf(items(key))
  BY <1>1 DEF FieldResults
<1>3. PICK r : r = Readable(role, problem, results)
  OBVIOUS
<1>4. IsResult(r) /\ r.rows = [key \in Fields |-> RuleRow(results[key].result, results[key].cites)]
  BY <1>3 DEF Readable, Extracted, IsResult
<1>5. \A key \in Fields : r.rows[key] = row(key)
  BY <1>2, <1>4
<1>6. ASSUME NEW key \in Fields, n(key).problem # ""
      PROVE  \E issue \in r.issues : issue.field = key
  <2>1. r.issues = {IssueOn(results[k].result.problem, k) :
                      k \in {k \in Fields : results[k].result.problem # ""}}
                   \cup When(problem # "", {IssueOn(problem, NoField)})
    BY <1>3 DEF Readable, Extracted
  <2>2. PICK issue : issue = IssueOn(results[key].result.problem, key)
    OBVIOUS
  <2>3. issue \in r.issues /\ issue.field = key
    BY <1>2, <1>6, <2>1, <2>2 DEF IssueOn
  <2> QED BY <2>3
<1>7. ASSUME NEW key \in Fields
      PROVE  /\ Sourced(file.units, key, row(key)) /\ Decided(file.units, key, row(key))
             /\ row(key).method = "rule" /\ row(key).needs = FALSE
             /\ row(key).state # "PRESENT" => n(key).problem # ""
  <2>1. PICK units : units = file.units
    OBVIOUS
  <2>2. PICK its : its = Chosen(Candidates(units), key)
    OBVIOUS
  <2>3. PICK own : own = RuleRow(Decide(key, its), UnitsOf(its))
    OBVIOUS
  <2>4. Sound(units)
    BY <2>1
  <2>5. Sourced(units, key, own) /\ Decided(units, key, own)
    <3>1. Sourced(units, key, own)
      BY <2>2, <2>3, <2>4, RuleRows
    <3>2. Decided(units, key, own)
      BY <2>2, <2>3, <2>4, RuleRows
    <3> QED BY <3>1, <3>2
  <2>6. own.method = "rule"
    BY <2>2, <2>3, <2>4, RuleRows
  <2>7. own.needs = FALSE
    BY <2>2, <2>3, <2>4, RuleRows
  <2>8. own.state # "PRESENT" => Decide(key, its).problem # ""
    BY <2>2, <2>3, <2>4, RuleRows
  <2> QED BY <2>1, <2>2, <2>3, <2>5, <2>6, <2>7, <2>8
<1> HIDE DEF row, n
<1>8. ASSUME NEW key \in Fields
      PROVE  /\ Sourced(file.units, key, r.rows[key]) /\ Decided(file.units, key, r.rows[key])
             /\ AskedAbout(r, key) /\ r.rows[key].method # "gemini_vision"
  BY <1>5, <1>6, <1>7 DEF AskedAbout
<1> QED BY <1>1, <1>3, <1>4, <1>8 DEF IsReading

LEMMA FirstIsReading ==
  ASSUME NEW file \in File, Sound(file.units), NEW expected
  PROVE  IsReading(file, ExtractDocument(file, expected))
PROOF
<1>1. \/ \E status, code : ExtractDocument(file, expected) = Unreadable(status, code)
      \/ \E role, problem : ExtractDocument(file, expected)
                              = Readable(role, problem, FieldResults(Candidates(file.units)))
  BY DEF ExtractDocument
<1> QED BY <1>1, UnreadableRows, ReadableRows

LEMMA TooLargeIsReading ==
  ASSUME NEW file, NEW result, IsReading(file, result)
  PROVE  IsReading(file, InputTooLarge(result))
PROOF
<1>1. PICK r : r = InputTooLarge(result)
  OBVIOUS
<1>2. IsResult(result)
  BY DEF IsReading
<1>3. /\ r = [status |-> result.status, role |-> result.role, rows |-> result.rows,
              issues |-> result.issues \cup {IssueOn("AI_INPUT_TOO_LARGE", NoField)},
              ai |-> result.ai]
  BY <1>1, <1>2 DEF InputTooLarge, IsResult
<1>4. /\ IsResult(r) /\ r.rows = result.rows /\ r.role = result.role /\ r.status = result.status
      /\ result.issues \subseteq r.issues
  BY <1>2, <1>3 DEF IsResult
<1>5. \A key \in Fields : AskedAbout(result, key) => AskedAbout(r, key)
  BY <1>4 DEF AskedAbout
<1> QED BY <1>1, <1>4, <1>5 DEF IsReading

\* A candidate of the text whose quote was found.
LEMMA TextRowIs ==
  ASSUME NEW units, Sound(units), NEW item \in TextCandidate, Verified(item, units)
  PROVE  /\ Sourced(units, item.field, TextRow(item))
         /\ TextRow(item).method = "gemini_text"
         /\ TextRow(item).needs \/ TextRow(item).state = "PRESENT"
PROOF
<1>1. item.field \in Fields /\ item.raw \in Seq(Text)
  BY DEF TextCandidate
<1>2. PICK c : c = Candidate(0, PlainLabel(item.field), item.raw, {}, FALSE, FALSE)
  OBVIOUS
<1>3. c.line = PlainLabel(item.field) /\ c.raw = item.raw
  BY <1>2 DEF Candidate
<1>4. PlainLabel(item.field) \in Line
  BY <1>1 DEF PlainLabel, Line, LineKind, Measure
<1>5. PICK n : n = NormalReview(item.field, item.raw)
  OBVIOUS
<1>6. n = Normal(item.field, c)
  BY <1>2, <1>5 DEF NormalReview
<1>7. n.state = "PRESENT" => Holds(item.field, n.norm, Pieces(item.raw))
  BY <1>1, <1>3, <1>4, <1>6, NormalIs
<1>8. PICK row : row = TextRow(item)
  OBVIOUS
<1>9. /\ row.state = n.state /\ row.norm = n.norm /\ row.method = "gemini_text"
      /\ row.needs = (n.state # "PRESENT") /\ row.cites = {Cite(item.unit, ~item.reflowed, TRUE)}
  BY <1>5, <1>8 DEF TextRow, Row
<1>10. Pieces(item.raw) \subseteq TextOf(units[item.unit])
  BY DEF Verified
<1>11. UNION {TextOf(units[cite.unit]) : cite \in row.cites} = TextOf(units[item.unit])
  BY <1>9 DEF Cite
<1> QED BY <1>7, <1>8, <1>9, <1>10, <1>11, HoldsInMore DEF Sourced

LEMMA TextIsReading ==
  ASSUME NEW file, Sound(file.units), NEW result, IsReading(file, result),
         NEW answer \in SUBSET TextCandidate
  PROVE  IsReading(file, ApplyText(result, answer, file.units))
PROOF
<1> DEFINE given == {item \in answer : item.raw # <<>>}
           found == {item \in given : Verified(item, file.units)}
           fields == {item.field : item \in given}
           itemOf(key) == CHOOSE item \in found : item.field = key
           unsure == {item \in found : TextRow(item).needs}
           has(key) == \E item \in found : item.field = key
           issues == {issue \in result.issues : issue.field \notin fields}
                       \cup {IssueOn("AI_QUOTE_UNVERIFIED", item.field) : item \in given \ found}
                       \cup {IssueOn("AI_TEXT_REVIEW_REQUIRED", item.field) : item \in unsure}
           rows == [key \in Fields |-> IF has(key) THEN TextRow(itemOf(key)) ELSE result.rows[key]]
<1>1. PICK r : r = ApplyText(result, answer, file.units)
  OBVIOUS
<1>2. IsResult(result)
  BY DEF IsReading
<1>3. r = [result EXCEPT !.rows = rows, !.issues = issues, !.ai = TRUE]
  BY <1>1 DEF ApplyText
<1>4. IsResult(r) /\ r.rows = rows /\ r.issues = issues /\ r.role = result.role
      /\ r.status = result.status
  <2> HIDE DEF issues
  <2>1. PICK s : s = rows
    OBVIOUS
  <2>2. s = [key \in Fields |-> s[key]]
    BY <2>1
  <2> HIDE DEF rows
  <2>3. r = [status |-> result.status, role |-> result.role, rows |-> rows, issues |-> issues,
             ai |-> TRUE]
    BY <1>2, <1>3 DEF IsResult
  <2> QED BY <2>1, <2>2, <2>3 DEF IsResult
<1>5. ASSUME NEW key \in Fields, has(key)
      PROVE  /\ r.rows[key] = TextRow(itemOf(key)) /\ itemOf(key) \in found
             /\ itemOf(key).field = key /\ itemOf(key) \in TextCandidate
             /\ Verified(itemOf(key), file.units)
  BY <1>4, <1>5
<1>6. \A key \in Fields : ~has(key) => r.rows[key] = result.rows[key]
  BY <1>4
<1>7. ASSUME NEW key \in Fields
      PROVE  /\ Sourced(file.units, key, r.rows[key]) /\ Decided(file.units, key, r.rows[key])
             /\ result.rows[key].method # "gemini_vision" => r.rows[key].method # "gemini_vision"
  <2>1. CASE has(key)
    <3>1. PICK item \in TextCandidate : item.field = key /\ Verified(item, file.units)
                                        /\ r.rows[key] = TextRow(item)
      BY <1>5, <2>1
    <3>2. Sourced(file.units, key, r.rows[key]) /\ r.rows[key].method = "gemini_text"
      BY <3>1, TextRowIs
    <3> QED BY <3>2 DEF Decided
  <2>2. CASE ~has(key)
    BY <1>6, <2>2 DEF IsReading
  <2> QED BY <2>1, <2>2
<1>8. ASSUME NEW key \in Fields, AskedAbout(result, key)
      PROVE  AskedAbout(r, key)
  <2>1. ASSUME NEW code, NEW item, item.field = key, IssueOn(code, item.field) \in issues
        PROVE  AskedAbout(r, key)
    <3> HIDE DEF issues
    <3>1. PICK issue : issue = IssueOn(code, item.field)
      OBVIOUS
    <3>2. issue \in r.issues /\ issue.field = key
      BY <1>4, <2>1, <3>1 DEF IssueOn
    <3> QED BY <3>2 DEF AskedAbout
  <2>2. CASE has(key)
    <3>1. PICK item \in found : item.field = key /\ r.rows[key] = TextRow(item)
      BY <1>5, <2>2
    <3>2. item \in TextCandidate /\ Verified(item, file.units)
      OBVIOUS
    <3>3. CASE TextRow(item).needs
      <4>1. item \in unsure
        BY <3>3
      <4>2. IssueOn("AI_TEXT_REVIEW_REQUIRED", item.field) \in issues
        BY <4>1
      <4> QED BY <2>1, <3>1, <4>2
    <3>4. CASE ~TextRow(item).needs
      BY <3>1, <3>2, <3>4, TextRowIs DEF AskedAbout
    <3> QED BY <3>3, <3>4
  <2>3. CASE ~has(key) /\ key \in fields
    <3>1. PICK item \in given : item.field = key
      BY <2>3
    <3>2. item \in given \ found
      BY <2>3, <3>1
    <3>3. IssueOn("AI_QUOTE_UNVERIFIED", item.field) \in issues
      BY <3>2
    <3> QED BY <2>1, <3>1, <3>3
  <2>4. CASE ~has(key) /\ key \notin fields
    <3>1. r.rows[key] = result.rows[key]
      BY <1>6, <2>4
    <3>2. \A issue \in result.issues : issue.field = key => issue \in r.issues
      BY <1>4, <2>4
    <3> QED BY <1>8, <3>1, <3>2 DEF AskedAbout
  <2> QED BY <2>2, <2>3, <2>4
<1> HIDE DEF rows, issues, has, itemOf, found, given, fields, unsure
<1> QED BY <1>1, <1>4, <1>7, <1>8 DEF IsReading

LEMMA VisionIsReading ==
  ASSUME NEW file, file.suffix = "pdf", NEW result, IsReading(file, result),
         result.status = "NO_USABLE_TEXT", NEW answer, NEW expected
  PROVE  IsReading(file, ApplyVision(result, answer, expected))
PROOF
<1> DEFINE code(key) == IF answer.fields[key].raw = <<>> THEN "AI_CANDIDATE_MISSING"
                        ELSE "AI_CONFIRMATION_REQUIRED"
           rows == [key \in Fields |-> VisionRow(key, answer.fields[key])]
           issues == {IssueOn(code(key), key) : key \in Fields}
             \cup When(answer.role = "none", {IssueOn("UNKNOWN_DOCUMENT_ROLE", NoField)})
             \cup When(answer.role # "none" /\ expected # "none" /\ answer.role # expected,
                       {IssueOn("DOCUMENT_ROLE_MISMATCH", NoField)})
<1>1. PICK r : r = ApplyVision(result, answer, expected)
  OBVIOUS
<1>2. IsResult(result)
  BY DEF IsReading
<1>3. r = [result EXCEPT !.role = answer.role, !.rows = rows, !.issues = issues, !.ai = TRUE]
  BY <1>1 DEF ApplyVision
<1>4. IsResult(r) /\ r.rows = rows /\ r.issues = issues /\ r.status = result.status
  <2> HIDE DEF issues
  <2>1. PICK s : s = rows
    OBVIOUS
  <2>2. s = [key \in Fields |-> s[key]]
    BY <2>1
  <2> HIDE DEF rows
  <2>3. r = [status |-> result.status, role |-> answer.role, rows |-> rows, issues |-> issues,
             ai |-> TRUE]
    BY <1>2, <1>3 DEF IsResult
  <2> QED BY <2>1, <2>2, <2>3 DEF IsResult
<1>5. ASSUME NEW key \in Fields
      PROVE  r.rows[key].needs = TRUE /\ r.rows[key].method = "gemini_vision"
  <2>1. PICK item : item = answer.fields[key]
    OBVIOUS
  <2>2. r.rows[key] = VisionRow(key, item)
    BY <1>4, <2>1
  <2>3. \E n, cites : VisionRow(key, item) = Row(n, "gemini_vision", TRUE, cites)
    BY DEF VisionRow
  <2> QED BY <2>2, <2>3 DEF Row
<1>6. ASSUME NEW key \in Fields
      PROVE  \E issue \in r.issues : issue.field = key
  <2>1. IssueOn(code(key), key) \in issues
    OBVIOUS
  <2> QED BY <1>4, <2>1 DEF IssueOn
<1> QED BY <1>1, <1>4, <1>5, <1>6 DEF IsReading, Sourced, Decided, AskedAbout
=============================================================================
