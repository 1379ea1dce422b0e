--------------------------- MODULE RevisionLemmas ---------------------------
(***************************************************************************)
(* The revisions of a document, divided at the active one.                 *)
(***************************************************************************)
EXTENDS Sequences, SequenceTheorems, TLAPS

\* When the last revision is active nothing is beyond it; when the one before
\* is, the two parts together are all revisions; and one that is added comes
\* after the active one (add_revision of documents/repository.py).
LEMMA Divided ==
  ASSUME NEW S, NEW revs \in Seq(S)
  PROVE  /\ SubSeq(revs, 1, Len(revs)) = revs
         /\ SubSeq(revs, Len(revs) + 1, Len(revs)) = << >>
         /\ \A a \in Nat :
              a + 1 = Len(revs)
              => /\ SubSeq(revs, 1, a) \o SubSeq(revs, a + 1, Len(revs)) = revs
                 /\ SubSeq(revs, a + 1, Len(revs)) # << >>
         /\ \A c \in S :
              /\ SubSeq(Append(revs, c), 1, Len(revs)) = revs
              /\ SubSeq(Append(revs, c), Len(revs) + 1, Len(revs) + 1) = <<c>>
<1>1. SubSeq(revs, 1, Len(revs)) = revs
  BY SubSeqFull
<1>2. SubSeq(revs, Len(revs) + 1, Len(revs)) = << >>
  BY SubSeqEmpty
<1>3. ASSUME NEW a \in Nat, a + 1 = Len(revs)
      PROVE  /\ SubSeq(revs, 1, a) \o SubSeq(revs, a + 1, Len(revs)) = revs
             /\ SubSeq(revs, a + 1, Len(revs)) # << >>
  <2>1. /\ 1 \in 1 .. Len(revs) + 1 /\ a \in 1 - 1 .. Len(revs)
        /\ Len(revs) \in a .. Len(revs)
    BY <1>3
  <2>2. SubSeq(revs, 1, a) \o SubSeq(revs, a + 1, Len(revs)) = revs
    BY <1>1, <2>1, ConcatAdjacentSubSeq
  <2>3. Len(SubSeq(revs, a + 1, Len(revs))) = 1
    BY <1>3, SubSeqProperties
  <2>4. Len(SubSeq(revs, a + 1, Len(revs))) # Len(<< >>)
    BY <2>3
  <2> QED BY <2>2, <2>4, Zenon
<1>4. ASSUME NEW c \in S
      PROVE  /\ SubSeq(Append(revs, c), 1, Len(revs)) = revs
             /\ SubSeq(Append(revs, c), Len(revs) + 1, Len(revs) + 1) = <<c>>
  <2> DEFINE longer == Append(revs, c)
             n == Len(revs)
  <2>1. /\ longer \in Seq(S) /\ Len(longer) = n + 1 /\ n \in Nat
        /\ \A i \in 1 .. n : longer[i] = revs[i]
        /\ longer[n + 1] = c
    BY AppendProperties
  <2>2. \A i \in 1 .. n + 1 : longer[i] \in S
    BY <2>1
  <2>3. SubSeq(longer, 1, n) = revs
    <3>1. /\ SubSeq(longer, 1, n) \in Seq(S)
          /\ Len(SubSeq(longer, 1, n)) = n
          /\ \A i \in 1 .. n : SubSeq(longer, 1, n)[i] = longer[i]
      BY <2>1, <2>2, SubSeqProperties
    <3> QED BY <2>1, <3>1, SeqEqual
  <2>4. SubSeq(longer, n + 1, n + 1) = <<c>>
    <3>1. /\ SubSeq(longer, n + 1, n + 1) \in Seq(S)
          /\ Len(SubSeq(longer, n + 1, n + 1)) = 1
          /\ SubSeq(longer, n + 1, n + 1)[1] = c
      BY <2>1, <2>2, SubSeqProperties
    <3>2. <<c>> \in Seq(S) /\ Len(<<c>>) = 1 /\ <<c>>[1] = c
      OBVIOUS
    <3>3. /\ Len(SubSeq(longer, n + 1, n + 1)) = Len(<<c>>)
          /\ \A i \in 1 .. Len(SubSeq(longer, n + 1, n + 1)) :
               SubSeq(longer, n + 1, n + 1)[i] = <<c>>[i]
      BY <3>1, <3>2
    <3> QED BY <3>1, <3>2, <3>3, SeqEqual, Zenon
  <2> QED BY <2>3, <2>4
<1> QED BY <1>1, <1>2, <1>3, <1>4
=============================================================================
