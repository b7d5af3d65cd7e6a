-------------------------- MODULE WatchtowerProofs --------------------------
(***************************************************************************)
(* The watchtower's record, for any commitments, requests, runs and bounds:*)
(* it can always be read back, it keeps the first spend signed for an      *)
(* unlock, and it agrees with the node on the signatures that left.  A cell*)
(* on the chain is what neither side has taken of it, and the device is    *)
(* paid for what it took.                                                  *)
(***************************************************************************)
EXTENDS Watchtower, FiniteSetTheorems, TLAPS

LastOf(R, view) == IF view = "remote" THEN R.remote ELSE R.local

(* A name of a commitment that was signed: once replaced, it is not        *)
(* registered again.                                                       *)
Known(R, name) ==
    /\ name = <<name[1], name[2]>> /\ name[1] \in {"remote", "local"} /\ name[2] \in Nat
    /\ LastOf(R, name[1]) # None /\ name[2] <= LastOf(R, name[1]).number

CommitmentOK(c, view) ==
    /\ c.view = view /\ c.number \in 0 .. MaxNumber
    /\ Len(c.body.entries) \in 0 .. MaxTlcs /\ DOMAIN c.body.entries = 1 .. Len(c.body.entries)
    /\ None \notin Range(c.body.entries)

(* The entry of a spend is one of its commitment's, while that is there. *)
SpendOK(R, s) ==
    /\ s = [request |-> s.request, purpose |-> s.purpose, view |-> s.view, number |-> s.number, entry |-> s.entry,
            tx |-> s.tx, remainder |-> s.remainder, signature |-> s.signature, applied |-> s.applied]
    /\ s.number \in 0 .. MaxNumber /\ Known(R, NameOf(s))
    /\ s.applied \in BOOLEAN /\ (s.applied => s.signature # Unsigned)
    /\ (s.entry = None) = (s.purpose[1] = "settlement")
    /\ s.remainder # None => LocksRemainder(s.remainder)
    /\ \A c \in Registered(R) : NameOf(c) = NameOf(s) => s.entry \in {None} \cup Range(c.body.entries)

(* One spend per request and per unlock. *)
Apart(S) == \A s, t \in S : s # t => s.request # t.request /\ ~SameUnlock(s, t)

CommitmentsOK(R) ==
    /\ R = [remote |-> R.remote, previous |-> R.previous, local |-> R.local, spends |-> R.spends]
    /\ R.remote # None => CommitmentOK(R.remote, "remote")
    /\ R.local # None => CommitmentOK(R.local, "local")
    /\ R.previous # None => /\ R.remote # None /\ CommitmentOK(R.previous, "remote")
                            /\ R.remote.number = R.previous.number + 1

RecordOK(R) ==
    /\ CommitmentsOK(R)
    /\ \A s \in R.spends : SpendOK(R, s)
    /\ Apart(R.spends)
    /\ IsFiniteSet(R.spends) /\ Cardinality(R.spends) <= 3 * (MaxTlcs + 1)

-----------------------------------------------------------------------------
(* The record's guard *)

(* It is a part of the invariant. *)
LEMMA GuardHolds ==
    ASSUME NEW R, RecordOK(R)
    PROVE  IsSpendList(R)
<1> USE SettlementAssumption
<1>1. IsPreviousRemoteCommitment(R)
  BY DEF RecordOK, CommitmentsOK, CommitmentOK, IsPreviousRemoteCommitment, IsCommitmentSource
<1>2. \A c \in {R.remote, R.local} : c # None => IsCommitmentSource(c)
  BY DEF RecordOK, CommitmentsOK, CommitmentOK, IsCommitmentSource
<1>3. \A s \in R.spends : IsSpend(R, s)
  BY DEF RecordOK, SpendOK, Known, NameOf, LastOf, IsSpend
<1> QED
  BY <1>1, <1>2, <1>3 DEF RecordOK, Apart, IsSpendList

(* No two registered commitments have the same name. *)
LEMMA NamesAreUnique ==
    ASSUME NEW R, CommitmentsOK(R), NEW c \in Registered(R), NEW d \in Registered(R), NameOf(c) = NameOf(d)
    PROVE  c = d
  BY DEF CommitmentsOK, CommitmentOK, Registered, NameOf

LEMMA UpTo ==
    ASSUME NEW n \in Nat
    PROVE  /\ IsFiniteSet(0 .. n) /\ Cardinality(0 .. n) = n + 1
           /\ IsFiniteSet(1 .. n) /\ Cardinality(1 .. n) = n
<1>1. 0 \in Int /\ 1 \in Int /\ n \in Int /\ ~(0 > n)
  OBVIOUS
<1>2. IsFiniteSet(0 .. n) /\ Cardinality(0 .. n) = IF 0 > n THEN 0 ELSE n - 0 + 1
  BY <1>1, FS_Interval
<1>3. IsFiniteSet(1 .. n) /\ Cardinality(1 .. n) = IF 1 > n THEN 0 ELSE n - 1 + 1
  BY <1>1, FS_Interval
<1> QED
  BY <1>1, <1>2, <1>3

(* The spends of registered commitments fit the guard: at most one for each*)
(* place a commitment is kept in and each unlock, the balance's or an      *)
(* entry's.                                                                *)
LEMMA SpendsFit ==
    ASSUME NEW R, CommitmentsOK(R), NEW S, Apart(S),
           \A s \in S : /\ IsRegistered(R, NameOf(s))
                        /\ \A c \in Registered(R) : NameOf(c) = NameOf(s) => s.entry \in {None} \cup Range(c.body.entries)
    PROVE  IsFiniteSet(S) /\ Cardinality(S) <= 3 * (MaxTlcs + 1)
<1> USE SettlementAssumption
<1> DEFINE Kept(k) == IF k = 1 THEN R.remote ELSE IF k = 2 THEN R.previous ELSE R.local
           Place(s) == CHOOSE k \in 1 .. 3 : Kept(k) # None /\ NameOf(Kept(k)) = NameOf(s)
           Entries(s) == Kept(Place(s)).body.entries
           Index(s) == IF s.entry = None THEN 0 ELSE CHOOSE i \in DOMAIN Entries(s) : Entries(s)[i] = s.entry
           f == [s \in S |-> <<Place(s), Index(s)>>]
           T == (1 .. 3) \X (0 .. MaxTlcs)
<1>1. ASSUME NEW s \in S
      PROVE  Place(s) \in 1 .. 3 /\ Kept(Place(s)) # None /\ NameOf(Kept(Place(s))) = NameOf(s)
  <2>1. PICK c \in Registered(R) : NameOf(c) = NameOf(s)
    BY DEF IsRegistered
  <2>2. \E k \in 1 .. 3 : Kept(k) = c
    <3>1. CASE c = R.remote
      <4>1. 1 \in 1 .. 3 /\ Kept(1) = c
        BY <3>1
      <4> QED BY <4>1
    <3>2. CASE c = R.previous
      <4>1. 2 \in 1 .. 3 /\ Kept(2) = c
        BY <3>2
      <4> QED BY <4>1
    <3>3. CASE c = R.local
      <4>1. 3 \in 1 .. 3 /\ Kept(3) = c
        BY <3>3
      <4> QED BY <4>1
    <3> QED BY <3>1, <3>2, <3>3 DEF Registered
  <2>3. \E k \in 1 .. 3 : Kept(k) # None /\ NameOf(Kept(k)) = NameOf(s)
    BY <2>1, <2>2 DEF Registered
  <2> HIDE DEF Kept
  <2> QED
    BY <2>3
<1>2. ASSUME NEW s \in S
      PROVE  /\ DOMAIN Entries(s) \subseteq 1 .. MaxTlcs
             /\ IF s.entry = None THEN Index(s) = 0
                ELSE Index(s) \in DOMAIN Entries(s) /\ Entries(s)[Index(s)] = s.entry
  <2> DEFINE c == Kept(Place(s))
  <2>1. c \in Registered(R) /\ NameOf(c) = NameOf(s)
    BY <1>1 DEF Registered
  <2>0. Entries(s) = c.body.entries
    OBVIOUS
  <2> HIDE DEF c, Entries, Place, Kept
  <2>2. Len(c.body.entries) \in 0 .. MaxTlcs /\ DOMAIN c.body.entries = 1 .. Len(c.body.entries)
    BY <2>1 DEF CommitmentsOK, CommitmentOK, Registered
  <2>3. s.entry \in {None} \cup Range(c.body.entries)
    BY <2>1
  <2>4. s.entry # None => \E i \in DOMAIN c.body.entries : c.body.entries[i] = s.entry
    BY <2>3 DEF Range
  <2>5. DOMAIN Entries(s) \subseteq 1 .. MaxTlcs
    BY <2>0, <2>2
  <2>6. s.entry # None => \E i \in DOMAIN Entries(s) : Entries(s)[i] = s.entry
    BY <2>0, <2>4
  <2> QED
    BY <2>5, <2>6
<1>3. \A s \in S : f[s] = <<Place(s), Index(s)>>
  OBVIOUS
<1> HIDE DEF Entries, Place, Kept, Index
<1>4. f \in [S -> T]
  BY <1>1, <1>2
<1> HIDE DEF f
<1>5. ASSUME NEW s \in S, NEW t \in S, f[s] = f[t] PROVE s = t
  <2>1. Place(s) = Place(t) /\ Index(s) = Index(t)
    BY <1>3, <1>5
  <2>2. NameOf(s) = NameOf(t)
    BY <2>1, <1>1 DEF NameOf
  <2>3. Entries(s) = Entries(t)
    BY <2>1 DEF Entries
  <2>4. s.entry = t.entry
    <3>1. CASE s.entry = None /\ t.entry = None
      BY <3>1
    <3>2. CASE s.entry # None /\ t.entry # None
      BY <3>2, <2>1, <2>3, <1>2
    <3>3. CASE (s.entry = None) # (t.entry = None)
      <4>1. 0 \notin DOMAIN Entries(s) /\ 0 \notin DOMAIN Entries(t)
        BY <1>2
      <4> QED
        BY <3>3, <4>1, <2>1, <1>2
    <3> QED
      BY <3>1, <3>2, <3>3
  <2> QED
    BY <2>2, <2>4 DEF Apart, SameUnlock
<1>6. f \in Injection(S, T)
  BY <1>4, <1>5 DEF Injection, IsInjective
<1>7. IsFiniteSet(T) /\ Cardinality(T) = 3 * (MaxTlcs + 1)
  <2>1. IsFiniteSet(1 .. 3) /\ Cardinality(1 .. 3) = 3
    BY UpTo
  <2>2. IsFiniteSet(0 .. MaxTlcs) /\ Cardinality(0 .. MaxTlcs) = MaxTlcs + 1
    BY UpTo
  <2>3. Cardinality(T) = Cardinality(1 .. 3) * Cardinality(0 .. MaxTlcs) /\ IsFiniteSet(T)
    BY <2>1, <2>2, FS_Product
  <2> QED
    BY <2>1, <2>2, <2>3
<1> HIDE DEF T
<1> QED
  BY <1>6, <1>7, FS_Injection

-----------------------------------------------------------------------------
(* What the writes of the record keep *)

(* The first spend signed for an unlock stays. *)
SignedStays(R, Q) ==
    \A s \in R.spends : s.signature # Unsigned /\ IsRegistered(Q, NameOf(s)) =>
        \E t \in Q.spends : t \in {s, [s EXCEPT !.applied = TRUE]}

(* No commitment is registered again. *)
Later(R, Q) ==
    \A view \in {"remote", "local"}, n \in Nat : Known(R, <<view, n>>) =>
        Known(Q, <<view, n>>) /\ (IsRegistered(Q, <<view, n>>) => IsRegistered(R, <<view, n>>))

SameCommitments(R, Q) == Q.remote = R.remote /\ Q.previous = R.previous /\ Q.local = R.local

LEMMA SameAreLater ==
    ASSUME NEW R, NEW Q, SameCommitments(R, Q)
    PROVE  Later(R, Q) /\ Registered(Q) = Registered(R)
  BY DEF SameCommitments, Later, Known, LastOf, IsRegistered, Registered

LEMMA NamesAreKnown ==
    ASSUME NEW R, CommitmentsOK(R), NEW c \in Registered(R)
    PROVE  Known(R, NameOf(c)) /\ c.number \in 0 .. MaxNumber
<1> USE TowerAssumption
<1>1. c.view \in {"remote", "local"} /\ c.number \in 0 .. MaxNumber
  BY DEF CommitmentsOK, CommitmentOK, Registered
<1>2. LastOf(R, c.view) # None /\ c.number <= LastOf(R, c.view).number
  BY <1>1 DEF CommitmentsOK, CommitmentOK, Registered, LastOf
<1> QED
  BY <1>1, <1>2 DEF Known, NameOf

(* pickSource: the source is registered, and lists the body's entries. *)
LEMMA SourceLists ==
    ASSUME NEW R, NEW a, NEW q, Passes(R, a, q)
    PROVE  /\ SourceOf(R, q.tx) \in Registered(R)
           /\ Range(q.tx.body.entries) \subseteq Range(SourceOf(R, q.tx).body.entries)
<1> DEFINE cands == Candidates(R, q.tx)
           named == {c \in cands : NamedBy(q.tx, c)}
           cs == IF named # {} THEN named ELSE cands
<1>1. cands # {} /\ cands \subseteq Registered(R)
  BY DEF Passes, Candidates
<1>2. cs # {} /\ cs \subseteq cands /\ SourceOf(R, q.tx) = First(R, cs)
  BY <1>1 DEF SourceOf
<1> HIDE DEF cs, cands
<1>3. First(R, cs) \in cs
  BY <1>1, <1>2 DEF First, Registered
<1>4. SourceOf(R, q.tx) \in Candidates(R, q.tx)
  BY <1>2, <1>3 DEF cands
<1> QED
  BY <1>4 DEF Candidates, Descends

(* decideWatchtowerSpend: a claim is of a registered commitment. *)
LEMMA ClaimIsOK ==
    ASSUME NEW R, RecordOK(R), NEW a, NEW q, Decodes(q), Passes(R, a, q)
    PROVE  /\ SpendOK(R, SpendOf(R, q)) /\ IsRegistered(R, NameOf(SpendOf(R, q)))
           /\ SpendOf(R, q).request = q.id /\ SpendOf(R, q).signature = Unsigned /\ SpendOf(R, q).applied = FALSE
<1> DEFINE c == SourceOf(R, q.tx)
           s == SpendOf(R, q)
           final == FinalParty(q.tx, ForRemote(c))
<1>1. c \in Registered(R) /\ Range(q.tx.body.entries) \subseteq Range(c.body.entries)
  BY SourceLists
<1>2. /\ s.request = q.id /\ s.purpose = q.purpose /\ s.signature = Unsigned /\ s.applied = FALSE
      /\ NameOf(s) = NameOf(c) /\ s.number = c.number
      /\ s.entry = IF q.tx.target.kind = "tlc" THEN q.tx.body.entries[q.tx.target.index] ELSE None
      /\ s.remainder = IF final THEN None ELSE Head(q.tx.outputs).lock
      /\ s = [request |-> s.request, purpose |-> s.purpose, view |-> s.view, number |-> s.number, entry |-> s.entry,
              tx |-> s.tx, remainder |-> s.remainder, signature |-> s.signature, applied |-> s.applied]
  BY DEF SpendOf, NameOf
<1>3. UnlockReads(q.tx) /\ KeyUnlocks(q.purpose, q.tx, ForRemote(c)) /\ (final \/ RemainderFits(c, q.tx))
  BY DEF Passes
<1> HIDE DEF c, s, final
<1>4. s.remainder # None => LocksRemainder(s.remainder)
  <2> SUFFICES ASSUME ~final PROVE LocksRemainder(s.remainder)
    BY <1>2
  <2>1. s.remainder = CommitmentLock(NameOf(c), NextBody(q.tx, ForRemote(c)), TRUE)
    BY <1>2, <1>3 DEF RemainderFits
  <2> QED
    BY <2>1 DEF LocksRemainder, CommitmentLock
<1>5. q.tx.target.kind = "tlc" => s.entry \in Range(c.body.entries)
  <2> SUFFICES ASSUME q.tx.target.kind = "tlc" PROVE s.entry \in Range(c.body.entries)
    OBVIOUS
  <2>1. q.tx.target.index \in DOMAIN q.tx.body.entries
    BY <1>3 DEF UnlockReads
  <2>2. q.tx.body.entries[q.tx.target.index] \in Range(q.tx.body.entries)
    BY <2>1 DEF Range
  <2> QED
    BY <2>2, <1>1, <1>2
<1>6. None \notin Range(c.body.entries)
  BY <1>1 DEF RecordOK, CommitmentsOK, CommitmentOK, Registered
<1>7. (s.entry = None) = (s.purpose[1] = "settlement")
  <2>1. CASE q.purpose[1] = "tlc"
    <3>1. q.tx.target.kind = "tlc"
      BY <2>1, <1>3 DEF KeyUnlocks, TlcKeyUnlocks
    <3> QED
      BY <2>1, <3>1, <1>2, <1>5, <1>6
  <2>2. CASE q.purpose[1] = "settlement"
    <3>1. q.tx.target = [kind |-> "balance", index |-> DeviceIndex(ForRemote(c))]
      BY <2>2, <1>3 DEF KeyUnlocks, BalanceUnlocks
    <3> QED
      BY <2>2, <3>1, <1>2
  <2> QED
    BY <2>1, <2>2 DEF Decodes
<1>8. s.entry \in {None} \cup Range(c.body.entries)
  BY <1>2, <1>5
<1>9. \A d \in Registered(R) : NameOf(d) = NameOf(s) => d = c
  BY <1>1, <1>2, NamesAreUnique DEF RecordOK
<1>10. Known(R, NameOf(s)) /\ s.number \in 0 .. MaxNumber
  BY <1>1, <1>2, NamesAreKnown DEF RecordOK
<1>11. SpendOK(R, s)
  BY <1>2, <1>4, <1>7, <1>8, <1>9, <1>10 DEF SpendOK
<1>12. IsRegistered(R, NameOf(s))
  BY <1>1, <1>2 DEF IsRegistered
<1> QED
  BY <1>2, <1>11, <1>12 DEF s

(* A spend is as good in another record of the same commitments. *)
LEMMA SpendStaysOK ==
    ASSUME NEW R, NEW Q, SameCommitments(R, Q), NEW s, SpendOK(R, s)
    PROVE  SpendOK(Q, s)
  BY DEF SameCommitments, SpendOK, Known, LastOf, Registered

LEMMA ClaimKeeps ==
    ASSUME NEW R, RecordOK(R), NEW a, NEW q, Decodes(q), Passes(R, a, q), IsFresh(R, q)
    PROVE  /\ RecordOK(Claim(R, q)) /\ SameCommitments(R, Claim(R, q)) /\ SignedStays(R, Claim(R, q))
           /\ \A s \in Claim(R, q).spends : s \in R.spends \/ (s.signature = Unsigned /\ s.applied = FALSE)
<1> DEFINE Q == Claim(R, q)
           new == SpendOf(R, q)
<1>1. /\ Q = [remote |-> R.remote, previous |-> R.previous, local |-> R.local, spends |-> Q.spends]
      /\ Q.spends = {s \in R.spends : ~SameUnlock(s, new) /\ IsRegistered(R, NameOf(s))} \cup {new}
      /\ SameCommitments(R, Q)
  BY DEF RecordOK, CommitmentsOK, Claim, SameCommitments
<1>2. /\ SpendOK(R, new) /\ IsRegistered(R, NameOf(new))
      /\ new.request = q.id /\ new.signature = Unsigned /\ new.applied = FALSE
  BY ClaimIsOK
<1> HIDE DEF Q, new
<1>3. CommitmentsOK(Q) /\ Registered(Q) = Registered(R)
  BY <1>1 DEF RecordOK, CommitmentsOK, Registered
<1>4. \A s \in Q.spends : SpendOK(R, s) /\ IsRegistered(R, NameOf(s))
  BY <1>1, <1>2 DEF RecordOK
<1>5. \A s \in Q.spends : SpendOK(Q, s)
  BY <1>1, <1>4, SpendStaysOK
<1>6. Apart(Q.spends)
  <2>1. \A s \in R.spends : s.request # q.id
    BY DEF IsFresh, SpendFor
  <2>2. Apart(R.spends)
    BY DEF RecordOK
  <2> QED
    BY <2>1, <2>2, <1>1, <1>2 DEF Apart, SameUnlock
<1>7. IsFiniteSet(Q.spends) /\ Cardinality(Q.spends) <= 3 * (MaxTlcs + 1)
  <2>1. CommitmentsOK(R)
    BY DEF RecordOK
  <2>2. \A s \in Q.spends : \A c \in Registered(R) : NameOf(c) = NameOf(s) => s.entry \in {None} \cup Range(c.body.entries)
    BY <1>4 DEF SpendOK
  <2> QED
    BY <2>1, <2>2, <1>4, <1>6, SpendsFit
<1>8. RecordOK(Q)
  BY <1>3, <1>5, <1>6, <1>7 DEF RecordOK
<1>9. SignedStays(R, Q)
  <2> SUFFICES ASSUME NEW s \in R.spends, s.signature # Unsigned, IsRegistered(Q, NameOf(s))
               PROVE  s \in Q.spends
    BY DEF SignedStays
  <2>1. IsRegistered(R, NameOf(s))
    BY <1>3 DEF IsRegistered
  <2>2. ~SameUnlock(s, new)
    BY DEF IsFresh, IsUnclaimed, new
  <2> QED
    BY <2>1, <2>2, <1>1
<1> QED
  BY <1>1, <1>2, <1>8, <1>9 DEF Q

(* A request's spend is put in place of the one it was. *)
Replaces(R, Q, s, t) ==
    /\ CommitmentsOK(Q) /\ SameCommitments(R, Q)
    /\ Q.spends = (R.spends \ {s}) \cup {t}
    /\ t.request = s.request /\ NameOf(t) = NameOf(s) /\ t.entry = s.entry

LEMMA RequestIsOne ==
    ASSUME NEW R, RecordOK(R), NEW s \in R.spends
    PROVE  \A x \in R.spends : x.request = s.request => x = s
  BY DEF RecordOK, Apart

LEMMA AppliedFields ==
    ASSUME NEW s, NEW b,
           s = [request |-> s.request, purpose |-> s.purpose, view |-> s.view, number |-> s.number, entry |-> s.entry,
                tx |-> s.tx, remainder |-> s.remainder, signature |-> s.signature, applied |-> s.applied]
    PROVE  [s EXCEPT !.applied = b]
               = [request |-> s.request, purpose |-> s.purpose, view |-> s.view, number |-> s.number, entry |-> s.entry,
                  tx |-> s.tx, remainder |-> s.remainder, signature |-> s.signature, applied |-> b]
  OBVIOUS

LEMMA ReplaceKeeps ==
    ASSUME NEW R, RecordOK(R), NEW Q, NEW s \in R.spends, NEW t, Replaces(R, Q, s, t), SpendOK(R, t),
           s.signature # Unsigned => t \in {s, [s EXCEPT !.applied = TRUE]}
    PROVE  RecordOK(Q) /\ SignedStays(R, Q)
<1>1. \A x \in Q.spends : SpendOK(Q, x)
  BY SpendStaysOK DEF Replaces, RecordOK
<1>2. Apart(Q.spends)
  <2>1. Apart(R.spends)
    BY DEF RecordOK
  <2> QED
    BY <2>1 DEF Apart, SameUnlock, Replaces
<1>3. IsFiniteSet(Q.spends) /\ Cardinality(Q.spends) <= 3 * (MaxTlcs + 1)
  <2> DEFINE f == [x \in R.spends |-> IF x = s THEN t ELSE x]
  <2>1. f \in Surjection(R.spends, Q.spends)
    BY DEF Replaces, Surjection
  <2>2. IsFiniteSet(R.spends) /\ Cardinality(R.spends) <= 3 * (MaxTlcs + 1)
    BY DEF RecordOK
  <2> HIDE DEF f
  <2>3. IsFiniteSet(Q.spends) /\ Cardinality(Q.spends) <= Cardinality(R.spends)
    BY <2>1, <2>2, FS_Surjection
  <2> QED
    BY <2>2, <2>3, FS_CardinalityType, SettlementAssumption
<1>4. RecordOK(Q)
  BY <1>1, <1>2, <1>3 DEF RecordOK, Replaces
<1>5. SignedStays(R, Q)
  BY DEF SignedStays, Replaces
<1> QED
  BY <1>4, <1>5

(* recordWatchtowerSignature *)
LEMMA SignKeeps ==
    ASSUME NEW R, RecordOK(R), NEW s \in R.spends, NEW sig, sig # Unsigned, s.signature \in {Unsigned, sig}
    PROVE  LET Q == SignSpend(R, s.request, sig)
               t == [s EXCEPT !.signature = sig]
           IN  /\ RecordOK(Q) /\ SignedStays(R, Q) /\ Replaces(R, Q, s, t)
               /\ t.signature = sig /\ t.applied = s.applied
<1> DEFINE Q == SignSpend(R, s.request, sig)
           t == [s EXCEPT !.signature = sig]
<1>1. SpendOK(R, s)
  BY DEF RecordOK
<1>2. /\ t = [request |-> s.request, purpose |-> s.purpose, view |-> s.view, number |-> s.number, entry |-> s.entry,
              tx |-> s.tx, remainder |-> s.remainder, signature |-> sig, applied |-> s.applied]
      /\ s.signature = sig => t = s
  BY <1>1 DEF SpendOK
<1> DEFINE spends == {IF x.request = s.request THEN [x EXCEPT !.signature = sig] ELSE x : x \in R.spends}
<1>3. spends = (R.spends \ {s}) \cup {t}
  BY RequestIsOne
<1>4. Q = [remote |-> R.remote, previous |-> R.previous, local |-> R.local, spends |-> spends]
  <2>1. Q = [R EXCEPT !.spends = spends]
    BY DEF SignSpend
  <2> HIDE DEF Q, spends
  <2> QED
    BY <2>1 DEF RecordOK, CommitmentsOK
<1> HIDE DEF spends
<1> HIDE DEF Q, t
<1>5. t.request = s.request /\ NameOf(t) = NameOf(s) /\ t.entry = s.entry /\ t.signature = sig /\ t.applied = s.applied
  BY <1>2 DEF NameOf
<1>6. Replaces(R, Q, s, t)
  BY <1>3, <1>4, <1>5 DEF Replaces, SameCommitments, RecordOK, CommitmentsOK
<1>7. SpendOK(R, t)
  <2>1. t = [request |-> t.request, purpose |-> t.purpose, view |-> t.view, number |-> t.number, entry |-> t.entry,
             tx |-> t.tx, remainder |-> t.remainder, signature |-> t.signature, applied |-> t.applied]
    BY <1>2
  <2>2. t.number = s.number /\ t.purpose = s.purpose /\ t.remainder = s.remainder
    BY <1>2
  <2> QED
    BY <1>1, <1>5, <2>1, <2>2 DEF SpendOK
<1>8. s.signature # Unsigned => t = s
  BY <1>2
<1>9. RecordOK(Q) /\ SignedStays(R, Q)
  BY <1>6, <1>7, <1>8, ReplaceKeeps
<1> QED
  BY <1>5, <1>6, <1>9 DEF Q, t

(* markWatchtowerSpendApplied *)
LEMMA ApplyKeeps ==
    ASSUME NEW R, RecordOK(R), NEW s \in R.spends, s.signature # Unsigned
    PROVE  LET Q == ApplySpend(R, s.request)
               t == [s EXCEPT !.applied = TRUE]
           IN  /\ RecordOK(Q) /\ SignedStays(R, Q) /\ Replaces(R, Q, s, t)
               /\ t.signature = s.signature
<1> DEFINE Q == ApplySpend(R, s.request)
           t == [s EXCEPT !.applied = TRUE]
<1>1. SpendOK(R, s)
  BY DEF RecordOK
<1>2. t = [request |-> s.request, purpose |-> s.purpose, view |-> s.view, number |-> s.number, entry |-> s.entry,
           tx |-> s.tx, remainder |-> s.remainder, signature |-> s.signature, applied |-> TRUE]
  BY <1>1, AppliedFields DEF SpendOK
<1> DEFINE spends == {IF x.request = s.request THEN [x EXCEPT !.applied = TRUE] ELSE x : x \in R.spends}
<1>3. spends = (R.spends \ {s}) \cup {t}
  BY RequestIsOne
<1>4. Q = [remote |-> R.remote, previous |-> R.previous, local |-> R.local, spends |-> spends]
  <2>1. Q = [R EXCEPT !.spends = spends]
    BY DEF ApplySpend
  <2> HIDE DEF Q, spends
  <2> QED
    BY <2>1 DEF RecordOK, CommitmentsOK
<1> HIDE DEF spends
<1>5. t \in {s, [s EXCEPT !.applied = TRUE]}
  OBVIOUS
<1> HIDE DEF Q, t
<1>6. t.request = s.request /\ NameOf(t) = NameOf(s) /\ t.entry = s.entry /\ t.signature = s.signature /\ t.applied = TRUE
  BY <1>2 DEF NameOf
<1>7. Replaces(R, Q, s, t)
  BY <1>3, <1>4, <1>6 DEF Replaces, SameCommitments, RecordOK, CommitmentsOK
<1>8. SpendOK(R, t)
  <2>1. t = [request |-> t.request, purpose |-> t.purpose, view |-> t.view, number |-> t.number, entry |-> t.entry,
             tx |-> t.tx, remainder |-> t.remainder, signature |-> t.signature, applied |-> t.applied]
    BY <1>2
  <2>2. t.number = s.number /\ t.purpose = s.purpose /\ t.remainder = s.remainder
    BY <1>2
  <2> QED
    BY <1>1, <1>6, <2>1, <2>2 DEF SpendOK
<1>9. RecordOK(Q) /\ SignedStays(R, Q)
  BY <1>5, <1>7, <1>8, ReplaceKeeps
<1> QED
  BY <1>6, <1>7, <1>9 DEF Q, t

-----------------------------------------------------------------------------
(* The commitments *)

LEMMA AscendingIsSeq ==
    ASSUME NEW S, IsFiniteSet(S)
    PROVE  Ascending(S) \in Seq(Range(Ascending(S))) /\ Len(Ascending(S)) = Cardinality(S)
<1> DEFINE At(i) == CHOOSE t \in S : Cardinality({u \in S : u.id < t.id}) = i - 1
           s == [i \in 1 .. Cardinality(S) |-> At(i)]
<1>1. Ascending(S) = s
  BY DEF Ascending
<1>2. Cardinality(S) \in Nat
  BY FS_CardinalityType
<1> HIDE DEF At
<1>3. s \in [1 .. Cardinality(S) -> Range(s)]
  BY DEF Range
<1> HIDE DEF s
<1>4. s \in Seq(Range(s)) /\ Len(s) = Cardinality(S)
  BY <1>2, <1>3
<1> QED
  BY <1>1, <1>4

(* orderTlcs lists every TLC. *)
LEMMA OrderedLength ==
    ASSUME NEW tlcs, IsFiniteSet(tlcs), NEW forRemote
    PROVE  DOMAIN OrderTlcs(tlcs, forRemote) = 1 .. Cardinality(tlcs) /\ Cardinality(tlcs) \in Nat
<1> DEFINE A == {t \in tlcs : t.direction = IF forRemote THEN "received" ELSE "offered"}
           B == tlcs \ A
<1>1. IsFiniteSet(A) /\ IsFiniteSet(B) /\ A \cap B = {} /\ A \cup B = tlcs
  BY FS_Subset
<1>2. OrderTlcs(tlcs, forRemote) = Ascending(A) \o Ascending(B)
  BY DEF OrderTlcs
<1> HIDE DEF A, B
<1>3. Cardinality(A) \in Nat /\ Cardinality(B) \in Nat /\ Cardinality(tlcs) = Cardinality(A) + Cardinality(B)
  <2>1. Cardinality(A) \in Nat /\ Cardinality(B) \in Nat
    BY <1>1, FS_CardinalityType
  <2>2. Cardinality(A \cap B) = 0
    BY <1>1, FS_EmptySet
  <2>3. Cardinality(A \cup B) = Cardinality(A) + Cardinality(B) - Cardinality(A \cap B)
    BY <1>1, FS_Union
  <2>4. Cardinality(tlcs) = Cardinality(A) + Cardinality(B) - 0
    BY <1>1, <2>2, <2>3, Zenon
  <2> QED
    BY <2>1, <2>4
<1>4. DOMAIN (Ascending(A) \o Ascending(B)) = 1 .. (Cardinality(A) + Cardinality(B))
  BY <1>1, <1>3, AscendingIsSeq
<1> QED
  BY <1>2, <1>3, <1>4

(* buildSettlementWitness: a commitment has an entry for each TLC, which   *)
(* settlementToCommitmentInput bounds.                                     *)
LEMMA CommitmentIsOK ==
    ASSUME NEW b \in Bounds, NEW s \in b.snapshots, SettlementFits(s),
           NEW view \in {"remote", "local"}, NEW n \in 0 .. MaxNumber
    PROVE  /\ Commitment(view, n, s) # None /\ CommitmentOK(Commitment(view, n, s), view)
           /\ Commitment(view, n, s).number = n
<1> DEFINE c == Commitment(view, n, s)
           tlcs == OrderTlcs(s.tlcs, view = "remote")
           entries == [i \in DOMAIN tlcs |-> TlcEntry(tlcs[i], view = "remote")]
<1>1. IsFiniteSet(s.tlcs) /\ c # None /\ None \notin Range(c.body.entries)
  BY CommitmentAssumption DEF IsSnapshot
<1>2. c.body.entries = entries /\ c.view = view /\ c.number = n
  BY DEF Commitment, CommitmentCell, SettlementBody
<1> HIDE DEF c, tlcs
<1>3. DOMAIN tlcs = 1 .. Cardinality(s.tlcs) /\ Cardinality(s.tlcs) \in Nat
  BY <1>1, OrderedLength DEF tlcs
<1>4. Len(entries) = Cardinality(s.tlcs) /\ DOMAIN entries = 1 .. Len(entries)
  BY <1>3
<1> HIDE DEF entries
<1>5. CommitmentOK(c, view)
  BY <1>1, <1>2, <1>3, <1>4, SettlementAssumption DEF CommitmentOK, SettlementFits
<1> QED
  BY <1>1, <1>2, <1>5 DEF c

(* nextCommitments: a remote commitment is kept beside the next one. *)
LEMMA CommitmentIn ==
    ASSUME NEW R, NEW Q, NEW c, NEW view \in {"remote", "local"},
           R = [remote |-> R.remote, previous |-> R.previous, local |-> R.local, spends |-> R.spends],
           Q = [R EXCEPT ![view] = c, !.previous = IF view = "remote" THEN R.remote ELSE @]
    PROVE  Q = IF view = "remote"
               THEN [remote |-> c, previous |-> R.remote, local |-> R.local, spends |-> R.spends]
               ELSE [remote |-> R.remote, previous |-> R.previous, local |-> c, spends |-> R.spends]
<1>1. ASSUME view = "remote"
      PROVE  Q = [remote |-> c, previous |-> R.remote, local |-> R.local, spends |-> R.spends]
  BY <1>1
<1>2. ASSUME view = "local"
      PROVE  Q = [remote |-> R.remote, previous |-> R.previous, local |-> c, spends |-> R.spends]
  BY <1>2
<1> QED
  BY <1>1, <1>2

(* The new commitment's number is after all of its view.  *)
LEMMA CommitmentKeeps ==
    ASSUME RecordOK(rec), bound \in Bounds,
           NEW view \in {"remote", "local"}, NEW s \in bound.snapshots, SignCommitment(view, s)
    PROVE  RecordOK(rec') /\ SignedStays(rec, rec') /\ Later(rec, rec') /\ rec'.spends = rec.spends
<1> USE TowerAssumption
<1> DEFINE n == NumberAfter(rec[view])
           c == Commitment(view, n, s)
<1>1. CommitmentsOK(rec) /\ rec[view] = LastOf(rec, view)
  BY DEF RecordOK, LastOf
<1>2. n \in Nat /\ (LastOf(rec, view) # None => n = LastOf(rec, view).number + 1)
  BY <1>1 DEF NumberAfter, CommitmentsOK, CommitmentOK, LastOf
<1>3. c.number <= MaxNumber /\ SettlementFits(s)
  BY DEF SignCommitment
<1>4. rec' = [rec EXCEPT ![view] = c, !.previous = IF view = "remote" THEN rec.remote ELSE @]
  BY DEF SignCommitment
<1> HIDE DEF n
<1>5. c.number = n
  BY DEF Commitment, CommitmentCell
<1>6. c # None /\ CommitmentOK(c, view)
  <2> HIDE DEF c
  <2>1. n \in 0 .. MaxNumber
    BY <1>2, <1>3, <1>5
  <2> USE DEF c
  <2> QED
    BY <1>3, <2>1, CommitmentIsOK
<1> HIDE DEF c
<1>7. rec = [remote |-> rec.remote, previous |-> rec.previous, local |-> rec.local, spends |-> rec.spends]
  BY <1>1 DEF CommitmentsOK
<1>8. rec' = IF view = "remote"
             THEN [remote |-> c, previous |-> rec.remote, local |-> rec.local, spends |-> rec.spends]
             ELSE [remote |-> rec.remote, previous |-> rec.previous, local |-> c, spends |-> rec.spends]
  BY <1>4, <1>7, CommitmentIn
<1>9. CommitmentsOK(rec')
  BY <1>1, <1>2, <1>5, <1>6, <1>8 DEF CommitmentsOK, CommitmentOK, LastOf
<1>10. Registered(rec') \subseteq Registered(rec) \cup {c} /\ rec'.spends = rec.spends
  BY <1>8 DEF Registered
<1>11. LastOf(rec', view) = c /\ \A v \in {"remote", "local"} : v # view => LastOf(rec', v) = LastOf(rec, v)
  BY <1>8 DEF LastOf
<1>12. ASSUME NEW v \in {"remote", "local"}, NEW m \in Nat, Known(rec, <<v, m>>)
       PROVE  Known(rec', <<v, m>>) /\ NameOf(c) # <<v, m>>
  <2>1. LastOf(rec, v) # None /\ m <= LastOf(rec, v).number
    BY <1>12 DEF Known
  <2>2. CASE v = view
    <3>1. n = LastOf(rec, v).number + 1 /\ LastOf(rec, v).number \in Nat
      <4>1. LastOf(rec, v).number \in 0 .. MaxNumber
        BY <1>1, <2>1 DEF CommitmentsOK, CommitmentOK, LastOf
      <4> QED
        BY <1>2, <2>1, <2>2, <4>1
    <3>2. m < n
      BY <2>1, <3>1
    <3>3. LastOf(rec', v) = c
      BY <1>11, <2>2
    <3> QED
      BY <1>2, <1>5, <1>6, <3>2, <3>3 DEF Known, NameOf
  <2>3. CASE v # view
    <3>1. LastOf(rec', v) = LastOf(rec, v)
      BY <1>11, <2>3
    <3> QED
      BY <1>6, <2>1, <2>3, <3>1 DEF Known, NameOf, CommitmentOK
  <2> QED
    BY <2>2, <2>3
<1>13. Later(rec, rec')
  BY <1>10, <1>12 DEF Later, IsRegistered
<1>14. ASSUME NEW x \in rec.spends
       PROVE  SpendOK(rec', x) /\ (IsRegistered(rec', NameOf(x)) => IsRegistered(rec, NameOf(x)))
  <2>1. SpendOK(rec, x)
    BY DEF RecordOK
  <2>2. x.view \in {"remote", "local"} /\ x.number \in Nat /\ Known(rec, <<x.view, x.number>>) /\ NameOf(x) = <<x.view, x.number>>
    BY <2>1 DEF SpendOK, Known, NameOf
  <2>3. Known(rec', NameOf(x)) /\ NameOf(c) # NameOf(x)
    BY <2>2, <1>12
  <2>4. \A d \in Registered(rec') : NameOf(d) = NameOf(x) => d \in Registered(rec)
    BY <2>3, <1>10
  <2> QED
    BY <2>1, <2>3, <2>4 DEF SpendOK, IsRegistered
<1>15. RecordOK(rec')
  BY <1>9, <1>10, <1>14 DEF RecordOK
<1>16. SignedStays(rec, rec')
  BY <1>10 DEF SignedStays
<1> QED
  BY <1>10, <1>13, <1>15, <1>16

-----------------------------------------------------------------------------
(* The inductive invariant: what the runs and the node hold, beside the    *)
(* record                                                                  *)

(* What left for a claim is the record's, while its commitment is there:   *)
(* the name that is not known any more is not registered again.            *)
Held(R, x) ==
    x.of # None =>
        /\ Known(R, x.of)
        /\ IsRegistered(R, x.of) => \E s \in R.spends : s.request = x.id /\ s.signature = x.sig /\ NameOf(s) = x.of

(* The one signature an honest request gets, whose id is its tx: the key   *)
(* is the unlock's (watchtower-spend.ts: "The tx fixes the unlock").       *)
SigOf(tx) ==
    <<IF tx.target.kind = "balance" THEN BaseKey
      ELSE tx.body.entries[tx.target.index].keys[DeviceIndex(tx.from[1][1] = "remote")], Raw(tx)>>

JobOK(x) ==
    /\ x = [id |-> x.id, tx |-> x.tx, sig |-> x.sig, of |-> x.of]
    /\ x.sig # Unsigned
    /\ lies = 0 => x.sig = SigOf(x.id)

RunOK(r) ==
    pc[r] # "idle" =>
        /\ JobOK(job[r])
        /\ pc[r] # "record" => Held(rec, job[r])
        /\ pc[r] = "mark" => job[r] \in sent

RunsOK ==
    /\ pc \in [Runs -> {"idle", "record", "submit", "mark"}] /\ DOMAIN job = Runs
    /\ \A r \in Runs : RunOK(r)

SentOK == \A x \in sent : JobOK(x) /\ Held(rec, x)

SpendsOK ==
    \A s \in Spends :
        /\ s.applied => \E x \in sent : x.id = s.request
        /\ lies = 0 => s.signature \in {Unsigned, SigOf(s.request)}

BoundsOK ==
    /\ approval \in Approvals /\ bound \in Bounds /\ abandoned \subseteq Runs
    /\ commits \in 0 .. bound.commits /\ lies \in 0 .. bound.lies /\ faults \in 0 .. bound.faults

IInv == BoundsOK /\ RecordOK(rec) /\ RunsOK /\ SentOK /\ SpendsOK

LEMMA InitOK == Init => IInv
<1> SUFFICES ASSUME Init PROVE IInv
  OBVIOUS
<1> USE SettlementAssumption, TowerAssumption DEF Init
<1>1. BoundsOK
  BY DEF BoundsOK
<1>2. RecordOK(rec)
  BY FS_EmptySet DEF RecordOK, CommitmentsOK, Apart
<1>3. RunsOK /\ SentOK /\ SpendsOK
  BY DEF RunsOK, RunOK, SentOK, SpendsOK, Spends
<1> QED
  BY <1>1, <1>2, <1>3 DEF IInv

(* A step that keeps the first signed spends keeps what left. *)
LEMMA HeldStays ==
    ASSUME NEW R, NEW Q, RecordOK(R), SignedStays(R, Q), Later(R, Q), NEW x, x.sig # Unsigned, Held(R, x)
    PROVE  Held(Q, x)
<1> SUFFICES ASSUME x.of # None PROVE Held(Q, x)
  BY DEF Held
<1>1. Known(R, x.of) /\ x.of = <<x.of[1], x.of[2]>> /\ x.of[1] \in {"remote", "local"} /\ x.of[2] \in Nat
  BY DEF Held, Known
<1>2. Known(Q, x.of) /\ (IsRegistered(Q, x.of) => IsRegistered(R, x.of))
  BY <1>1 DEF Later
<1>3. ASSUME IsRegistered(Q, x.of)
      PROVE  \E t \in Q.spends : t.request = x.id /\ t.signature = x.sig /\ NameOf(t) = x.of
  <2>1. PICK s \in R.spends : s.request = x.id /\ s.signature = x.sig /\ NameOf(s) = x.of
    BY <1>2, <1>3 DEF Held
  <2>2. PICK t \in Q.spends : t \in {s, [s EXCEPT !.applied = TRUE]}
    BY <1>3, <2>1 DEF SignedStays
  <2>3. t.request = s.request /\ t.signature = s.signature /\ NameOf(t) = NameOf(s)
    BY <2>2, AppliedFields DEF NameOf, RecordOK, SpendOK
  <2> QED
    BY <2>1, <2>3
<1> QED
  BY <1>2, <1>3 DEF Held

(* A run that goes on as it was, and every signature the node had. *)
LEMMA OthersKeep ==
    ASSUME IInv, SignedStays(rec, rec'), Later(rec, rec'), sent \subseteq sent', lies' = 0 => lies = 0
    PROVE  /\ \A r \in Runs : pc'[r] = pc[r] /\ job'[r] = job[r] => RunOK(r)'
           /\ \A x \in sent : JobOK(x)' /\ Held(rec', x)
<1>1. \A x : JobOK(x) => JobOK(x)'
  BY DEF JobOK
<1>2. \A x : JobOK(x) /\ Held(rec, x) => Held(rec', x)
  BY HeldStays DEF JobOK, IInv
<1> QED
  BY <1>1, <1>2 DEF IInv, RunsOK, RunOK, SentOK

(* SpendTx, under the key of its unlock. *)
LEMMA HonestSignature ==
    ASSUME NEW d, NEW q \in Honest(d)
    PROVE  q.id = q.tx /\ SignOnchain(q.purpose, q.tx) = SigOf(q.id)
<1> DEFINE forRemote == ForRemote(cell)
           tlcs == OrderTlcs(cell.left.tlcs, forRemote)
<1>1. PICK u \in Unlocks(cell), fee \in bound.fees : q = RequestFor(cell, u, fee, d)
  BY DEF Honest
<1>2. q.id = q.tx /\ q.purpose = u.purpose /\ q.tx = SpendTx(cell, u.share, u.target, u.preimage, fee, d)
  BY <1>1 DEF RequestFor
<1>3. q.tx.target = u.target /\ q.tx.body = cell.body /\ q.tx.from[1][1] = cell.view
  BY <1>2 DEF SpendTx, OutPoint, NameOf
<1>4. CASE u.target.kind = "tlc"
  <2>1. PICK i \in DOMAIN tlcs : /\ cell.body.entries[i] = TlcEntry(tlcs[i], forRemote)
                                 /\ u.purpose = <<"tlc", tlcs[i].number>> /\ u.target = [kind |-> "tlc", index |-> i]
    BY <1>4 DEF Unlocks
  <2> HIDE DEF tlcs
  <2>2. TlcEntry(tlcs[i], forRemote).keys[DeviceIndex(forRemote)] = TlcKey(tlcs[i].number)
    BY DEF TlcEntry, Pair, DeviceIndex
  <2>3. PurposeKey(u.purpose) = TlcKey(tlcs[i].number)
    BY <2>1 DEF PurposeKey, TlcKey
  <2> QED
    BY <1>2, <1>3, <2>1, <2>2, <2>3 DEF SignOnchain, SigOf, ForRemote
<1>5. CASE u.target.kind = "balance"
  <2>1. u.purpose = <<"settlement">>
    BY <1>5 DEF Unlocks
  <2> QED
    BY <1>2, <1>3, <1>5, <2>1 DEF SignOnchain, SigOf, PurposeKey
<1>6. u.target.kind \in {"tlc", "balance"}
  BY DEF Unlocks
<1> QED
  BY <1>4, <1>5, <1>6

(* A signature is not the null one. *)
LEMMA IsSigned == \A p, tx : SignOnchain(p, tx) # Unsigned
  BY DEF SignOnchain, Unsigned

-----------------------------------------------------------------------------
(* The steps *)

LEMMA BoundsKeep == BoundsOK /\ [Next]_vars => BoundsOK'
<1> SUFFICES ASSUME BoundsOK, [Next]_vars PROVE BoundsOK'
  OBVIOUS
<1> USE TowerAssumption DEF BoundsOK, chain, counters
<1>1. ASSUME NEW view, NEW s, SignCommitment(view, s) PROVE BoundsOK'
  <2>1. /\ commits < bound.commits /\ commits' = commits + 1
        /\ UNCHANGED <<approval, abandoned, bound, lies, faults>>
    BY <1>1 DEF SignCommitment
  <2> QED
    BY <2>1
<1>2. ASSUME NEW c, Broadcast(c) PROVE BoundsOK'
  BY <1>2 DEF Broadcast
<1>3. ASSUME NEW left, PeerTakes(left) PROVE BoundsOK'
  BY <1>3 DEF PeerTakes
<1>4. ASSUME NEW r \in Runs, AskHonest(r) PROVE BoundsOK'
  BY <1>4 DEF AskHonest, Ask
<1>5. ASSUME NEW r \in Runs, AskTwisted(r) PROVE BoundsOK'
  BY <1>5 DEF AskTwisted, Ask
<1>6. ASSUME NEW r \in Runs, Record(r) \/ RecordThrows(r) \/ Submit(r) \/ Mark(r) PROVE BoundsOK'
  BY <1>6 DEF Record, RecordThrows, Submit, Mark, End
<1>7. ASSUME NEW r \in Runs, ClaimLost(r) \/ Fails(r) \/ Abandon(r) PROVE BoundsOK'
  BY <1>7 DEF ClaimLost, Fails, Abandon, End, Fault
<1>8. ASSUME Crash PROVE BoundsOK'
  BY <1>8 DEF Crash, Fault
<1>9. ASSUME Land PROVE BoundsOK'
  BY <1>9 DEF Land, Lands
<1>10. CASE UNCHANGED vars
  BY <1>10 DEF vars
<1> QED
  BY <1>1, <1>2, <1>3, <1>4, <1>5, <1>6, <1>7, <1>8, <1>9, <1>10 DEF Next

Kept == RecordOK(rec') /\ RunsOK' /\ SentOK' /\ SpendsOK' /\ SignedStays(rec, rec')

LEMMA NothingWritten == RecordOK(rec) /\ rec' = rec => SignedStays(rec, rec') /\ Later(rec, rec')
  BY DEF SignedStays, Later

(* Steps that leave the record, the runs and the node as they were. *)
LEMMA QuietKeeps ==
    ASSUME IInv, UNCHANGED <<rec, pc, job, sent>>, lies' = 0 => lies = 0
    PROVE  Kept
<1>1. SignedStays(rec, rec') /\ Later(rec, rec')
  BY NothingWritten DEF IInv
<1>2. RunsOK' /\ SentOK'
  BY <1>1, OthersKeep DEF IInv, RunsOK, SentOK
<1>3. SpendsOK'
  BY DEF IInv, SpendsOK, Spends
<1> QED
  BY <1>1, <1>2, <1>3 DEF IInv, Kept

(* nextCommitments *)
LEMMA SignCommitmentKeeps ==
    ASSUME IInv, NEW view \in {"remote", "local"}, NEW s \in bound.snapshots, SignCommitment(view, s)
    PROVE  Kept
<1>1. RecordOK(rec') /\ SignedStays(rec, rec') /\ Later(rec, rec') /\ rec'.spends = rec.spends
  BY CommitmentKeeps DEF IInv, BoundsOK
<1>2. UNCHANGED <<pc, job, sent, lies>>
  BY DEF SignCommitment, chain
<1>3. RunsOK' /\ SentOK'
  BY <1>1, <1>2, OthersKeep DEF IInv, RunsOK, SentOK
<1>4. SpendsOK'
  BY <1>1, <1>2 DEF IInv, SpendsOK, Spends
<1> QED
  BY <1>1, <1>3, <1>4 DEF Kept

(* A run that is over, or a crash of all of them, with what it may have    *)
(* written and sent.                                                       *)
LEMMA EndsKeep ==
    ASSUME IInv, RecordOK(rec'), SignedStays(rec, rec'), Later(rec, rec'), SpendsOK',
           sent \subseteq sent', \A x \in sent' \ sent : JobOK(x) /\ Held(rec, x), lies' = lies,
           pc' \in [Runs -> {"idle", "record", "submit", "mark"}], DOMAIN job' = Runs,
           \A r \in Runs : pc'[r] = "idle" \/ (pc'[r] = pc[r] /\ job'[r] = job[r])
    PROVE  Kept
<1>1. RunsOK'
  <2>1. \A r \in Runs : pc'[r] = "idle" => RunOK(r)'
    BY DEF RunOK
  <2>2. \A r \in Runs : pc'[r] = pc[r] /\ job'[r] = job[r] => RunOK(r)'
    BY OthersKeep
  <2> QED
    BY <2>1, <2>2 DEF RunsOK
<1>2. SentOK'
  <2>1. \A x \in sent : JobOK(x)' /\ Held(rec', x)
    BY OthersKeep
  <2>2. ASSUME NEW x \in sent' \ sent PROVE JobOK(x)' /\ Held(rec', x)
    <3>1. JobOK(x) /\ Held(rec, x)
      BY <2>2
    <3>2. Held(rec', x)
      BY <3>1, HeldStays DEF JobOK, IInv
    <3> QED
      BY <3>1, <3>2 DEF JobOK
  <2> QED
    BY <2>1, <2>2 DEF SentOK
<1> QED
  BY <1>1, <1>2 DEF Kept

LEMMA EndRuns ==
    ASSUME IInv, NEW r \in Runs, End(r)
    PROVE  /\ pc' \in [Runs -> {"idle", "record", "submit", "mark"}] /\ DOMAIN job' = Runs
           /\ \A o \in Runs : pc'[o] = "idle" \/ (pc'[o] = pc[o] /\ job'[o] = job[o])
  BY DEF IInv, RunsOK, End, Go

(* A claim is neither signed nor applied. *)
LEMMA ClaimSpends ==
    ASSUME IInv, NEW q, Decodes(q), Passes(rec, approval, q), IsFresh(rec, q), rec' = Claim(rec, q),
           sent' = sent, lies' = 0 => lies = 0
    PROVE  RecordOK(rec') /\ SignedStays(rec, rec') /\ Later(rec, rec') /\ SpendsOK'
<1>1. /\ RecordOK(rec') /\ SameCommitments(rec, rec') /\ SignedStays(rec, rec')
      /\ \A s \in rec'.spends : s \in rec.spends \/ (s.signature = Unsigned /\ s.applied = FALSE)
  BY ClaimKeeps DEF IInv
<1>2. SpendsOK'
  BY <1>1 DEF IInv, SpendsOK, Spends
<1> QED
  BY <1>1, <1>2, SameAreLater

LEMMA OneSpend ==
    ASSUME RecordOK(rec), NEW id, NEW s \in SpendFor(rec, id)
    PROVE  s \in rec.spends /\ s.request = id /\ SpendOK(rec, s) /\ \A t \in SpendFor(rec, id) : t = s
  BY DEF SpendFor, RecordOK, Apart

(* handleWatchtower: a run submits what the record has, or records first. *)
LEMMA AskKeeps ==
    ASSUME IInv, NEW r \in Runs, NEW q, Ask(r, q),
           lies' = 0 => lies = 0 /\ SignOnchain(q.purpose, q.tx) = SigOf(q.id)
    PROVE  Kept
<1>1. UNCHANGED sent
  BY DEF Ask, chain
<1>2. RecordOK(rec') /\ SignedStays(rec, rec') /\ Later(rec, rec') /\ SpendsOK'
  <2>1. CASE IsFresh(rec, q) /\ rec' = Claim(rec, q)
    BY <1>1, <2>1, ClaimSpends DEF Ask
  <2>2. CASE rec' = rec
    BY <1>1, <2>2, NothingWritten DEF IInv, SpendsOK, Spends
  <2> QED
    BY <2>1, <2>2 DEF Ask
<1>3. \A o \in Runs \ {r} : RunOK(o)'
  <2>1. \A o \in Runs \ {r} : pc'[o] = pc[o] /\ job'[o] = job[o]
    BY DEF IInv, RunsOK, Ask, Go
  <2> QED
    BY <1>1, <1>2, <2>1, OthersKeep
<1>4. /\ pc' \in [Runs -> {"idle", "record", "submit", "mark"}] /\ DOMAIN job' = Runs
      /\ pc'[r] \in {"record", "submit"} /\ RunOK(r)'
  <2>1. CASE Recorded(q)
    <3>1. PICK s \in SpendFor(rec, q.id) : job' = [job EXCEPT ![r] = Job(q, s.signature, NameOf(s))] /\ Go(r, "submit")
      BY <2>1 DEF Ask
    <3>2. s \in rec.spends /\ s.request = q.id /\ SpendOK(rec, s) /\ s.signature # Unsigned
      BY <2>1, OneSpend DEF Recorded, IInv
    <3>3. rec' = rec
      BY <3>1 DEF Ask, IsFresh
    <3>4. lies' = 0 => s.signature = SigOf(q.id)
      BY <3>2 DEF IInv, SpendsOK, Spends
    <3>5. Held(rec', Job(q, s.signature, NameOf(s)))
      BY <3>2, <3>3 DEF Held, Job, SpendOK
    <3>6. JobOK(Job(q, s.signature, NameOf(s)))'
      BY <3>2, <3>4 DEF JobOK, Job
    <3>7. pc' = [pc EXCEPT ![r] = "submit"] /\ job'[r] = Job(q, s.signature, NameOf(s))
      BY <3>1 DEF Go, IInv, RunsOK
    <3> QED
      BY <3>1, <3>5, <3>6, <3>7 DEF RunOK, IInv, RunsOK
  <2>2. CASE ~Recorded(q)
    <3> DEFINE x == Job(q, SignOnchain(q.purpose, q.tx), None)
    <3>1. job' = [job EXCEPT ![r] = x] /\ (Go(r, "submit") \/ Go(r, "record"))
      BY <2>2 DEF Ask
    <3>2. x.of = None /\ x.id = q.id /\ x.sig = SignOnchain(q.purpose, q.tx) /\ x.sig # Unsigned
          /\ x = [id |-> x.id, tx |-> x.tx, sig |-> x.sig, of |-> x.of]
      BY IsSigned DEF Job
    <3> HIDE DEF x
    <3>3. JobOK(x)' /\ Held(rec', x)
      BY <3>2 DEF JobOK, Held
    <3>4. job'[r] = x /\ DOMAIN job' = Runs /\ pc'[r] \in {"submit", "record"}
          /\ pc' \in [Runs -> {"idle", "record", "submit", "mark"}]
      BY <3>1 DEF Go, IInv, RunsOK
    <3> QED
      BY <3>3, <3>4 DEF RunOK
  <2> QED
    BY <2>1, <2>2
<1>5. RunsOK'
  BY <1>3, <1>4 DEF RunsOK
<1>6. SentOK'
  BY <1>1, <1>2, OthersKeep DEF SentOK
<1> QED
  BY <1>2, <1>5, <1>6 DEF Kept

LEMMA ClaimLostKeeps ==
    ASSUME IInv, NEW r \in Runs, ClaimLost(r)
    PROVE  Kept
<1>1. PICK q : Decodes(q) /\ Passes(rec, approval, q) /\ IsFresh(rec, q) /\ rec' = Claim(rec, q)
  BY DEF ClaimLost
<1>2. UNCHANGED <<pc, job, sent, lies>>
  BY DEF ClaimLost, chain
<1>3. RecordOK(rec') /\ SignedStays(rec, rec') /\ Later(rec, rec') /\ SpendsOK'
  BY <1>1, <1>2, ClaimSpends
<1> QED
  BY <1>2, <1>3, EndsKeep DEF IInv, RunsOK

(* recordWatchtowerSignature: of the run's request, so that what the run   *)
(* then submits is the record's.                                           *)
LEMMA SignatureKeeps ==
    ASSUME IInv, NEW r \in Runs, pc[r] = "record", Recordable(r), rec' = WithSignature(r),
           sent' = sent, lies' = lies
    PROVE  /\ RecordOK(rec') /\ SignedStays(rec, rec') /\ Later(rec, rec') /\ SpendsOK'
           /\ \A s \in SpendFor(rec, job[r].id) :
                 Known(rec', NameOf(s))
                 /\ \E t \in rec'.spends : t.request = job[r].id /\ t.signature = job[r].sig /\ NameOf(t) = NameOf(s)
<1> DEFINE x == job[r]
<1>1. PICK s \in SpendFor(rec, x.id) : s.signature \in {Unsigned, x.sig}
  BY DEF Recordable
<1>2. s \in rec.spends /\ s.request = x.id /\ SpendOK(rec, s) /\ \A t \in SpendFor(rec, x.id) : t = s
  BY <1>1, OneSpend DEF IInv
<1>3. JobOK(x)
  BY DEF IInv, RunsOK, RunOK
<1> DEFINE t == [s EXCEPT !.signature = x.sig]
<1>4. /\ RecordOK(rec') /\ SignedStays(rec, rec') /\ Replaces(rec, rec', s, t)
      /\ t.signature = x.sig /\ t.applied = s.applied
  BY <1>1, <1>2, <1>3, SignKeeps DEF IInv, WithSignature, JobOK
<1> HIDE DEF t, x
<1>5. /\ SameCommitments(rec, rec') /\ rec'.spends = (rec.spends \ {s}) \cup {t}
      /\ t.request = s.request /\ NameOf(t) = NameOf(s)
  BY <1>4 DEF Replaces
<1>6. Later(rec, rec') /\ Known(rec', NameOf(s))
  BY <1>2, <1>5, SameAreLater DEF SameCommitments, SpendOK, Known, LastOf
<1>7. SpendsOK'
  BY <1>2, <1>3, <1>4, <1>5 DEF IInv, SpendsOK, Spends, JobOK
<1>8. \A u \in SpendFor(rec, x.id) :
         Known(rec', NameOf(u)) /\ \E v \in rec'.spends : v.request = x.id /\ v.signature = x.sig /\ NameOf(v) = NameOf(u)
  BY <1>2, <1>4, <1>5, <1>6
<1> QED
  BY <1>4, <1>6, <1>7, <1>8 DEF x

LEMMA RecordKeeps ==
    ASSUME IInv, NEW r \in Runs, Record(r)
    PROVE  Kept
<1>1. pc[r] = "record" /\ Recordable(r) /\ rec' = WithSignature(r) /\ Go(r, "submit") /\ UNCHANGED <<sent, lies>>
  BY DEF Record, chain, counters
<1>2. PICK s \in SpendFor(rec, job[r].id) : job' = [job EXCEPT ![r].of = NameOf(s)]
  BY DEF Record
<1>3. RecordOK(rec') /\ SignedStays(rec, rec') /\ Later(rec, rec') /\ SpendsOK'
  BY <1>1, SignatureKeeps
<1>4. /\ Known(rec', NameOf(s))
      /\ \E t \in rec'.spends : t.request = job[r].id /\ t.signature = job[r].sig /\ NameOf(t) = NameOf(s)
  BY <1>1, <1>2, SignatureKeeps
<1>5. JobOK(job[r])
  BY <1>1 DEF IInv, RunsOK, RunOK
<1>6. PICK x : x = [job[r] EXCEPT !.of = NameOf(s)]
  OBVIOUS
<1>7. x = [id |-> job[r].id, tx |-> job[r].tx, sig |-> job[r].sig, of |-> NameOf(s)]
  BY <1>5, <1>6 DEF JobOK
<1>8. /\ job'[r] = x /\ DOMAIN job' = Runs /\ pc' \in [Runs -> {"idle", "record", "submit", "mark"}]
      /\ pc'[r] = "submit" /\ \A o \in Runs \ {r} : pc'[o] = pc[o] /\ job'[o] = job[o]
  BY <1>1, <1>2, <1>6 DEF IInv, RunsOK, Go
<1>9. JobOK(x)' /\ Held(rec', x)
  BY <1>1, <1>4, <1>5, <1>7 DEF JobOK, Held
<1>10. RunsOK'
  <2>1. RunOK(r)'
    BY <1>8, <1>9 DEF RunOK
  <2>2. \A o \in Runs \ {r} : RunOK(o)'
    BY <1>1, <1>3, <1>8, OthersKeep
  <2> QED
    BY <1>8, <2>1, <2>2 DEF RunsOK
<1>11. SentOK'
  BY <1>1, <1>3, OthersKeep DEF SentOK
<1> QED
  BY <1>3, <1>10, <1>11 DEF Kept

(* markWatchtowerSpendApplied: of a request whose signature was submitted, *)
(* and which is the one signature of an honest node's request.             *)
LEMMA ApplicationKeeps ==
    ASSUME IInv, NEW r \in Runs, pc[r] = "mark", Markable(r), rec' = Applied(r), sent' = sent, lies' = lies
    PROVE  RecordOK(rec') /\ SignedStays(rec, rec') /\ Later(rec, rec') /\ SpendsOK'
<1> DEFINE x == job[r]
<1>1. PICK s \in SpendFor(rec, x.id) : s.applied \/ s.signature # Unsigned
  BY DEF Markable
<1>2. s \in rec.spends /\ s.request = x.id /\ s.signature # Unsigned
  BY <1>1, OneSpend DEF IInv, SpendOK
<1>3. x \in sent
  BY DEF IInv, RunsOK, RunOK
<1> DEFINE t == [s EXCEPT !.applied = TRUE]
<1>4. RecordOK(rec') /\ SignedStays(rec, rec') /\ Replaces(rec, rec', s, t) /\ t.signature = s.signature
  BY <1>2, ApplyKeeps DEF IInv, Applied
<1> HIDE DEF t, x
<1>5. /\ SameCommitments(rec, rec') /\ rec'.spends = (rec.spends \ {s}) \cup {t} /\ t.request = s.request
  BY <1>4 DEF Replaces
<1>6. SpendsOK'
  BY <1>2, <1>3, <1>4, <1>5 DEF IInv, SpendsOK, Spends
<1> QED
  BY <1>4, <1>5, <1>6, SameAreLater

LEMMA MarkKeeps ==
    ASSUME IInv, NEW r \in Runs, Mark(r)
    PROVE  Kept
<1>1. pc[r] = "mark" /\ End(r) /\ UNCHANGED <<sent, lies>>
  BY DEF Mark, chain, counters
<1>2. RecordOK(rec') /\ SignedStays(rec, rec') /\ Later(rec, rec') /\ SpendsOK'
  <2>1. CASE Markable(r) /\ rec' = Applied(r)
    BY <1>1, <2>1, ApplicationKeeps
  <2>2. CASE rec' = rec
    BY <1>1, <2>2, NothingWritten DEF IInv, SpendsOK, Spends
  <2> QED
    BY <2>1, <2>2 DEF Mark
<1> QED
  BY <1>1, <1>2, EndRuns, EndsKeep

(* Submitting sends what the run carries. *)
LEMMA SentKeeps ==
    ASSUME IInv, NEW r \in Runs, pc[r] = "submit", sent' \in {sent, Sent(r)}, rec' = rec, lies' = lies
    PROVE  /\ sent \subseteq sent' /\ (\A x \in sent' \ sent : JobOK(x) /\ Held(rec, x))
           /\ RecordOK(rec') /\ SignedStays(rec, rec') /\ Later(rec, rec') /\ SpendsOK'
<1>1. sent \subseteq sent' /\ sent' \subseteq sent \cup {job[r]}
  BY DEF Sent
<1>2. JobOK(job[r]) /\ Held(rec, job[r])
  BY DEF IInv, RunsOK, RunOK
<1>3. RecordOK(rec') /\ SignedStays(rec, rec') /\ Later(rec, rec')
  BY NothingWritten DEF IInv
<1>4. SpendsOK'
  BY <1>1 DEF IInv, SpendsOK, Spends
<1> QED
  BY <1>1, <1>2, <1>3, <1>4

LEMMA SubmitKeeps ==
    ASSUME IInv, NEW r \in Runs, Submit(r)
    PROVE  Kept
<1>1. pc[r] = "submit" /\ rec' = rec /\ lies' = lies /\ sent' \in {sent, Sent(r)}
  BY DEF Submit, counters
<1>2. /\ sent \subseteq sent' /\ (\A x \in sent' \ sent : JobOK(x) /\ Held(rec, x))
      /\ RecordOK(rec') /\ SignedStays(rec, rec') /\ Later(rec, rec') /\ SpendsOK'
  BY <1>1, SentKeeps
<1>3. CASE End(r)
  BY <1>1, <1>2, <1>3, EndRuns, EndsKeep
<1>4. CASE sent' = Sent(r) /\ Go(r, "mark") /\ job' = job
  <2>1. /\ pc' \in [Runs -> {"idle", "record", "submit", "mark"}] /\ DOMAIN job' = Runs /\ pc'[r] = "mark"
        /\ \A o \in Runs \ {r} : pc'[o] = pc[o] /\ job'[o] = job[o]
    BY <1>4 DEF IInv, RunsOK, Go
  <2>2. \A o \in Runs \ {r} : RunOK(o)'
    BY <1>1, <1>2, <2>1, OthersKeep
  <2>3. JobOK(job[r]) /\ Held(rec, job[r])
    BY <1>1 DEF IInv, RunsOK, RunOK
  <2>4. RunOK(r)'
    BY <1>1, <1>4, <2>1, <2>3 DEF RunOK, JobOK, Sent
  <2>5. SentOK'
    <3>1. \A x \in sent : JobOK(x)' /\ Held(rec', x)
      BY <1>1, <1>2, OthersKeep
    <3>2. \A x \in sent' \ sent : JobOK(x)' /\ Held(rec', x)
      BY <1>1, <1>2 DEF JobOK
    <3> QED
      BY <3>1, <3>2 DEF SentOK
  <2> QED
    BY <1>2, <2>1, <2>2, <2>4, <2>5 DEF Kept, RunsOK
<1> QED
  BY <1>3, <1>4 DEF Submit

(* Whatever landed of what failed. *)
LEMMA FailsKeeps ==
    ASSUME IInv, NEW r \in Runs, Fails(r)
    PROVE  Kept
<1>1. End(r) /\ lies' = lies
  BY DEF Fails
<1>2. CASE UNCHANGED <<rec, sent>>
  <2>1. SpendsOK'
    BY <1>1, <1>2 DEF IInv, SpendsOK, Spends
  <2> QED
    BY <1>1, <1>2, <2>1, NothingWritten, EndRuns, EndsKeep DEF IInv
<1>3. CASE pc[r] = "record" /\ Recordable(r) /\ rec' = WithSignature(r) /\ UNCHANGED sent
  <2>1. RecordOK(rec') /\ SignedStays(rec, rec') /\ Later(rec, rec') /\ SpendsOK'
    BY <1>1, <1>3, SignatureKeeps
  <2> QED
    BY <1>1, <1>3, <2>1, EndRuns, EndsKeep
<1>4. CASE pc[r] = "submit" /\ sent' = Sent(r) /\ UNCHANGED rec
  <2>1. /\ sent \subseteq sent' /\ (\A x \in sent' \ sent : JobOK(x) /\ Held(rec, x))
        /\ RecordOK(rec') /\ SignedStays(rec, rec') /\ Later(rec, rec') /\ SpendsOK'
    BY <1>1, <1>4, SentKeeps
  <2> QED
    BY <1>1, <2>1, EndRuns, EndsKeep
<1>5. CASE pc[r] = "mark" /\ Markable(r) /\ rec' = Applied(r) /\ UNCHANGED sent
  <2>1. RecordOK(rec') /\ SignedStays(rec, rec') /\ Later(rec, rec') /\ SpendsOK'
    BY <1>1, <1>5, ApplicationKeeps
  <2> QED
    BY <1>1, <1>5, <2>1, EndRuns, EndsKeep
<1> QED
  BY <1>2, <1>3, <1>4, <1>5 DEF Fails

LEMMA CrashKeeps ==
    ASSUME IInv, Crash
    PROVE  Kept
<1>1. /\ pc' = [r \in Runs |-> "idle"] /\ job' = [r \in Runs |-> None]
      /\ UNCHANGED <<rec, sent, lies>>
  BY DEF Crash, chain
<1>2. RecordOK(rec') /\ SignedStays(rec, rec') /\ Later(rec, rec') /\ SpendsOK'
  BY <1>1, NothingWritten DEF IInv, SpendsOK, Spends
<1>3. /\ pc' \in [Runs -> {"idle", "record", "submit", "mark"}] /\ DOMAIN job' = Runs
      /\ \A r \in Runs : pc'[r] = "idle"
  BY <1>1
<1> QED
  BY <1>1, <1>2, <1>3, EndsKeep

LEMMA NextKeeps == IInv /\ [Next]_vars => Kept
<1> SUFFICES ASSUME IInv, [Next]_vars PROVE Kept
  OBVIOUS
<1> USE DEF chain, counters
<1>1. ASSUME NEW view \in {"remote", "local"}, NEW s \in bound.snapshots, SignCommitment(view, s) PROVE Kept
  BY <1>1, SignCommitmentKeeps
<1>2. ASSUME NEW c, Broadcast(c) PROVE Kept
  BY <1>2, QuietKeeps DEF Broadcast
<1>3. ASSUME NEW left, PeerTakes(left) PROVE Kept
  BY <1>3, QuietKeeps DEF PeerTakes
<1>4. ASSUME NEW r \in Runs, AskHonest(r) PROVE Kept
  <2>1. PICK q \in Honest(approval.destination) : Ask(r, q)
    BY <1>4 DEF AskHonest
  <2>2. lies' = lies
    BY <1>4 DEF AskHonest
  <2> QED
    BY <2>1, <2>2, HonestSignature, AskKeeps
<1>5. ASSUME NEW r \in Runs, AskTwisted(r) PROVE Kept
  <2>1. PICK q : Ask(r, q)
    BY <1>5 DEF AskTwisted
  <2>2. lies' # 0
    BY <1>5, TowerAssumption DEF AskTwisted, IInv, BoundsOK
  <2> QED
    BY <2>1, <2>2, AskKeeps
<1>6. ASSUME NEW r \in Runs, RecordThrows(r) PROVE Kept
  <2>1. End(r) /\ UNCHANGED <<rec, sent, lies>>
    BY <1>6 DEF RecordThrows
  <2>2. SpendsOK'
    BY <2>1 DEF IInv, SpendsOK, Spends
  <2> QED
    BY <2>1, <2>2, NothingWritten, EndRuns, EndsKeep DEF IInv
<1>7. ASSUME NEW r \in Runs, Record(r) \/ Submit(r) \/ Mark(r) \/ ClaimLost(r) \/ Fails(r) PROVE Kept
  BY <1>7, RecordKeeps, SubmitKeeps, MarkKeeps, ClaimLostKeeps, FailsKeeps
<1>8. ASSUME NEW r \in Runs, Abandon(r) PROVE Kept
  BY <1>8, QuietKeeps DEF Abandon
<1>9. ASSUME Crash PROVE Kept
  BY <1>9, CrashKeeps
<1>10. ASSUME Land PROVE Kept
  BY <1>10, QuietKeeps DEF Land, Lands
<1>11. CASE UNCHANGED vars
  BY <1>11, QuietKeeps DEF vars
<1> QED
  BY <1>1, <1>2, <1>3, <1>4, <1>5, <1>6, <1>7, <1>8, <1>9, <1>10, <1>11 DEF Next

LEMMA StepOK == IInv /\ [Next]_vars => IInv'
  BY NextKeeps, BoundsKeep DEF IInv, Kept

-----------------------------------------------------------------------------
(* The record the device reads back at its next start is one it accepts:   *)
(* one spend per request and per unlock, each of a commitment that was     *)
(* signed, no more than the record may have.                               *)
THEOREM TowerReadsBack == Spec => []RecordReadsBack
<1>1. IInv => RecordReadsBack
  <2> SUFFICES ASSUME IInv PROVE RecordReadsBack
    OBVIOUS
  <2>1. IsSpendList(rec)
    BY GuardHolds DEF IInv
  <2>2. \A c \in Registered(rec) : c.number \in 0 .. MaxNumber
    BY NamesAreKnown DEF IInv, RecordOK
  <2>3. \A s \in Spends : s.view \in {"remote", "local"} /\ s.number \in 0 .. MaxNumber /\ s.applied \in BOOLEAN
    BY DEF IInv, RecordOK, SpendOK, Known, NameOf, Spends
  <2>4. TypeOK
    BY <2>2, <2>3 DEF IInv, RunsOK, BoundsOK, TypeOK
  <2> QED
    BY <2>1, <2>4 DEF RecordReadsBack
<1> QED
  BY <1>1, InitOK, StepOK, PTL DEF Spec

(* A signature that left is in the evidence while its commitment is        *)
(* registered, and a spend is marked applied only after the node was given *)
(* its signature, through lost writes, overlapping runs and crashes.       *)
THEOREM TowerKeepsUp == Spec => []RecordKeepsUp
<1>1. IInv => RecordKeepsUp
  <2> SUFFICES ASSUME IInv PROVE RecordKeepsUp
    OBVIOUS
  <2>1. SubmittedIsRecorded
    <3> SUFFICES ASSUME NEW x \in sent, x.of # None, IsRegistered(rec, x.of)
                 PROVE  \E e \in Evidence(rec).signatures : e.request = x.id /\ e.signature = x.sig
      BY DEF SubmittedIsRecorded
    <3>1. JobOK(x) /\ Held(rec, x)
      BY DEF IInv, SentOK
    <3>2. PICK s \in rec.spends : s.request = x.id /\ s.signature = x.sig
      BY <3>1 DEF Held
    <3> DEFINE e == [request |-> s.request, purpose |-> s.purpose, signature |-> s.signature, applied |-> s.applied]
    <3>3. s.signature # Unsigned
      BY <3>1, <3>2 DEF JobOK
    <3>4. e \in Evidence(rec).signatures
      BY <3>3 DEF Evidence
    <3> QED
      BY <3>2, <3>4
  <2>2. AppliedIsSent
    <3> SUFFICES ASSUME NEW s \in Spends, s.applied
                 PROVE  \E x \in sent : x.id = s.request /\ (lies = 0 => x.sig = s.signature)
      BY DEF AppliedIsSent
    <3>1. PICK x \in sent : x.id = s.request
      BY DEF IInv, SpendsOK
    <3>2. s.signature # Unsigned
      BY DEF IInv, RecordOK, SpendOK, Spends
    <3>3. lies = 0 => x.sig = SigOf(x.id) /\ s.signature = SigOf(s.request)
      BY <3>2 DEF IInv, SentOK, SpendsOK, JobOK
    <3> QED
      BY <3>1, <3>3
  <2> QED
    BY <2>1, <2>2 DEF RecordKeepsUp
<1> QED
  BY <1>1, InitOK, StepOK, PTL DEF Spec

(* The first spend signed for an unlock stays the record's, whatever the   *)
(* node asks next and whichever run writes last.                           *)
THEOREM TowerKeepsFirst == Spec => FirstSignedStays
<1>1. IInv /\ [Next]_vars =>
        [\A s \in Spends : (s.signature # Unsigned /\ IsRegistered(rec', NameOf(s))) =>
           \E t \in rec'.spends : t \in {s, [s EXCEPT !.applied = TRUE]}]_rec
  BY NextKeeps DEF Kept, SignedStays, Spends
<1> QED
  BY <1>1, InitOK, StepOK, PTL DEF Spec, FirstSignedStays

-----------------------------------------------------------------------------
(* orderTlcs: every TLC of a snapshot has one place, and keeps its order   *)
(* when another is gone                                                    *)

(* How many of some TLCs come before one. *)
Rank(S, t) == Cardinality({u \in S : u.id < t.id})

DifferById(S) == \A t, u \in S : t.id \in Nat /\ (t.id = u.id => t = u)

(* Ranks are places, each TLC's its own, in the order of ids. *)
LEMMA RanksAscend ==
    ASSUME NEW S, IsFiniteSet(S), DifferById(S), NEW t \in S
    PROVE  /\ Rank(S, t) \in 0 .. Cardinality(S) - 1
           /\ \A u \in S : Rank(S, t) = Rank(S, u) => t = u
           /\ \A u \in S : t.id < u.id => Rank(S, t) < Rank(S, u)
<1> DEFINE Below(x) == {u \in S : u.id < x.id}
<1>1. \A x \in S : Below(x) \in SUBSET S /\ IsFiniteSet(Below(x)) /\ Cardinality(Below(x)) \in Nat
  BY FS_Subset, FS_CardinalityType
<1>2. ASSUME NEW x \in S, NEW y \in S, x.id < y.id
      PROVE  Cardinality(Below(x)) < Cardinality(Below(y))
  <2>1. Below(x) \in SUBSET Below(y) /\ x \in Below(y) /\ x \notin Below(x)
    BY <1>2 DEF DifferById
  <2> HIDE DEF Below
  <2>2. Cardinality(Below(x)) <= Cardinality(Below(y)) /\ Cardinality(Below(x)) # Cardinality(Below(y))
    BY <1>1, <2>1, FS_Subset
  <2> QED
    BY <1>1, <2>2
<1>3. \A x \in S : Rank(S, x) = Cardinality(Below(x))
  BY DEF Rank
<1>4. t \notin Below(t)
  BY DEF DifferById
<1> HIDE DEF Below
<1>5. Cardinality(S) \in Nat /\ Cardinality(Below(t)) <= Cardinality(S) /\ Cardinality(Below(t)) # Cardinality(S)
  BY <1>1, <1>4, FS_Subset, FS_CardinalityType
<1>6. ASSUME NEW u \in S, Rank(S, t) = Rank(S, u) PROVE t = u
  <2>1. ~(t.id < u.id) /\ ~(u.id < t.id)
    BY <1>1, <1>2, <1>3, <1>6
  <2> QED
    BY <2>1 DEF DifferById
<1> QED
  BY <1>1, <1>2, <1>3, <1>5, <1>6

(* The list in ascending order has each TLC at its rank. *)
LEMMA AscendingAt ==
    ASSUME NEW S, IsFiniteSet(S), DifferById(S)
    PROVE  /\ \A i \in 1 .. Cardinality(S) : Ascending(S)[i] \in S /\ Rank(S, Ascending(S)[i]) = i - 1
           /\ \A t \in S : Ascending(S)[Rank(S, t) + 1] = t
<1> DEFINE n == Cardinality(S)
           f == [t \in S |-> Rank(S, t) + 1]
<1>1. n \in Nat /\ IsFiniteSet(1 .. n) /\ Cardinality(1 .. n) = n
  BY FS_CardinalityType, UpTo
<1> HIDE DEF n
<1>2. \A t \in S : Rank(S, t) \in 0 .. n - 1
  BY RanksAscend DEF n
<1>3. f \in [S -> 1 .. n]
  BY <1>1, <1>2
<1>4. \A t, u \in S : f[t] = f[u] => t = u
  <2>1. \A t, u \in S : f[t] = f[u] => Rank(S, t) = Rank(S, u)
    BY <1>1, <1>2
  <2> HIDE DEF f
  <2> QED
    BY <2>1, RanksAscend
<1>5. f \in Injection(S, 1 .. n)
  BY <1>3, <1>4 DEF Injection, IsInjective
<1>6. f \in Surjection(S, 1 .. n)
  <2> HIDE DEF f
  <2> QED
    BY <1>1, <1>5, FS_Injection DEF n
<1>7. ASSUME NEW i \in 1 .. n PROVE \E t \in S : Rank(S, t) = i - 1
  <2>1. PICK t \in S : f[t] = i
    BY <1>6 DEF Surjection
  <2>2. Rank(S, t) + 1 = i /\ Rank(S, t) \in 0 .. n - 1
    BY <1>2, <2>1
  <2> HIDE DEF f
  <2> QED
    BY <1>1, <2>2
<1>8. \A i \in 1 .. n : Ascending(S)[i] = CHOOSE t \in S : Rank(S, t) = i - 1
  BY DEF Ascending, Rank, n
<1>9. \A i \in 1 .. n : Ascending(S)[i] \in S /\ Rank(S, Ascending(S)[i]) = i - 1
  BY <1>7, <1>8
<1>10. ASSUME NEW t \in S PROVE Ascending(S)[Rank(S, t) + 1] = t
  <2> DEFINE r == Rank(S, t)
             i == r + 1
  <2>1. r \in 0 .. n - 1
    BY <1>2
  <2> HIDE DEF r
  <2>2. i \in 1 .. n /\ i - 1 = r
    BY <1>1, <2>1
  <2> HIDE DEF i
  <2>3. Ascending(S)[i] \in S /\ Rank(S, Ascending(S)[i]) = r
    BY <1>9, <2>2
  <2>4. Ascending(S)[i] = t
    BY <2>3, RanksAscend DEF r
  <2> QED
    BY <2>4 DEF i, r
<1> QED
  BY <1>9, <1>10 DEF n

(* Without one of them the list is the same, but for that one. *)
LEMMA AscendingWithout ==
    ASSUME NEW S, IsFiniteSet(S), DifferById(S), NEW k \in 1 .. Cardinality(S)
    PROVE  LET x == Ascending(S)[k]
               n == Cardinality(S)
           IN  /\ x \in S /\ IsFiniteSet(S \ {x}) /\ Cardinality(S \ {x}) = n - 1 /\ n \in Nat
               /\ \A i \in 1 .. n - 1 : Ascending(S \ {x})[i] = Ascending(S)[IF i < k THEN i ELSE i + 1]
<1> DEFINE x == Ascending(S)[k]
           n == Cardinality(S)
           T == S \ {x}
<1>1. x \in S /\ Rank(S, x) = k - 1
  BY AscendingAt
<1>2. n \in Nat /\ IsFiniteSet(T) /\ Cardinality(T) = n - 1
  BY <1>1, FS_RemoveElement, FS_CardinalityType
<1>3. DifferById(T)
  BY DEF DifferById
<1>4. k \in 1 .. n
  OBVIOUS
<1> HIDE DEF x, n
<1>5. ASSUME NEW t \in T PROVE Rank(T, t) = IF x.id < t.id THEN Rank(S, t) - 1 ELSE Rank(S, t)
  <2> DEFINE B == {u \in S : u.id < t.id}
             C == {u \in T : u.id < t.id}
  <2>1. IsFiniteSet(B) /\ Cardinality(B) = Rank(S, t) /\ Cardinality(C) = Rank(T, t)
    BY FS_Subset DEF Rank
  <2>2. x.id < t.id => x \in B /\ C = B \ {x}
    BY <1>1
  <2>3. ~(x.id < t.id) => C = B
    BY <1>1
  <2> HIDE DEF B, C
  <2> QED
    BY <2>1, <2>2, <2>3, FS_RemoveElement
<1>6. ASSUME NEW i \in 1 .. n - 1
      PROVE  Ascending(T)[i] = Ascending(S)[IF i < k THEN i ELSE i + 1]
  <2> DEFINE j == IF i < k THEN i ELSE i + 1
             t == Ascending(S)[j]
  <2>1. j \in 1 .. n /\ j # k
    BY <1>2, <1>4
  <2> HIDE DEF j
  <2>2. t \in S /\ Rank(S, t) = j - 1
    BY <2>1, AscendingAt DEF n
  <2> HIDE DEF t
  <2>3. t # x
    BY <2>1, <2>2, <1>1, <1>4
  <2>4. x.id < t.id <=> k < j
    <3>1. x.id < t.id => k - 1 < j - 1
      BY <1>1, <2>2, RanksAscend
    <3>2. t.id < x.id => j - 1 < k - 1
      BY <1>1, <2>2, RanksAscend
    <3>3. x.id \in Nat /\ t.id \in Nat /\ x.id # t.id
      BY <1>1, <2>2, <2>3 DEF DifferById
    <3> QED
      BY <3>1, <3>2, <3>3, <2>1, <1>4
  <2>5. t \in T /\ Rank(T, t) + 1 = i
    <3>1. Rank(T, t) = IF k < j THEN j - 2 ELSE j - 1
      BY <1>5, <2>1, <2>2, <2>3, <2>4
    <3> QED
      BY <3>1, <2>1, <2>2, <2>3, <1>4 DEF j
  <2>6. Ascending(T)[Rank(T, t) + 1] = t
    BY <1>2, <1>3, <2>5, AscendingAt
  <2> QED
    BY <2>5, <2>6 DEF t, j
<1> QED
  BY <1>1, <1>2, <1>6 DEF n, x

(* TLCs as IsSnapshot reads them, whatever was settled of them. *)
TlcsOK(tlcs) ==
    /\ IsFiniteSet(tlcs)
    /\ \A t \in tlcs : t.direction \in Directions /\ t.id \in Nat
    /\ \A t, u \in tlcs : t.direction = u.direction /\ t.id = u.id => t = u

FirstGroup(tlcs, forRemote) == {t \in tlcs : t.direction = IF forRemote THEN "received" ELSE "offered"}

(* One direction's TLCs come before the other's. *)
LEMMA OrderedGroups ==
    ASSUME NEW tlcs, TlcsOK(tlcs), NEW forRemote \in BOOLEAN
    PROVE  LET A == FirstGroup(tlcs, forRemote)
               B == tlcs \ A
           IN  /\ IsFiniteSet(A) /\ IsFiniteSet(B) /\ DifferById(A) /\ DifferById(B)
               /\ Cardinality(A) \in Nat /\ Cardinality(B) \in Nat /\ Cardinality(tlcs) = Cardinality(A) + Cardinality(B)
               /\ DOMAIN OrderTlcs(tlcs, forRemote) = 1 .. Cardinality(tlcs)
               /\ \A i \in 1 .. Cardinality(tlcs) :
                     OrderTlcs(tlcs, forRemote)[i] = IF i <= Cardinality(A) THEN Ascending(A)[i]
                                                     ELSE Ascending(B)[i - Cardinality(A)]
<1> DEFINE A == FirstGroup(tlcs, forRemote)
           B == tlcs \ A
<1>1. IsFiniteSet(tlcs) /\ IsFiniteSet(A) /\ IsFiniteSet(B) /\ A \cap B = {} /\ A \cup B = tlcs
  BY FS_Subset DEF TlcsOK, FirstGroup
<1>2. DifferById(A) /\ DifferById(B)
  BY DEF TlcsOK, FirstGroup, DifferById, Directions
<1>3. OrderTlcs(tlcs, forRemote) = Ascending(A) \o Ascending(B)
  BY DEF OrderTlcs, FirstGroup
<1> HIDE DEF A, B
<1>4. Cardinality(A) \in Nat /\ Cardinality(B) \in Nat /\ Cardinality(tlcs) = Cardinality(A) + Cardinality(B)
  <2>1. Cardinality(A) \in Nat /\ Cardinality(B) \in Nat
    BY <1>1, FS_CardinalityType
  <2>2. Cardinality(A \cap B) = 0
    BY <1>1, FS_EmptySet
  <2>3. Cardinality(A \cup B) = Cardinality(A) + Cardinality(B) - Cardinality(A \cap B)
    BY <1>1, FS_Union
  <2>4. Cardinality(tlcs) = Cardinality(A) + Cardinality(B) - 0
    BY <1>1, <2>2, <2>3, Zenon
  <2> QED
    BY <2>1, <2>4
<1>5. /\ Ascending(A) \in Seq(Range(Ascending(A))) /\ Len(Ascending(A)) = Cardinality(A)
      /\ Ascending(B) \in Seq(Range(Ascending(B))) /\ Len(Ascending(B)) = Cardinality(B)
  BY <1>1, AscendingIsSeq
<1> DEFINE both == Ascending(A) \o Ascending(B)
<1>6. /\ DOMAIN both = 1 .. Cardinality(A) + Cardinality(B)
      /\ \A i \in 1 .. Cardinality(A) + Cardinality(B) :
            both[i] = IF i <= Cardinality(A) THEN Ascending(A)[i] ELSE Ascending(B)[i - Cardinality(A)]
  BY <1>4, <1>5
<1> HIDE DEF both
<1> QED
  BY <1>1, <1>2, <1>3, <1>4, <1>6 DEF A, B, both

(* orderTlcs lists each of the TLCs. *)
LEMMA OrderedAt ==
    ASSUME NEW tlcs, TlcsOK(tlcs), NEW forRemote \in BOOLEAN
    PROVE  /\ \A i \in DOMAIN OrderTlcs(tlcs, forRemote) : OrderTlcs(tlcs, forRemote)[i] \in tlcs
           /\ \A t \in tlcs : \E i \in DOMAIN OrderTlcs(tlcs, forRemote) : OrderTlcs(tlcs, forRemote)[i] = t
<1> DEFINE A == FirstGroup(tlcs, forRemote)
           B == tlcs \ A
           a == Cardinality(A)
           b == Cardinality(B)
           n == Cardinality(tlcs)
           order == OrderTlcs(tlcs, forRemote)
<1>1. /\ IsFiniteSet(A) /\ IsFiniteSet(B) /\ DifferById(A) /\ DifferById(B)
      /\ a \in Nat /\ b \in Nat /\ n = a + b
      /\ DOMAIN order = 1 .. n
      /\ \A i \in 1 .. n : order[i] = IF i <= a THEN Ascending(A)[i] ELSE Ascending(B)[i - a]
  BY OrderedGroups
<1>2. A \subseteq tlcs /\ B \subseteq tlcs /\ A \cup B = tlcs
  BY DEF FirstGroup
<1> HIDE DEF A, B
<1>3. /\ \A i \in 1 .. a : Ascending(A)[i] \in A
      /\ \A t \in A : Ascending(A)[Rank(A, t) + 1] = t /\ Rank(A, t) \in 0 .. a - 1
      /\ \A i \in 1 .. b : Ascending(B)[i] \in B
      /\ \A t \in B : Ascending(B)[Rank(B, t) + 1] = t /\ Rank(B, t) \in 0 .. b - 1
  BY <1>1, AscendingAt, RanksAscend
<1> HIDE DEF a, b, n, order
<1>4. \A i \in 1 .. n : order[i] \in tlcs
  BY <1>1, <1>2, <1>3
<1>5. ASSUME NEW t \in A PROVE \E i \in 1 .. n : order[i] = t
  <2> DEFINE i == Rank(A, t) + 1
  <2>1. i \in 1 .. n /\ i <= a
    BY <1>1, <1>3
  <2>2. order[i] = Ascending(A)[i]
    BY <1>1, <2>1
  <2> HIDE DEF i
  <2>3. order[i] = t
    BY <1>3, <2>2 DEF i
  <2> QED
    BY <2>1, <2>3
<1>6. ASSUME NEW t \in B PROVE \E i \in 1 .. n : order[i] = t
  <2> DEFINE i == a + Rank(B, t) + 1
  <2>1. i \in 1 .. n /\ ~(i <= a) /\ i - a = Rank(B, t) + 1
    BY <1>1, <1>3
  <2>2. order[i] = Ascending(B)[i - a]
    BY <1>1, <2>1
  <2> HIDE DEF i
  <2>3. order[i] = t
    BY <1>3, <2>1, <2>2
  <2> QED
    BY <2>1, <2>3
<1> QED
  BY <1>1, <1>2, <1>4, <1>5, <1>6 DEF order

(* Without one of the TLCs it lists the others as before. *)
LEMMA OrderedWithout ==
    ASSUME NEW tlcs, TlcsOK(tlcs), NEW forRemote \in BOOLEAN, NEW k \in DOMAIN OrderTlcs(tlcs, forRemote)
    PROVE  LET order == OrderTlcs(tlcs, forRemote)
               rest == OrderTlcs(tlcs \ {order[k]}, forRemote)
               n == Cardinality(tlcs)
           IN  /\ n \in Nat /\ k \in 1 .. n /\ DOMAIN rest = 1 .. n - 1 /\ TlcsOK(tlcs \ {order[k]})
               /\ \A i \in 1 .. n - 1 : rest[i] = order[IF i < k THEN i ELSE i + 1]
<1> DEFINE A == FirstGroup(tlcs, forRemote)
           B == tlcs \ A
           a == Cardinality(A)
           b == Cardinality(B)
           n == Cardinality(tlcs)
           order == OrderTlcs(tlcs, forRemote)
           x == order[k]
           others == tlcs \ {x}
           C == FirstGroup(others, forRemote)
           D == others \ C
           rest == OrderTlcs(others, forRemote)
<1>1. /\ IsFiniteSet(A) /\ IsFiniteSet(B) /\ DifferById(A) /\ DifferById(B)
      /\ a \in Nat /\ b \in Nat /\ n = a + b
      /\ DOMAIN order = 1 .. n
      /\ \A i \in 1 .. n : order[i] = IF i <= a THEN Ascending(A)[i] ELSE Ascending(B)[i - a]
  BY OrderedGroups
<1>2. TlcsOK(others)
  BY FS_RemoveElement DEF TlcsOK
<1>3. /\ DOMAIN rest = 1 .. Cardinality(others) /\ Cardinality(others) = Cardinality(C) + Cardinality(D)
      /\ \A i \in 1 .. Cardinality(others) :
            rest[i] = IF i <= Cardinality(C) THEN Ascending(C)[i] ELSE Ascending(D)[i - Cardinality(C)]
  BY <1>2, OrderedGroups
<1>4. k \in 1 .. n
  BY <1>1
<1>5. C = A \ {x} /\ D = B \ {x}
  BY DEF FirstGroup
<1>6. A \cap B = {}
  OBVIOUS
<1> HIDE DEF A, B, C, D, a, b, n, order, x, rest, others
<1> DEFINE Goal == /\ n \in Nat /\ DOMAIN rest = 1 .. n - 1
                   /\ \A i \in 1 .. n - 1 : rest[i] = order[IF i < k THEN i ELSE i + 1]
<1>7. ASSUME k <= a PROVE Goal
  <2>1. x = Ascending(A)[k] /\ k \in 1 .. a
    BY <1>1, <1>4, <1>7 DEF x
  <2>2. /\ x \in A /\ Cardinality(A \ {x}) = a - 1
        /\ \A i \in 1 .. a - 1 : Ascending(A \ {x})[i] = Ascending(A)[IF i < k THEN i ELSE i + 1]
    BY <1>1, <2>1, AscendingWithout DEF a
  <2>3. D = B /\ Cardinality(D) = b
    BY <1>5, <1>6, <2>2 DEF b
  <2>4. Cardinality(C) = a - 1 /\ Cardinality(others) = n - 1
    BY <1>1, <1>3, <1>5, <2>2, <2>3
  <2>5. ASSUME NEW i \in 1 .. n - 1 PROVE rest[i] = order[IF i < k THEN i ELSE i + 1]
    <3>1. CASE i <= a - 1
      <4>1. i \in 1 .. a - 1 /\ i \in 1 .. Cardinality(others) /\ i <= Cardinality(C)
        BY <1>1, <2>4, <3>1
      <4>2. rest[i] = Ascending(C)[i]
        BY <1>3, <4>1
      <4>3. rest[i] = Ascending(A)[IF i < k THEN i ELSE i + 1]
        BY <1>5, <2>2, <4>1, <4>2
      <4> QED
        BY <1>1, <1>7, <3>1, <4>3
    <3>2. CASE ~(i <= a - 1)
      <4>1. rest[i] = Ascending(B)[i - (a - 1)]
        BY <1>1, <1>3, <2>3, <2>4, <3>2
      <4>2. ~(i < k) /\ i + 1 \in 1 .. n /\ ~(i + 1 <= a) /\ (i + 1) - a = i - (a - 1)
        BY <1>1, <1>4, <1>7, <3>2
      <4> QED
        BY <1>1, <4>1, <4>2
    <3> QED
      BY <3>1, <3>2
  <2> QED
    BY <1>1, <1>3, <2>4, <2>5
<1>8. ASSUME ~(k <= a) PROVE Goal
  <2> DEFINE j == k - a
  <2>1. x = Ascending(B)[j] /\ j \in 1 .. b
    BY <1>1, <1>4, <1>8 DEF x
  <2> HIDE DEF j
  <2>2. /\ x \in B /\ Cardinality(B \ {x}) = b - 1
        /\ \A i \in 1 .. b - 1 : Ascending(B \ {x})[i] = Ascending(B)[IF i < j THEN i ELSE i + 1]
    BY <1>1, <2>1, AscendingWithout DEF b
  <2>3. C = A /\ Cardinality(C) = a
    BY <1>5, <1>6, <2>2 DEF a
  <2>4. Cardinality(D) = b - 1 /\ Cardinality(others) = n - 1
    BY <1>1, <1>3, <1>5, <2>2, <2>3
  <2>5. ASSUME NEW i \in 1 .. n - 1 PROVE rest[i] = order[IF i < k THEN i ELSE i + 1]
    <3>1. CASE i <= a
      <4>1. rest[i] = Ascending(A)[i] /\ i < k
        BY <1>1, <1>3, <1>4, <1>8, <2>3, <2>4, <3>1
      <4> QED
        BY <1>1, <3>1, <4>1
    <3>2. CASE ~(i <= a)
      <4>5. i - a \in 1 .. b - 1 /\ i \in 1 .. Cardinality(others) /\ ~(i <= Cardinality(C))
        BY <1>1, <2>3, <2>4, <3>2
      <4>1. i - a \in 1 .. b - 1 /\ rest[i] = Ascending(B \ {x})[i - a]
        BY <1>3, <1>5, <2>3, <4>5
      <4>2. rest[i] = Ascending(B)[IF i - a < j THEN i - a ELSE i - a + 1]
        BY <2>2, <4>1
      <4>3. CASE i < k
        <5>1. i \in 1 .. n /\ i - a < j
          BY <1>1, <1>4, <4>3 DEF j
        <5> QED
          BY <1>1, <3>2, <4>2, <4>3, <5>1
      <4>4. CASE ~(i < k)
        <5>1. i + 1 \in 1 .. n /\ ~(i - a < j) /\ ~(i + 1 <= a) /\ (i + 1) - a = i - a + 1
          BY <1>1, <1>4, <3>2, <4>4 DEF j
        <5> QED
          BY <1>1, <4>2, <4>4, <5>1
      <4> QED
        BY <4>3, <4>4
    <3> QED
      BY <3>1, <3>2
  <2> QED
    BY <1>1, <1>3, <2>4, <2>5
<1>9. Goal
  BY <1>7, <1>8
<1> QED
  BY <1>2, <1>4, <1>9 DEF n, rest, order, others, x
-----------------------------------------------------------------------------
(* What a spend leaves of a cell *)

(* What is before and after a place of a sequence. *)
LEMMA Split ==
    ASSUME NEW S, NEW s \in Seq(S), NEW k \in 1 .. Len(s)
    PROVE  /\ \A i \in 1 .. k - 1 : SubSeq(s, 1, k - 1)[i] = s[i]
           /\ \A i \in 1 .. Len(s) - k : SubSeq(s, k + 1, Len(s))[i] = s[i + k]
           /\ SubSeq(s, 1, k - 1) \in Seq(S) /\ Len(SubSeq(s, 1, k - 1)) = k - 1
           /\ SubSeq(s, k + 1, Len(s)) \in Seq(S) /\ Len(SubSeq(s, k + 1, Len(s))) = Len(s) - k
<1>1. SubSeq(s, 1, k - 1) = [i \in 1 .. k - 1 |-> s[i]]
  OBVIOUS
<1>2. SubSeq(s, k + 1, Len(s)) = [i \in 1 .. Len(s) - k |-> s[i + k]]
  OBVIOUS
<1>3. SubSeq(s, 1, k - 1) \in Seq(S) /\ Len(SubSeq(s, 1, k - 1)) = k - 1
  OBVIOUS
<1>4. SubSeq(s, k + 1, Len(s)) \in Seq(S) /\ Len(SubSeq(s, k + 1, Len(s))) = Len(s) - k
  OBVIOUS
<1>5. \A i \in 1 .. k - 1 : SubSeq(s, 1, k - 1)[i] = s[i]
  BY <1>1
<1>6. \A i \in 1 .. Len(s) - k : SubSeq(s, k + 1, Len(s))[i] = s[i + k]
  BY <1>2
<1> QED
  BY <1>3, <1>4, <1>5, <1>6

(* What RemoveAt leaves, place by place. *)
LEMMA RemovedAt ==
    ASSUME NEW n \in Nat, NEW s, s = [i \in 1 .. n |-> s[i]], NEW k \in 1 .. n
    PROVE  RemoveAt(s, k) = [i \in 1 .. n - 1 |-> s[IF i < k THEN i ELSE i + 1]]
<1> DEFINE T == Range(s)
<1>1. s \in Seq(T) /\ Len(s) = n
  <2>1. s \in [1 .. n -> T]
    BY DEF Range
  <2> HIDE DEF T
  <2> QED
    BY <2>1
<1> DEFINE before == SubSeq(s, 1, k - 1)
           after == SubSeq(s, k + 1, Len(s))
           both == before \o after
<1> HIDE DEF T
<1>2. k \in 1 .. Len(s)
  BY <1>1
<1>3. /\ \A i \in 1 .. k - 1 : before[i] = s[i]
      /\ \A i \in 1 .. Len(s) - k : after[i] = s[i + k]
      /\ before \in Seq(T) /\ Len(before) = k - 1 /\ after \in Seq(T) /\ Len(after) = Len(s) - k
  <2> USE Split
  <2>1. \A i \in 1 .. k - 1 : before[i] = s[i]
    BY <1>1, <1>2, Zenon
  <2>2. \A i \in 1 .. Len(s) - k : after[i] = s[i + k]
    BY <1>1, <1>2, Zenon
  <2>3. before \in Seq(T) /\ Len(before) = k - 1
    BY <1>1, <1>2, Zenon
  <2>4. after \in Seq(T) /\ Len(after) = Len(s) - k
    BY <1>1, <1>2, Zenon
  <2> QED
    BY <2>1, <2>2, <2>3, <2>4
<1> HIDE DEF before, after
<1>4. (\A i \in 1 .. k - 1 : before[i] = s[i]) /\ before \in Seq(T) /\ Len(before) = k - 1
  BY <1>3
<1>5. (\A i \in 1 .. n - k : after[i] = s[i + k]) /\ after \in Seq(T) /\ Len(after) = n - k
  BY <1>3, <1>1
<1>6. RemoveAt(s, k) = both
  BY DEF RemoveAt, before, after
<1>7. /\ both \in Seq(T) /\ Len(both) = (k - 1) + (n - k)
      /\ \A i \in 1 .. (k - 1) + (n - k) : both[i] = IF i <= k - 1 THEN before[i] ELSE after[i - (k - 1)]
  BY <1>4, <1>5
<1>8. (k - 1) + (n - k) = n - 1
  OBVIOUS
<1> HIDE DEF both
<1>9. both = [i \in 1 .. n - 1 |-> both[i]]
  BY <1>7, <1>8
<1>10. ASSUME NEW i \in 1 .. n - 1 PROVE both[i] = s[IF i < k THEN i ELSE i + 1]
  <2>1. CASE i < k
    <3>1. i <= k - 1 /\ i \in 1 .. k - 1
      BY <2>1
    <3> QED
      BY <1>4, <1>7, <1>8, <2>1, <3>1
  <2>2. CASE ~(i < k)
    <3>1. i - (k - 1) \in 1 .. n - k /\ i - (k - 1) + k = i + 1 /\ ~(i <= k - 1)
      BY <2>2
    <3>2. both[i] = after[i - (k - 1)]
      BY <1>7, <1>8, <3>1
    <3> QED
      BY <1>5, <2>2, <3>1, <3>2
  <2> QED
    BY <2>1, <2>2
<1> QED
  BY <1>6, <1>9, <1>10

(* What is left of a snapshot: the balance may be taken. *)
LeftOK(left) ==
    /\ left = [local |-> left.local, remote |-> left.remote, localKey |-> left.localKey, tlcs |-> left.tlcs]
    /\ left.local \in Nat \cup {Taken}
    /\ TlcsOK(left.tlcs)

(* The body without a TLC's entry is the body of what is left without it.   *)
LEMMA EntryRemoved ==
    ASSUME NEW left, LeftOK(left), NEW forRemote \in BOOLEAN, NEW k \in DOMAIN OrderTlcs(left.tlcs, forRemote)
    PROVE  LET tlcs == OrderTlcs(left.tlcs, forRemote)
               body == LeftBody(left, forRemote)
               rest == [left EXCEPT !.tlcs = @ \ {tlcs[k]}]
           IN  /\ LeftOK(rest) /\ LeftBody(rest, forRemote) = [body EXCEPT !.entries = RemoveAt(@, k)]
               /\ rest.local = left.local /\ rest.tlcs \subseteq left.tlcs
               /\ body.entries[k] = TlcEntry(tlcs[k], forRemote)
<1> DEFINE tlcs == OrderTlcs(left.tlcs, forRemote)
           body == LeftBody(left, forRemote)
           rest == [left EXCEPT !.tlcs = @ \ {tlcs[k]}]
           others == OrderTlcs(left.tlcs \ {tlcs[k]}, forRemote)
           n == Cardinality(left.tlcs)
           entries == [i \in DOMAIN tlcs |-> TlcEntry(tlcs[i], forRemote)]
           fewer == [i \in DOMAIN others |-> TlcEntry(others[i], forRemote)]
<1>1. DOMAIN tlcs = 1 .. n
  BY OrderedGroups DEF LeftOK
<1>2. /\ n \in Nat /\ k \in 1 .. n /\ DOMAIN others = 1 .. n - 1 /\ TlcsOK(left.tlcs \ {tlcs[k]})
      /\ \A i \in 1 .. n - 1 : others[i] = tlcs[IF i < k THEN i ELSE i + 1]
  BY OrderedWithout DEF LeftOK
<1>3. rest = [local |-> left.local, remote |-> left.remote, localKey |-> left.localKey, tlcs |-> left.tlcs \ {tlcs[k]}]
  BY DEF LeftOK
<1> HIDE DEF tlcs, others, n, rest
<1>4. body.entries = entries /\ body = [entries |-> entries, balances |-> body.balances]
  BY DEF LeftBody, SettlementBody, tlcs
<1>5. LeftBody(rest, forRemote) = [entries |-> fewer, balances |-> body.balances]
  BY <1>3 DEF LeftBody, SettlementBody, others
<1>6. fewer = RemoveAt(entries, k)
  <2>1. entries = [i \in 1 .. n |-> entries[i]] /\ \A i \in 1 .. n : entries[i] = TlcEntry(tlcs[i], forRemote)
    BY <1>1
  <2>2. \A i \in 1 .. n - 1 : (IF i < k THEN i ELSE i + 1) \in 1 .. n
    BY <1>2
  <2> HIDE DEF entries
  <2>3. RemoveAt(entries, k) = [i \in 1 .. n - 1 |-> entries[IF i < k THEN i ELSE i + 1]]
    BY <1>2, <2>1, RemovedAt
  <2>4. fewer = [i \in 1 .. n - 1 |-> entries[IF i < k THEN i ELSE i + 1]]
    BY <1>2, <2>1, <2>2
  <2> QED
    BY <2>3, <2>4
<1> HIDE DEF entries, fewer, body
<1>7. LeftBody(rest, forRemote) = [body EXCEPT !.entries = RemoveAt(@, k)]
  BY <1>4, <1>5, <1>6
<1>8. LeftOK(rest) /\ rest.local = left.local /\ rest.tlcs \subseteq left.tlcs
  BY <1>2, <1>3 DEF LeftOK
<1>9. body.entries[k] = TlcEntry(tlcs[k], forRemote)
  BY <1>1, <1>2, <1>4 DEF entries
<1> QED
  BY <1>7, <1>8, <1>9 DEF tlcs, body, rest

(* assertPaidOut: all the outputs but the remainder are the destination's. *)
LEMMA PaysDestination ==
    ASSUME NEW tx, NEW final, NEW a, NEW released, PaidOut(tx, final, a, released)
    PROVE  PaidTo(a.destination, Destination(tx, final)) >= released - a.maxFee
<1> DEFINE paid == Destination(tx, final)
<1>1. (\A o \in Range(paid) : o.lock = a.destination) /\ Paid(paid) >= released - a.maxFee
  BY DEF PaidOut
<1> HIDE DEF paid
<1>2. \A i \in DOMAIN paid : paid[i].lock = a.destination
  BY <1>1 DEF Range
<1>3. [i \in DOMAIN paid |-> IF paid[i].lock = a.destination THEN paid[i].capacity ELSE 0]
          = [i \in DOMAIN paid |-> paid[i].capacity]
  BY <1>2
<1>4. PaidTo(a.destination, paid) = Paid(paid)
  BY <1>3 DEF PaidTo, Paid
<1> QED
  BY <1>1, <1>4 DEF paid

-----------------------------------------------------------------------------
(* What a signed spend keeps of the rules it passed, by a host's option: a *)
(* remainder that leaves the rest in place, and the device paid.           *)
Vetted(tx) ==
    \E a \in Approvals \ {None}, forRemote \in BOOLEAN :
        LET final == FinalParty(tx, forRemote)
        IN  /\ tx.target.kind = "tlc" \/ BalanceUnlocks(tx, forRemote)
            /\ final \/ Head(tx.outputs).lock[3] = NextBody(tx, forRemote)
            /\ PaidOut(tx, final, a, Released(tx, forRemote))

(* decideWatchtowerSpend *)
LEMMA PassesVets ==
    ASSUME NEW R, NEW a \in Approvals \ {None}, NEW q, Passes(R, a, q)
    PROVE  Vetted(q.tx)
<1> DEFINE tx == q.tx
           c == SourceOf(R, tx)
           forRemote == ForRemote(c)
<1>1. /\ KeyUnlocks(q.purpose, tx, forRemote) /\ (FinalParty(tx, forRemote) \/ RemainderFits(c, tx))
      /\ PaidOut(tx, FinalParty(tx, forRemote), a, Released(tx, forRemote))
  BY DEF Passes
<1>2. forRemote \in BOOLEAN
  BY DEF ForRemote
<1> HIDE DEF c, tx
<1>3. tx.target.kind = "tlc" \/ BalanceUnlocks(tx, forRemote)
  BY <1>1 DEF KeyUnlocks, TlcKeyUnlocks
<1>4. RemainderFits(c, tx) => Head(tx.outputs).lock[3] = NextBody(tx, forRemote)
  BY DEF RemainderFits, CommitmentLock
<1> HIDE DEF forRemote
<1>5. Vetted(tx)
  BY <1>1, <1>2, <1>3, <1>4 DEF Vetted
<1> QED
  BY <1>5 DEF tx

(* What lands leaves, and pays, as the cell's next invariant needs. *)
Settles(tx, share, forRemote) ==
    /\ LeftOK(share.left)
    /\ share.final \/ Head(tx.outputs).lock[3] = LeftBody(share.left, forRemote)
    /\ \E a \in Approvals \ {None} :
          PaidTo(a.destination, IF share.final THEN tx.outputs ELSE Tail(tx.outputs)) >= share.takes - a.maxFee
    /\ share.left.local = Taken => OfferedLeft(share.left) = {}

(* A TLC's unlock drops its entry and pays its amount. *)
LEMMA TlcSettles ==
    ASSUME NEW left, LeftOK(left), left.local = Taken => OfferedLeft(left) = {}, NEW forRemote \in BOOLEAN,
           NEW k \in DOMAIN OrderTlcs(left.tlcs, forRemote), NEW tx, Vetted(tx),
           tx.body = LeftBody(left, forRemote), tx.target = [kind |-> "tlc", index |-> k]
    PROVE  Settles(tx, TakesTlc(left, OrderTlcs(left.tlcs, forRemote)[k]), forRemote)
<1> DEFINE t == OrderTlcs(left.tlcs, forRemote)[k]
           rest == [left EXCEPT !.tlcs = @ \ {t}]
           share == TakesTlc(left, t)
<1>1. /\ LeftOK(rest) /\ LeftBody(rest, forRemote) = [tx.body EXCEPT !.entries = RemoveAt(@, k)]
      /\ rest.local = left.local /\ rest.tlcs \subseteq left.tlcs
      /\ tx.body.entries[k] = TlcEntry(t, forRemote)
  BY EntryRemoved
<1> HIDE DEF t, rest
<1>2. share.takes = t.amount /\ share.left = rest /\ share.final = FALSE
  BY DEF TakesTlc, rest
<1> HIDE DEF share
<1>3. \A b : /\ FinalParty(tx, b) = FALSE
             /\ NextBody(tx, b) = [tx.body EXCEPT !.entries = RemoveAt(@, k)]
             /\ Released(tx, b) = tx.body.entries[k].amount
  BY DEF FinalParty, NextBody, Released
<1>4. tx.body.entries[k].amount = t.amount
  BY <1>1 DEF TlcEntry
<1>5. PICK a \in Approvals \ {None} :
         Head(tx.outputs).lock[3] = LeftBody(rest, forRemote) /\ PaidOut(tx, FALSE, a, t.amount)
  BY <1>1, <1>3, <1>4, Zenon DEF Vetted
<1>6. Destination(tx, FALSE) = Tail(tx.outputs)
  BY DEF Destination
<1>7. PaidTo(a.destination, Tail(tx.outputs)) >= t.amount - a.maxFee
  BY <1>5, <1>6, PaysDestination
<1>8. rest.local = Taken => OfferedLeft(rest) = {}
  BY <1>1 DEF OfferedLeft
<1>9. Settles(tx, share, forRemote)
  BY <1>1, <1>2, <1>5, <1>7, <1>8 DEF Settles
<1> QED
  BY <1>9 DEF share, t

(* What the body says of a balance is what is left of it. *)
LEMMA BalancesLeft ==
    ASSUME NEW left, NEW forRemote \in BOOLEAN
    PROVE  LET body == LeftBody(left, forRemote)
           IN  /\ body = [entries |-> body.entries, balances |-> body.balances]
               /\ body.balances[PeerIndex(forRemote)] = IF left.remote = Taken THEN Settled ELSE Balance(PeerKey, left.remote)
               /\ body.balances[DeviceIndex(forRemote)] = IF left.local = Taken THEN Settled ELSE Balance(BaseKey, left.local)
               /\ body.balances = Pair(forRemote, body.balances[DeviceIndex(forRemote)], body.balances[PeerIndex(forRemote)])
  BY DEF LeftBody, Pair, PeerIndex, DeviceIndex

(* Settling the device's balance is the body of what is left without it. *)
LEMMA BalanceTaken ==
    ASSUME NEW left, LeftOK(left), NEW forRemote \in BOOLEAN
    PROVE  LET body == LeftBody(left, forRemote)
               rest == [left EXCEPT !.local = Taken]
           IN  /\ LeftBody(rest, forRemote) = [body EXCEPT !.balances[DeviceIndex(forRemote)] = Settled]
               /\ LeftOK(rest) /\ rest.tlcs = left.tlcs
<1> DEFINE body == LeftBody(left, forRemote)
           rest == [left EXCEPT !.local = Taken]
           theirs == IF left.remote = Taken THEN Settled ELSE Balance(PeerKey, left.remote)
           mine == IF left.local = Taken THEN Settled ELSE Balance(BaseKey, left.local)
           entries == SettlementBody(left, forRemote).entries
<1>1. rest = [local |-> Taken, remote |-> left.remote, localKey |-> left.localKey, tlcs |-> left.tlcs]
  BY DEF LeftOK
<1> HIDE DEF rest
<1>2. SettlementBody(rest, forRemote).entries = entries
  BY <1>1 DEF SettlementBody
<1>3. body = [entries |-> entries, balances |-> Pair(forRemote, mine, theirs)]
  BY DEF LeftBody
<1>4. LeftBody(rest, forRemote) = [entries |-> entries, balances |-> Pair(forRemote, Settled, theirs)]
  BY <1>1, <1>2 DEF LeftBody
<1> HIDE DEF body, entries, theirs, mine
<1>5. [Pair(forRemote, mine, theirs) EXCEPT ![DeviceIndex(forRemote)] = Settled] = Pair(forRemote, Settled, theirs)
  BY DEF Pair, DeviceIndex
<1>6. [body EXCEPT !.balances[DeviceIndex(forRemote)] = Settled]
         = [entries |-> entries, balances |-> [Pair(forRemote, mine, theirs) EXCEPT ![DeviceIndex(forRemote)] = Settled]]
  BY <1>3
<1>7. LeftOK(rest) /\ rest.tlcs = left.tlcs
  BY <1>1 DEF LeftOK
<1>8. LeftBody(rest, forRemote) = [body EXCEPT !.balances[DeviceIndex(forRemote)] = Settled]
  BY <1>4, <1>5, <1>6
<1> QED
  BY <1>7, <1>8 DEF body, rest

(* The entries are the TLCs left, in order. *)
LEMMA EntriesLeft ==
    ASSUME NEW left, LeftOK(left), NEW forRemote \in BOOLEAN
    PROVE  LET body == LeftBody(left, forRemote)
           IN  /\ SumAmounts(body.entries) = SumAmounts(OrderTlcs(left.tlcs, forRemote))
               /\ Offered(body, forRemote) = {} => OfferedLeft(left) = {}
<1> DEFINE tlcs == OrderTlcs(left.tlcs, forRemote)
           entries == [i \in DOMAIN tlcs |-> TlcEntry(tlcs[i], forRemote)]
           body == LeftBody(left, forRemote)
<1>1. body.entries = entries
  BY DEF LeftBody, SettlementBody
<1>2. \A t \in left.tlcs : \E i \in DOMAIN tlcs : tlcs[i] = t
  BY OrderedAt DEF LeftOK
<1> HIDE DEF tlcs, body
<1>3. [i \in DOMAIN entries |-> entries[i].amount] = [i \in DOMAIN tlcs |-> tlcs[i].amount]
  BY DEF TlcEntry
<1>4. \A i \in DOMAIN tlcs : i \in DOMAIN entries /\ entries[i] = TlcEntry(tlcs[i], forRemote)
  OBVIOUS
<1> HIDE DEF entries
<1>5. SumAmounts(body.entries) = SumAmounts(tlcs)
  BY <1>1, <1>3 DEF SumAmounts
<1>6. ASSUME NEW t \in left.tlcs, t.direction = "offered"
      PROVE  Offered(body, forRemote) # {}
  <2>1. PICK i \in DOMAIN tlcs : tlcs[i] = t
    BY <1>2
  <2>2. DirectionOf(TlcEntry(t, forRemote), forRemote) = "offered"
    BY <1>6 DEF DirectionOf, TlcEntry
  <2>3. i \in Offered(body, forRemote)
    BY <1>1, <1>4, <2>1, <2>2 DEF Offered
  <2> QED
    BY <2>3
<1>7. Offered(body, forRemote) = {} => OfferedLeft(left) = {}
  BY <1>6 DEF OfferedLeft
<1> QED
  BY <1>5, <1>7 DEF tlcs, body

(* The settlement key's unlock, the last one with every TLC. *)
LEMMA BalanceSettles ==
    ASSUME NEW left, LeftOK(left), left.local # Taken, NEW forRemote \in BOOLEAN, NEW tx, Vetted(tx),
           tx.body = LeftBody(left, forRemote), tx.target = [kind |-> "balance", index |-> DeviceIndex(forRemote)]
    PROVE  Settles(tx, TakesBalance(left, OrderTlcs(left.tlcs, forRemote)), forRemote)
<1> DEFINE final == left.remote = Taken
           tlcs == OrderTlcs(left.tlcs, forRemote)
           share == TakesBalance(left, tlcs)
           entries == tx.body.entries
           released == left.local + IF final THEN SumAmounts(tlcs) ELSE 0
<1>1. PICK a \in Approvals \ {None}, b \in BOOLEAN :
         /\ BalanceUnlocks(tx, b)
         /\ FinalParty(tx, b) \/ Head(tx.outputs).lock[3] = NextBody(tx, b)
         /\ PaidOut(tx, FinalParty(tx, b), a, Released(tx, b))
  BY DEF Vetted
<1>2. b = forRemote
  BY <1>1 DEF BalanceUnlocks, DeviceIndex
<1>3. /\ tx.body.balances[PeerIndex(forRemote)] = IF final THEN Settled ELSE Balance(PeerKey, left.remote)
      /\ tx.body.balances[DeviceIndex(forRemote)] = Balance(BaseKey, left.local)
  BY BalancesLeft
<1>4. PeerKey # Zero
  BY DEF PeerKey, Zero
<1>5. FinalParty(tx, forRemote) <=> final
  BY <1>3, <1>4 DEF FinalParty, Settled, Balance
<1>6. NextBody(tx, forRemote) = [tx.body EXCEPT !.balances[DeviceIndex(forRemote)] = Settled]
  BY DEF NextBody
<1>7. tx.body.balances[DeviceIndex(forRemote)].amount = left.local
  BY <1>3 DEF Balance
<1>8. SumAmounts(entries) = SumAmounts(tlcs) /\ (Offered(tx.body, forRemote) = {} => OfferedLeft(left) = {})
  BY EntriesLeft
<1>9. Released(tx, forRemote) = released
  <2>1. Released(tx, forRemote) = left.local + IF FinalParty(tx, forRemote) THEN SumAmounts(entries) ELSE 0
    BY <1>7 DEF Released
  <2> QED
    BY <1>5, <1>8, <2>1
<1> HIDE DEF released
<1>10. PaidOut(tx, final, a, released)
  <2>1. FinalParty(tx, forRemote) \in BOOLEAN /\ final \in BOOLEAN
    BY DEF FinalParty
  <2>2. FinalParty(tx, forRemote) = final
    BY <1>5, <2>1
  <2> QED
    BY <1>1, <1>2, <1>9, <2>2
<1>11. PaidTo(a.destination, Destination(tx, final)) >= released - a.maxFee
  BY <1>10, PaysDestination
<1>12. CASE final
  <2>1. /\ share.takes = left.local + SumAmounts(tlcs) /\ share.final = TRUE
        /\ share.left = [local |-> Taken, remote |-> left.remote, localKey |-> left.localKey, tlcs |-> {}]
    BY <1>12 DEF TakesBalance, LeftOK
  <2>2. released = share.takes
    BY <1>12, <2>1 DEF released
  <2>3. LeftOK(share.left) /\ OfferedLeft(share.left) = {}
    BY <2>1, FS_EmptySet DEF LeftOK, TlcsOK, OfferedLeft
  <2>4. Destination(tx, final) = tx.outputs
    BY <1>12 DEF Destination
  <2> QED
    BY <1>11, <2>1, <2>2, <2>3, <2>4 DEF Settles
<1>13. CASE ~final
  <2>1. share.takes = left.local /\ share.left = [left EXCEPT !.local = Taken] /\ share.final = FALSE
    BY <1>13 DEF TakesBalance
  <2>2. released = share.takes
    BY <1>13, <2>1 DEF released, LeftOK
  <2>3. /\ LeftBody(share.left, forRemote) = NextBody(tx, forRemote) /\ LeftOK(share.left)
        /\ share.left.tlcs = left.tlcs
    BY <1>6, <2>1, BalanceTaken
  <2>4. Offered(tx.body, forRemote) = {} /\ Head(tx.outputs).lock[3] = NextBody(tx, forRemote)
    BY <1>1, <1>2, <1>5, <1>13 DEF BalanceUnlocks
  <2>5. OfferedLeft(share.left) = {}
    BY <1>8, <2>3, <2>4 DEF OfferedLeft
  <2>6. Destination(tx, final) = Tail(tx.outputs)
    BY <1>13 DEF Destination
  <2> QED
    BY <1>11, <2>1, <2>2, <2>3, <2>4, <2>5, <2>6 DEF Settles
<1> QED
  BY <1>12, <1>13

(* Whichever unlock of the cell it is. *)
LEMMA UnlockSettles ==
    ASSUME NEW c, LeftOK(c.left), c.left.local = Taken => OfferedLeft(c.left) = {},
           c.body = LeftBody(c.left, ForRemote(c)), NEW u \in Unlocks(c),
           NEW tx, Vetted(tx), tx.body = c.body, tx.target = u.target
    PROVE  Settles(tx, u.share, ForRemote(c))
<1> DEFINE forRemote == ForRemote(c)
           tlcs == OrderTlcs(c.left.tlcs, forRemote)
<1>1. forRemote \in BOOLEAN
  BY DEF ForRemote
<1>2. \/ \E i \in DOMAIN tlcs : u.share = TakesTlc(c.left, tlcs[i]) /\ u.target = [kind |-> "tlc", index |-> i]
      \/ /\ c.left.local # Taken
         /\ u.share = TakesBalance(c.left, tlcs) /\ u.target = [kind |-> "balance", index |-> DeviceIndex(forRemote)]
  BY DEF Unlocks
<1>3. ASSUME NEW i \in DOMAIN tlcs, u.share = TakesTlc(c.left, tlcs[i]), u.target = [kind |-> "tlc", index |-> i]
      PROVE  Settles(tx, u.share, forRemote)
  BY <1>1, <1>3, TlcSettles
<1>4. CASE /\ c.left.local # Taken
           /\ u.share = TakesBalance(c.left, tlcs) /\ u.target = [kind |-> "balance", index |-> DeviceIndex(forRemote)]
  BY <1>1, <1>4, BalanceSettles
<1> QED
  BY <1>2, <1>3, <1>4

(* A cell that is what is left of its commitment. *)
CellOK(c) ==
    /\ c = [view |-> c.view, number |-> c.number, body |-> c.body, capacity |-> c.capacity, root |-> c.root,
            open |-> c.open, age |-> c.age, left |-> c.left, shares |-> c.shares]
    /\ LeftOK(c.left)
    /\ c.open => c.body = LeftBody(c.left, ForRemote(c))
    /\ \A s \in c.shares : \E a \in Approvals \ {None} : PaidTo(a.destination, s.outputs) >= s.takes - a.maxFee
    /\ c.left.local = Taken => OfferedLeft(c.left) = {}

(* rebuildOperation: the body is built from the terms. *)
TermsOK(c) == IsSnapshot(c.terms) /\ c.body = SettlementBody(c.terms, ForRemote(c))

(* buildSettlementWitness: a commitment's cell has all of its terms left. *)
LEMMA CellOfTerms ==
    ASSUME NEW c, TermsOK(c)
    PROVE  CellOK(CellOf(c))
<1> DEFINE d == CellOf(c)
           s == c.terms
           forRemote == ForRemote(c)
<1>1. /\ s = [local |-> s.local, remote |-> s.remote, localKey |-> s.localKey, tlcs |-> s.tlcs]
      /\ s.local \in Nat /\ s.remote \in Nat /\ TlcsOK(s.tlcs) /\ c.body = SettlementBody(s, forRemote)
  BY DEF TermsOK, IsSnapshot, TlcsOK
<1>2. s.local # Taken /\ s.remote # Taken
  BY <1>1 DEF Taken
<1>3. LeftBody(s, forRemote) = SettlementBody(s, forRemote)
  BY <1>2 DEF LeftBody, SettlementBody
<1>4. d = [view |-> d.view, number |-> d.number, body |-> d.body, capacity |-> d.capacity, root |-> d.root,
           open |-> d.open, age |-> d.age, left |-> d.left, shares |-> d.shares]
  BY DEF CellOf
<1>5. d.left = s /\ d.body = c.body /\ ForRemote(d) = forRemote /\ d.shares = {}
  BY DEF CellOf, ForRemote
<1>6. LeftOK(s)
  BY <1>1 DEF LeftOK
<1> HIDE DEF d, s, forRemote
<1>7. CellOK(d)
  BY <1>1, <1>2, <1>3, <1>4, <1>5, <1>6 DEF CellOK
<1> QED
  BY <1>7 DEF d

(* The peer takes nothing of the device's. *)
LEMMA PeerLeaves ==
    ASSUME NEW left, LeftOK(left), NEW rest \in PeerShares(left)
    PROVE  LeftOK(rest) /\ rest.local = left.local /\ OfferedLeft(rest) \subseteq OfferedLeft(left)
<1>1. CASE rest = [left EXCEPT !.remote = Taken]
  <2>1. rest = [local |-> left.local, remote |-> Taken, localKey |-> left.localKey, tlcs |-> left.tlcs]
    BY <1>1 DEF LeftOK
  <2> QED
    BY <2>1 DEF LeftOK, OfferedLeft
<1>2. ASSUME NEW t \in left.tlcs, rest = [left EXCEPT !.tlcs = @ \ {t}]
      PROVE  LeftOK(rest) /\ rest.local = left.local /\ OfferedLeft(rest) \subseteq OfferedLeft(left)
  <2>1. rest = [local |-> left.local, remote |-> left.remote, localKey |-> left.localKey, tlcs |-> left.tlcs \ {t}]
    BY <1>2 DEF LeftOK
  <2>2. TlcsOK(left.tlcs \ {t})
    BY FS_RemoveElement DEF LeftOK, TlcsOK
  <2> QED
    BY <2>1, <2>2 DEF LeftOK, OfferedLeft
<1> QED
  BY <1>1, <1>2 DEF PeerShares

(* A cell the peer has taken from. *)
LEMMA PeerTakesKeeps ==
    ASSUME NEW c, CellOK(c), NEW rest \in PeerShares(c.left), NEW open,
           NEW d, d = [c EXCEPT !.left = rest, !.body = LeftBody(rest, ForRemote(c)), !.root = FALSE, !.age = @ + 1,
                                !.open = open]
    PROVE  CellOK(d)
<1>1. LeftOK(rest) /\ rest.local = c.left.local /\ OfferedLeft(rest) \subseteq OfferedLeft(c.left)
  BY PeerLeaves DEF CellOK
<1>2. d = [view |-> c.view, number |-> c.number, body |-> LeftBody(rest, ForRemote(c)), capacity |-> c.capacity,
           root |-> FALSE, open |-> open, age |-> c.age + 1, left |-> rest, shares |-> c.shares]
  BY DEF CellOK
<1>3. ForRemote(d) = ForRemote(c)
  BY <1>2 DEF ForRemote
<1> QED
  BY <1>1, <1>2, <1>3 DEF CellOK

(* A cell one of the device's spends has settled. *)
LEMMA LandsKeeps ==
    ASSUME NEW c, CellOK(c), c.open, NEW u \in Unlocks(c), NEW tx, Vetted(tx), tx.body = c.body, tx.target = u.target,
           NEW rest, rest = (IF u.share.final THEN tx.outputs ELSE Tail(tx.outputs)), NEW capacity,
           NEW d, d = [c EXCEPT !.left = u.share.left, !.root = FALSE, !.age = @ + 1, !.open = ~u.share.final,
                                !.body = IF u.share.final THEN @ ELSE Head(tx.outputs).lock[3],
                                !.capacity = capacity,
                                !.shares = @ \cup {[takes |-> u.share.takes, outputs |-> rest]}]
    PROVE  CellOK(d)
<1>1. Settles(tx, u.share, ForRemote(c))
  BY UnlockSettles DEF CellOK
<1> DEFINE body == IF u.share.final THEN c.body ELSE Head(tx.outputs).lock[3]
           paid == [takes |-> u.share.takes, outputs |-> rest]
<1>2. d = [view |-> c.view, number |-> c.number, body |-> body, capacity |-> capacity,
           root |-> FALSE, open |-> ~u.share.final, age |-> c.age + 1, left |-> u.share.left, shares |-> c.shares \cup {paid}]
  BY DEF CellOK
<1>3. ForRemote(d) = ForRemote(c)
  BY <1>2 DEF ForRemote
<1>4. d.open => d.body = LeftBody(d.left, ForRemote(d))
  BY <1>1, <1>2, <1>3 DEF Settles
<1>5. \E a \in Approvals \ {None} : PaidTo(a.destination, paid.outputs) >= paid.takes - a.maxFee
  BY <1>1 DEF Settles
<1> HIDE DEF paid, body
<1>6. LeftOK(d.left) /\ (d.left.local = Taken => OfferedLeft(d.left) = {})
  BY <1>1, <1>2 DEF Settles
<1>7. \A s \in d.shares : \E a \in Approvals \ {None} : PaidTo(a.destination, s.outputs) >= s.takes - a.maxFee
  <2>1. d.shares = c.shares \cup {paid}
    BY ONLY <1>2, Zenon
  <2>2. \A s \in c.shares : \E a \in Approvals \ {None} : PaidTo(a.destination, s.outputs) >= s.takes - a.maxFee
    BY DEF CellOK
  <2> QED
    BY <1>5, <2>1, <2>2, Zenon
<1>8. d = [view |-> d.view, number |-> d.number, body |-> d.body, capacity |-> d.capacity, root |-> d.root,
           open |-> d.open, age |-> d.age, left |-> d.left, shares |-> d.shares]
  BY <1>2
<1> QED
  BY <1>4, <1>6, <1>7, <1>8 DEF CellOK

-----------------------------------------------------------------------------
(* The second inductive invariant: the signatures that may be mined were   *)
(* vetted, each commitment's body is of its terms, and the cell is what is *)
(* left of one.                                                            *)
AllVetted == (\A x \in sent : Vetted(x.tx)) /\ \A r \in Runs : pc[r] # "idle" => Vetted(job[r].tx)

CInv == AllVetted /\ (\A c \in Registered(rec) : TermsOK(c)) /\ (cell # None => CellOK(cell))

LEMMA CellInitOK == Init => CInv
  BY DEF Init, CInv, AllVetted, Registered

(* What is signed was vetted, and what is sent was signed. *)
LEMMA VettedKeeps ==
    ASSUME IInv, AllVetted, [Next]_vars
    PROVE  AllVetted'
<1> DEFINE Same(r) == pc'[r] = "idle" \/ (pc'[r] = pc[r] /\ job'[r] = job[r])
           Others(r) == \A o \in Runs \ {r} : Same(o)
<1>1. ASSUME \A r \in Runs : Same(r), \A x \in sent' : x \in sent \/ Vetted(x.tx) PROVE AllVetted'
  BY <1>1 DEF AllVetted
<1>2. DOMAIN pc = Runs /\ DOMAIN job = Runs
  BY DEF IInv, RunsOK
<1>3. ASSUME NEW r \in Runs, End(r), sent' \in {sent, Sent(r)}, pc[r] # "idle" PROVE AllVetted'
  <2>1. \A o \in Runs : Same(o)
    BY <1>2, <1>3 DEF End, Go
  <2>2. \A x \in sent' : x \in sent \/ Vetted(x.tx)
    BY <1>3 DEF Sent, AllVetted
  <2> QED
    BY <1>1, <2>1, <2>2
<1>4. ASSUME NEW r \in Runs, NEW q, Ask(r, q), approval # None PROVE AllVetted'
  <2>1. approval \in Approvals \ {None} /\ Passes(rec, approval, q) /\ sent' = sent
    BY <1>4 DEF IInv, BoundsOK, Ask, chain
  <2>2. Vetted(q.tx)
    BY <2>1, PassesVets
  <2>3. job'[r].tx = q.tx
    <3>1. CASE Recorded(q)
      <4>1. PICK s : job' = [job EXCEPT ![r] = Job(q, s.signature, NameOf(s))]
        BY <1>4, <3>1 DEF Ask
      <4> QED
        BY <1>2, <4>1 DEF Job
    <3>2. CASE ~Recorded(q)
      BY <1>2, <1>4, <3>2 DEF Ask, Job
    <3> QED
      BY <3>1, <3>2
  <2>4. \A o \in Runs \ {r} : pc'[o] = pc[o] /\ job'[o] = job[o]
    BY <1>2, <1>4 DEF Ask, Go
  <2> QED
    BY <2>1, <2>2, <2>3, <2>4 DEF AllVetted
<1>5. ASSUME NEW r \in Runs, AskHonest(r) \/ AskTwisted(r) PROVE AllVetted'
  <2>1. approval # None /\ \E q : Ask(r, q)
    BY <1>5 DEF AskHonest, AskTwisted
  <2> QED
    BY <1>4, <2>1
<1>6. ASSUME NEW r \in Runs, Record(r) PROVE AllVetted'
  <2>1. PICK name : job' = [job EXCEPT ![r].of = name]
    BY <1>6 DEF Record
  <2>2. pc[r] = "record" /\ pc' = [pc EXCEPT ![r] = "submit"] /\ sent' = sent
    BY <1>6 DEF Record, Go, chain
  <2>3. JobOK(job[r])
    BY <2>2 DEF IInv, RunsOK, RunOK
  <2>4. job'[r].tx = job[r].tx
    BY <1>2, <2>1, <2>3 DEF JobOK
  <2>5. \A o \in Runs \ {r} : pc'[o] = pc[o] /\ job'[o] = job[o]
    BY <1>2, <2>1, <2>2
  <2> QED
    BY <2>2, <2>4, <2>5 DEF AllVetted
<1>7. ASSUME NEW r \in Runs, RecordThrows(r) \/ Mark(r) PROVE AllVetted'
  <2>1. End(r) /\ sent' = sent /\ pc[r] # "idle"
    BY <1>7 DEF RecordThrows, Mark, chain
  <2> QED
    BY <1>3, <2>1
<1>8. ASSUME NEW r \in Runs, Submit(r) PROVE AllVetted'
  <2>1. pc[r] # "idle" /\ sent' \in {sent, Sent(r)}
    BY <1>8 DEF Submit
  <2>2. CASE End(r)
    BY <1>3, <2>1, <2>2
  <2>3. CASE Go(r, "mark") /\ job' = job
    BY <1>2, <2>1, <2>3 DEF Go, Sent, AllVetted
  <2> QED
    BY <1>8, <2>2, <2>3 DEF Submit
<1>9. ASSUME NEW r \in Runs, Fails(r) PROVE AllVetted'
  <2>1. End(r) /\ pc[r] # "idle" /\ sent' \in {sent, Sent(r)}
    BY <1>9 DEF Fails
  <2> QED
    BY <1>3, <2>1
<1>10. CASE UNCHANGED <<pc, job, sent>>
  BY <1>10 DEF AllVetted
<1>11. ASSUME Crash PROVE AllVetted'
  BY <1>11 DEF Crash, chain, AllVetted
<1>12. ASSUME (\E view \in {"remote", "local"}, s \in bound.snapshots : SignCommitment(view, s))
              \/ (\E c \in Registered(rec) : Broadcast(c))
              \/ (\E left \in PeerShares(cell.left) : PeerTakes(left))
              \/ (\E r \in Runs : ClaimLost(r) \/ Abandon(r)) \/ Land \/ UNCHANGED vars
       PROVE  UNCHANGED <<pc, job, sent>>
  BY <1>12 DEF SignCommitment, Broadcast, PeerTakes, ClaimLost, Abandon, Land, Lands, vars, chain
<1> QED
  BY <1>5, <1>6, <1>7, <1>8, <1>9, <1>10, <1>11, <1>12 DEF Next

(* The record's spends are no part of its commitments. *)
LEMMA SpendsApart ==
    ASSUME NEW R, CommitmentsOK(R), NEW S, NEW Q, Q = [R EXCEPT !.spends = S]
    PROVE  Registered(Q) = Registered(R)
<1>1. Q = [remote |-> R.remote, previous |-> R.previous, local |-> R.local, spends |-> S]
  BY DEF CommitmentsOK
<1> QED
  BY <1>1 DEF Registered

(* nextCommitments adds a commitment of a snapshot's terms; no spend       *)
(* changes one.                                                            *)
LEMMA TermsKeep ==
    ASSUME IInv, [Next]_vars, \A c \in Registered(rec) : TermsOK(c)
    PROVE  \A c \in Registered(rec') : TermsOK(c)
<1>1. ASSUME NEW S, rec' = [rec EXCEPT !.spends = S] PROVE Registered(rec') = Registered(rec)
  BY <1>1, SpendsApart DEF IInv, RecordOK
<1>2. ASSUME NEW q, rec' = Claim(rec, q) PROVE Registered(rec') = Registered(rec)
  BY <1>1, <1>2 DEF Claim
<1>3. ASSUME NEW r, rec' \in {WithSignature(r), Applied(r)} PROVE Registered(rec') = Registered(rec)
  BY <1>1, <1>3 DEF WithSignature, SignSpend, Applied, ApplySpend
<1>4. ASSUME NEW view \in {"remote", "local"}, NEW s \in bound.snapshots, SignCommitment(view, s)
      PROVE  \A c \in Registered(rec') : TermsOK(c)
  <2> DEFINE c == Commitment(view, NumberAfter(rec[view]), s)
  <2>1. rec' = [rec EXCEPT ![view] = c, !.previous = IF view = "remote" THEN rec.remote ELSE @]
    BY <1>4 DEF SignCommitment
  <2>2. IsSnapshot(s)
    BY CommitmentAssumption DEF IInv, BoundsOK
  <2>3. TermsOK(c)
    BY <2>2 DEF TermsOK, Commitment, CommitmentCell, ForRemote
  <2> HIDE DEF c
  <2>4. rec' = IF view = "remote"
               THEN [remote |-> c, previous |-> rec.remote, local |-> rec.local, spends |-> rec.spends]
               ELSE [remote |-> rec.remote, previous |-> rec.previous, local |-> c, spends |-> rec.spends]
    BY <2>1, CommitmentIn DEF IInv, RecordOK, CommitmentsOK
  <2>5. Registered(rec') \subseteq Registered(rec) \cup {c}
    BY <2>4 DEF Registered
  <2> QED
    BY <2>3, <2>5
<1>5. ASSUME NEW r \in Runs, AskHonest(r) \/ AskTwisted(r) \/ ClaimLost(r)
      PROVE  rec' = rec \/ \E q : rec' = Claim(rec, q)
  BY <1>5 DEF AskHonest, AskTwisted, ClaimLost, Ask
<1>6. ASSUME NEW r \in Runs, Record(r) \/ Mark(r) \/ Fails(r)
      PROVE  rec' = rec \/ rec' \in {WithSignature(r), Applied(r)}
  BY <1>6 DEF Record, Mark, Fails
<1>7. ASSUME (\E c \in Registered(rec) : Broadcast(c)) \/ (\E left \in PeerShares(cell.left) : PeerTakes(left))
              \/ (\E r \in Runs : RecordThrows(r) \/ Submit(r) \/ Abandon(r)) \/ Crash \/ Land \/ UNCHANGED vars
      PROVE  rec' = rec
  BY <1>7 DEF Broadcast, PeerTakes, RecordThrows, Submit, Abandon, Crash, Land, Lands, vars
<1>8. CASE rec' = rec
  BY <1>8
<1> QED
  BY <1>2, <1>3, <1>4, <1>5, <1>6, <1>7, <1>8 DEF Next

(* The three ways the chain moves. *)
LEMMA CellKeeps ==
    ASSUME CInv, [Next]_vars
    PROVE  cell' # None => CellOK(cell')
<1>1. ASSUME NEW c \in Registered(rec), Broadcast(c) PROVE CellOK(cell')
  BY <1>1, CellOfTerms DEF Broadcast, CInv
<1>2. ASSUME cell # None, NEW left \in PeerShares(cell.left), PeerTakes(left) PROVE CellOK(cell')
  BY <1>2, PeerTakesKeeps DEF PeerTakes, CInv, CellForRemote
<1>3. ASSUME NEW x \in sent, NEW u \in Unlocks(cell), Lands(x, u) PROVE CellOK(cell')
  <2> DEFINE tx == x.tx
             rest == IF u.share.final THEN tx.outputs ELSE Tail(tx.outputs)
             capacity == IF u.share.final THEN 0 ELSE Head(tx.outputs).capacity
  <2>1. CellOK(cell) /\ cell.open /\ Vetted(tx) /\ tx.body = cell.body /\ tx.target = u.target
    BY <1>3 DEF Lands, CInv, AllVetted
  <2>2. cell' = [cell EXCEPT !.left = u.share.left, !.root = FALSE, !.age = @ + 1, !.open = ~u.share.final,
                             !.body = IF u.share.final THEN @ ELSE Head(tx.outputs).lock[3],
                             !.capacity = capacity,
                             !.shares = @ \cup {[takes |-> u.share.takes, outputs |-> rest]}]
    BY <1>3 DEF Lands
  <2> HIDE DEF tx, capacity
  <2> QED
    BY <2>1, <2>2, LandsKeeps
<1>4. ASSUME (\E view \in {"remote", "local"}, s \in bound.snapshots : SignCommitment(view, s))
             \/ (\E r \in Runs : \/ AskHonest(r) \/ AskTwisted(r) \/ Record(r) \/ RecordThrows(r) \/ Submit(r)
                                 \/ Mark(r) \/ ClaimLost(r) \/ Fails(r) \/ Abandon(r))
             \/ Crash \/ UNCHANGED vars
      PROVE  cell' = cell
  BY <1>4 DEF SignCommitment, AskHonest, AskTwisted, Ask, Record, RecordThrows, Submit, Mark, ClaimLost, Fails,
              Abandon, Crash, vars, chain
<1>5. CASE cell' = cell
  BY <1>5 DEF CInv
<1> QED
  BY <1>1, <1>2, <1>3, <1>4, <1>5 DEF Next, Land

LEMMA CellStepOK == IInv /\ CInv /\ [Next]_vars => CInv'
  BY VettedKeeps, TermsKeep, CellKeeps DEF CInv

(* The record's invariant makes the chain's inductive. *)
LEMMA CellInvariant == Spec => []CInv
<1>1. Spec => []IInv
  BY InitOK, StepOK, PTL DEF Spec
<1> QED
  BY <1>1, CellInitOK, CellStepOK, PTL DEF Spec

(* However the two sides settle a broadcast commitment, the cell's body is *)
(* the one of what neither has taken.                                      *)
THEOREM TowerLeavesTheRest == Spec => []BodyIsWhatIsLeft
<1>1. CInv => BodyIsWhatIsLeft
  BY DEF CInv, CellOK, BodyIsWhatIsLeft, CellForRemote
<1> QED
  BY <1>1, CellInvariant, PTL

(* What each of the device's spends took reaches a destination the host    *)
(* approved, less the fee, and the device gives up its place only when no  *)
(* TLC it offered is left.                                                 *)
THEOREM TowerPaysDevice == Spec => []DeviceIsPaid
<1>1. CInv => DeviceIsPaid
  BY DEF CInv, CellOK, DeviceIsPaid
<1> QED
  BY <1>1, CellInvariant, PTL

=============================================================================
