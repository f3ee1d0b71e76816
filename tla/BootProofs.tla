----------------------------- MODULE BootProofs -----------------------------
(***************************************************************************)
(* Proofs about Boot: the SAML key pairs, whatever writes fail and wherever*)
(* the process dies; the session of a browser, for every max_age,          *)
(* renew_after and max_session_age and any number of tabs and sign-ins;    *)
(* and the wait for Postgres, for every schedule, budget and slack.        *)
(***************************************************************************)
EXTENDS Boot, FiniteSetsExt, WellFoundedInduction, TLAPS

-----------------------------------------------------------------------------
(* What Min and Max return.                                                *)

\* The order of the naturals is well founded.
LEMMA NatOrder == IsWellFoundedOn({ss \in Nat \X Nat : ss[1] < ss[2]}, Nat)
BY NatLessThanWellFounded, Zenon DEF OpToRel

\* A set of naturals that has an element has a least one.
LEMMA MinExists ==
  ASSUME NEW S \in SUBSET Nat, S # {}
  PROVE Min(S) \in S /\ \A x \in S : Min(S) <= x
<1>1. PICK m \in S : \A x \in S : ~(<<x, m>> \in {ss \in Nat \X Nat : ss[1] < ss[2]})
  BY WFMin, NatOrder, Zenon
<1>2. ASSUME NEW x \in S PROVE m <= x
  <2>1. ~(x < m)
    BY <1>1, Zenon
  <2> QED
    BY <2>1
<1> QED
  BY <1>2, Zenon DEF Min

\* Of two numbers.
LEMMA MaxOfTwo == ASSUME NEW a \in Int, NEW b \in Int PROVE Max({a, b}) = IF a > b THEN a ELSE b
<1>1. \E x \in {a, b} : \A y \in {a, b} : x >= y
  OBVIOUS
<1>2. Max({a, b}) \in {a, b} /\ \A y \in {a, b} : Max({a, b}) >= y
  BY <1>1 DEF Max
<1> QED
  BY <1>2

\* And the smaller.
LEMMA MinOfTwo == ASSUME NEW a \in Nat, NEW b \in Nat PROVE Min({a, b}) \in Nat
<1>1. \E x \in {a, b} : \A y \in {a, b} : x <= y
  OBVIOUS
<1>2. Min({a, b}) \in {a, b}
  BY <1>1 DEF Min
<1> QED
  BY <1>2

-----------------------------------------------------------------------------
(* The SAML key pairs.                                                     *)

L(e) == resolveSamlKeyPair(e)

\* What tryLoadExistingKeyPair finds on a disk d.
Complete(d, l) == {i \in Candidates(l) : d[l.certs[i]] # 0 /\ d[l.keys[i]] # 0}
OnDisk(d, l) == {[cert |-> d[l.certs[i]], key |-> d[l.keys[i]]] :
                   i \in IF Complete(d, l) = {} THEN {} ELSE {Min(Complete(d, l))}}

KeyTypes ==
  /\ disk \in [Paths -> Nat] /\ made \in Nat
  /\ pair \in [Names -> SUBSET [cert : Nat, key : Nat]]
  /\ trusted \in [Names -> SUBSET Nat]

\* A key that is there has its certificate: the certificate is written first,
\* and a pair only where no key is.
KeyHasCert == \A e \in Owners : \A i \in Candidates(L(e)) :
                disk[L(e).keys[i]] # 0 => disk[L(e).certs[i]] = disk[L(e).keys[i]]

NoKeys(d, l) == \A i \in Candidates(l) : d[l.keys[i]] = 0

WritingInv ==
  \A w \in writing :
    /\ w \in [entry : Names, cert : Paths, key : Paths, next : {"cert", "key"}]
    /\ w.entry \in Owners /\ made # 0 /\ NoKeys(disk, L(w.entry))
    /\ \E i \in Candidates(L(w.entry)) : w.cert = L(w.entry).certs[i] /\ w.key = L(w.entry).keys[i]
    /\ w.next = "key" => disk[w.cert] = made

\* What was published from a file is still what the files hold.
TrustInv == \A e \in Names : \A c \in trusted[e] : e \in Owners /\ OnDisk(disk, L(e)) = {[cert |-> c, key |-> c]}

KInv == Apart /\ KeyTypes /\ KeyHasCert /\ WritingInv /\ TrustInv /\ PairMatches

-----------------------------------------------------------------------------

\* The candidates of an entry are paths, and an entry's own.
LEMMA CandidatesType ==
  ASSUME Apart, NEW e \in Owners
  PROVE /\ Candidates(L(e)) \in SUBSET Nat
        /\ \A i \in Candidates(L(e)) : L(e).certs[i] \in Paths /\ L(e).keys[i] \in Paths
<1>1. L(e).certs \in Seq(Paths) /\ L(e).keys \in Seq(Paths)
  BY DEF Apart, L
<1> DEFINE a == Len(L(e).certs)  b == Len(L(e).keys)
<1>2. a \in Nat /\ b \in Nat
  BY <1>1
<1>3. Min({a, b}) \in {a, b} /\ Min({a, b}) <= a /\ Min({a, b}) <= b
  BY <1>2, MinExists, Zenon
<1>4. Candidates(L(e)) = 1..Min({a, b})
  BY DEF Candidates
<1> HIDE DEF a, b
<1>5. PICK n \in Nat : Candidates(L(e)) = 1..n /\ n <= a /\ n <= b
  BY <1>2, <1>3, <1>4
<1>6. Candidates(L(e)) \in SUBSET Nat /\ \A i \in Candidates(L(e)) : i \in 1..a /\ i \in 1..b
  BY <1>2, <1>5
<1> QED
  BY <1>1, <1>6 DEF a, b

\* The files of one list are all different.
LEMMA ApartWithin ==
  ASSUME Apart, NEW e \in Owners, NEW i \in Candidates(L(e)), NEW j \in Candidates(L(e))
  PROVE /\ L(e).certs[i] # L(e).keys[j]
        /\ i # j => L(e).certs[i] # L(e).certs[j] /\ L(e).keys[i] # L(e).keys[j]
BY DEF Apart, L

\* tryLoadExistingKeyPair reads nothing but the files.
LEMMA LoadIsOnDisk == \A l : tryLoadExistingKeyPair(l) = OnDisk(disk, l)
BY DEF tryLoadExistingKeyPair, OnDisk, Complete

\* The configuration does not change.
LEMMA Fixed ==
  ASSUME UNCHANGED saml
  PROVE /\ Names' = Names /\ Owners' = Owners /\ NoPairs' = NoPairs
        /\ \A e : L(e)' = L(e)
        /\ Apart' = Apart
BY DEF Names, Owners, NoPairs, Inherits, L, resolveSamlKeyPair, Apart, Candidates, Files

\* The pair an entry finds.
LEMMA FoundMatches ==
  ASSUME KInv, NEW e \in Owners, OnDisk(disk, L(e)) # {}
  PROVE \E n \in Nat : OnDisk(disk, L(e)) = {[cert |-> n, key |-> n]}
<1>1. Complete(disk, L(e)) # {} /\ Complete(disk, L(e)) \in SUBSET Nat
  BY CandidatesType, Zenon DEF OnDisk, Complete, KInv
<1>2. Min(Complete(disk, L(e))) \in Complete(disk, L(e))
  BY <1>1, MinExists
<1> DEFINE m == Min(Complete(disk, L(e)))
<1>3. m \in Candidates(L(e)) /\ disk[L(e).certs[m]] = disk[L(e).keys[m]]
  BY <1>2, Zenon DEF Complete, KInv, KeyHasCert
<1>4. disk[L(e).keys[m]] \in Nat
  BY <1>3, CandidatesType DEF KInv, KeyTypes
<1>5. OnDisk(disk, L(e)) = {[cert |-> disk[L(e).certs[m]], key |-> disk[L(e).keys[m]]]}
  BY <1>1 DEF OnDisk
<1> QED
  BY <1>3, <1>4, <1>5

\* Where nothing is found there is no key.
LEMMA NothingFound ==
  ASSUME KInv, NEW e \in Owners, OnDisk(disk, L(e)) = {}
  PROVE NoKeys(disk, L(e)) /\ trusted[e] = {}
<1>1. Complete(disk, L(e)) = {}
  BY Zenon DEF OnDisk
<1>2. NoKeys(disk, L(e))
  BY <1>1 DEF NoKeys, Complete, KInv, KeyHasCert
<1>3. trusted[e] = {}
  BY Zenon DEF KInv, TrustInv, Owners
<1> QED
  BY <1>2, <1>3

\* A list without a key has no pair to load.
LEMMA NoKeysNothingFound ==
  ASSUME NEW e, NoKeys(disk, L(e))
  PROVE OnDisk(disk, L(e)) = {}
BY Zenon DEF NoKeys, OnDisk, Complete

-----------------------------------------------------------------------------
(* Steps.                                                                  *)

\* Steps that leave the files alone.
LEMMA FilesStill ==
  ASSUME KInv, UNCHANGED <<saml, disk, trusted>>
  PROVE Apart' /\ disk' \in [Paths -> Nat] /\ KeyHasCert' /\ TrustInv'
<1>1. Apart' /\ disk' \in [Paths -> Nat]
  BY Fixed DEF KInv, KeyTypes
<1>2. KeyHasCert'
  <2> SUFFICES ASSUME NEW e \in Owners, NEW i \in Candidates(L(e)), disk[L(e).keys[i]] # 0
               PROVE disk[L(e).certs[i]] = disk[L(e).keys[i]]
    BY Fixed DEF KeyHasCert, Candidates
  <2> QED
    BY DEF KInv, KeyHasCert
<1>3. TrustInv'
  BY Fixed DEF KInv, TrustInv
<1> QED
  BY <1>1, <1>2, <1>3

\* Steps that leave the files and pairs alone.
LEMMA KeysStill == ASSUME KInv, UNCHANGED <<saml, keyVars>> PROVE KInv'
<1> USE Fixed
<1>0. UNCHANGED <<saml, disk, pair, writing, made, trusted>>
  BY DEF keyVars
<1>1. Apart' /\ KeyHasCert' /\ TrustInv'
  BY <1>0, FilesStill
<1>2. KeyTypes'
  BY <1>0 DEF KInv, KeyTypes
<1>3. WritingInv'
  BY <1>0 DEF KInv, WritingInv
<1>4. PairMatches'
  BY <1>0 DEF KInv, PairMatches
<1> QED
  BY <1>1, <1>2, <1>3, <1>4 DEF KInv

\* A file of the list of w changes, of which no key is there: the files of
\* other lists stay, and nothing was published from this one.
LEMMA WriteFile ==
  ASSUME KInv, UNCHANGED <<saml, trusted>>, NEW w \in writing,
         NEW v \in Nat, NEW p \in {w.cert, w.key}, disk' = [disk EXCEPT ![p] = v],
         p = w.key => v = 0 \/ disk[w.cert] = v
  PROVE /\ disk' \in [Paths -> Nat] /\ KeyHasCert' /\ TrustInv' /\ p \in Paths
        /\ w.cert # w.key /\ w.cert \in Paths /\ w.key \in Paths
        /\ p = w.cert => NoKeys(disk', L(w.entry))
        /\ v = 0 => NoKeys(disk', L(w.entry))
        /\ trusted[w.entry] = {}
<1> USE Fixed
<1>1. PICK n \in Candidates(L(w.entry)) : w.cert = L(w.entry).certs[n] /\ w.key = L(w.entry).keys[n]
  BY DEF KInv, WritingInv
<1>2. w.entry \in Owners /\ NoKeys(disk, L(w.entry)) /\ OnDisk(disk, L(w.entry)) = {}
  BY NoKeysNothingFound DEF KInv, WritingInv
<1>3. Apart /\ disk \in [Paths -> Nat]
  BY DEF KInv, KeyTypes
<1>4. /\ w.cert \in Paths /\ w.key \in Paths
      /\ \A i \in Candidates(L(w.entry)) : L(w.entry).certs[i] \in Paths /\ L(w.entry).keys[i] \in Paths
  BY <1>1, <1>2, <1>3, CandidatesType
<1>5. /\ \A i \in Candidates(L(w.entry)) : L(w.entry).keys[i] # w.cert /\ L(w.entry).certs[i] # w.key
      /\ \A i \in Candidates(L(w.entry)) : i # n => L(w.entry).keys[i] # w.key /\ L(w.entry).certs[i] # w.cert
  BY <1>1, <1>2, <1>3, ApartWithin
<1>6. ASSUME NEW e \in Owners, L(e) # L(w.entry), NEW i \in Candidates(L(e))
      PROVE disk'[L(e).certs[i]] = disk[L(e).certs[i]] /\ disk'[L(e).keys[i]] = disk[L(e).keys[i]]
  <2>1. Files(L(e)) \cap Files(L(w.entry)) = {}
    BY <1>2, <1>3, <1>6, SMTT(30), ZenonT(30) DEF Apart, L
  <2>2. L(e).certs[i] \in Files(L(e)) /\ L(e).keys[i] \in Files(L(e)) /\ p \in Files(L(w.entry))
    BY <1>1, <1>6 DEF Files
  <2>3. L(e).certs[i] \in Paths /\ L(e).keys[i] \in Paths
    BY <1>3, CandidatesType, SMTT(30), ZenonT(30)
  <2> QED
    BY <1>3, <2>1, <2>2, <2>3, SMTT(30), ZenonT(30)
<1>7. \A i \in Candidates(L(w.entry)) :
        disk'[L(w.entry).keys[i]] # 0 => disk'[L(w.entry).certs[i]] = disk'[L(w.entry).keys[i]]
  BY <1>1, <1>2, <1>3, <1>4, <1>5 DEF NoKeys
<1>8. KeyHasCert'
  <2> SUFFICES ASSUME NEW e \in Owners, NEW i \in Candidates(L(e)), disk'[L(e).keys[i]] # 0
               PROVE disk'[L(e).certs[i]] = disk'[L(e).keys[i]]
    BY DEF KeyHasCert, Candidates
  <2>1. CASE L(e) = L(w.entry)
    BY <1>7, <2>1
  <2>2. CASE L(e) # L(w.entry)
    BY <1>6, <2>2 DEF KInv, KeyHasCert
  <2> QED
    BY <2>1, <2>2
<1>9. TrustInv'
  <2> SUFFICES ASSUME NEW e \in Names, NEW c \in trusted[e]
               PROVE e \in Owners /\ OnDisk(disk', L(e)) = {[cert |-> c, key |-> c]}
    BY Zenon DEF TrustInv
  <2>1. e \in Owners /\ OnDisk(disk, L(e)) = {[cert |-> c, key |-> c]}
    BY DEF KInv, TrustInv
  <2>2. L(e) # L(w.entry)
    BY <1>2, <2>1, Zenon
  <2>3. Complete(disk', L(e)) = Complete(disk, L(e))
    BY <1>6, <2>1, <2>2 DEF Complete
  <2>4. Complete(disk, L(e)) # {}
    BY <2>1, Zenon DEF OnDisk
  <2>5. Min(Complete(disk, L(e))) \in Candidates(L(e))
    BY <1>3, <2>1, <2>4, CandidatesType, MinExists DEF Complete
  <2> DEFINE m == Min(Complete(disk, L(e)))
  <2>6. OnDisk(disk', L(e)) = OnDisk(disk, L(e))
    <3>1. disk'[L(e).certs[m]] = disk[L(e).certs[m]] /\ disk'[L(e).keys[m]] = disk[L(e).keys[m]]
      BY <1>6, <2>1, <2>2, <2>5
    <3>2. OnDisk(disk, L(e)) = {[cert |-> disk[L(e).certs[m]], key |-> disk[L(e).keys[m]]]}
      BY <2>4, Zenon DEF OnDisk
    <3>3. OnDisk(disk', L(e)) = {[cert |-> disk'[L(e).certs[m]], key |-> disk'[L(e).keys[m]]]}
      BY <2>3, <2>4, Zenon DEF OnDisk
    <3> QED
      BY <3>1, <3>2, <3>3, ZenonT(30)
  <2> QED
    BY <2>1, <2>6, Zenon
<1>10. (p = w.cert => NoKeys(disk', L(w.entry))) /\ (v = 0 => NoKeys(disk', L(w.entry)))
  BY <1>2, <1>3, <1>4, <1>5 DEF NoKeys
<1>11. trusted[w.entry] = {}
  BY <1>2, ZenonT(30) DEF KInv, TrustInv, Owners
<1>12. w.cert # w.key
  BY <1>1, <1>5
<1> QED
  BY <1>3, <1>4, <1>8, <1>9, <1>10, <1>11, <1>12

\* LoadOrGenerateSPKeyPair: a pair is found, begun, or neither.
LEMMA StepLoadOrGenerate ==
  ASSUME KInv, UNCHANGED saml, NEW e \in Names, LoadOrGenerateSPKeyPair(e)
  PROVE KInv'
<1> USE Fixed
<1> DEFINE lists == L(e)
           found == OnDisk(disk, L(e))
           places == {i \in Candidates(L(e)) : L(e).certs[i] \in saml.dirs}
<1>0. /\ e \in Owners /\ writing = {} /\ disk' = disk
      /\ Apart /\ KeyTypes /\ KeyHasCert /\ TrustInv /\ PairMatches
  BY SMTT(30), ZenonT(30) DEF LoadOrGenerateSPKeyPair, Turn, KInv
<1>1. Apart' /\ KeyHasCert'
  BY <1>0 DEF KeyHasCert
<1>2. CASE /\ found # {} /\ Settle(e, found)
           /\ trusted' = [trusted EXCEPT ![e] = IF @ = {} THEN {kp.cert : kp \in found} ELSE @]
           /\ UNCHANGED <<writing, made>>
  <2>1. PICK n \in Nat : found = {[cert |-> n, key |-> n]}
    BY <1>0, <1>2, FoundMatches
  <2>2. {kp.cert : kp \in found} = {n}
    BY <2>1
  <2>3. ASSUME NEW c \in trusted[e] PROVE c = n
    <3>1. [cert |-> c, key |-> c] = [cert |-> n, key |-> n]
      BY <1>0, <2>1 DEF TrustInv
    <3> QED
      BY <3>1
  <2>4. (IF trusted[e] = {} THEN {kp.cert : kp \in found} ELSE trusted[e]) = {n}
    BY <2>2, <2>3, SMTT(30), ZenonT(30)
  <2>5. /\ pair' = [pair EXCEPT ![e] = {[cert |-> n, key |-> n]}]
        /\ trusted' = [trusted EXCEPT ![e] = {n}]
    BY <1>2, <2>1, <2>4, Zenon DEF Settle
  <2> HIDE DEF found
  <2>6. KeyTypes'
    <3>1. pair' \in [Names -> SUBSET [cert : Nat, key : Nat]]
      BY <1>0, <2>5 DEF KeyTypes
    <3>2. trusted' \in [Names -> SUBSET Nat]
      BY <1>0, <2>5 DEF KeyTypes
    <3>3. disk' \in [Paths -> Nat] /\ made' \in Nat
      BY <1>0, <1>2 DEF KeyTypes
    <3> QED
      BY <3>1, <3>2, <3>3 DEF KeyTypes
  <2>7. TrustInv'
    BY <1>0, <2>1, <2>5 DEF TrustInv, KeyTypes, found
  <2>8. PairMatches'
    BY <1>0, <2>5, SMTT(30), ZenonT(30) DEF PairMatches, KeyTypes
  <2>9. WritingInv'
    BY <1>0, <1>2 DEF WritingInv
  <2> QED
    BY <1>1, <2>6, <2>7, <2>8, <2>9 DEF KInv
<1>3. CASE /\ found = {} /\ Settle(e, {[cert |-> made + 1, key |-> made + 1]})
           /\ made' = made + 1 /\ UNCHANGED <<writing, trusted>>
  <2>1. trusted[e] = {}
    BY <1>0, <1>3, NothingFound
  <2>2. pair' = [pair EXCEPT ![e] = {[cert |-> made + 1, key |-> made + 1]}]
    BY <1>3 DEF Settle
  <2> HIDE DEF found
  <2>3. KeyTypes'
    BY <1>0, <1>3, <2>2 DEF KeyTypes
  <2>4. TrustInv'
    BY <1>0, <1>3 DEF TrustInv
  <2>5. PairMatches'
    BY <1>0, <1>3, <2>1, <2>2, SMTT(30), ZenonT(30) DEF PairMatches, KeyTypes
  <2>6. WritingInv'
    BY <1>0, <1>3 DEF WritingInv
  <2> QED
    BY <1>1, <2>3, <2>4, <2>5, <2>6, SMTT(30), ZenonT(30) DEF KInv
<1>4. CASE /\ found = {} /\ places # {}
           /\ writing' = {[entry |-> e, cert |-> lists.certs[Min(places)], key |-> lists.keys[Min(places)],
                           next |-> "cert"]}
           /\ made' = made + 1 /\ UNCHANGED <<pair, todo, trusted>>
  <2>1. NoKeys(disk, L(e))
    BY <1>0, <1>4, NothingFound
  <2>2. places \in SUBSET Nat
    BY <1>0, CandidatesType, SMTT(30), ZenonT(30)
  <2>3. /\ Min(places) \in Candidates(L(e))
        /\ lists.certs[Min(places)] \in Paths /\ lists.keys[Min(places)] \in Paths
    <3>1. Min(places) \in places
      BY <1>4, <2>2, MinExists
    <3> QED
      BY <1>0, <3>1, CandidatesType, Zenon
  <2> HIDE DEF places, found
  <2>4. KeyTypes' /\ made' # 0
    <3>1. made \in Nat /\ made' = made + 1
      BY <1>0, <1>4 DEF KeyTypes
    <3>2. made' \in Nat /\ made' # 0
      BY <3>1, SMTT(30), ZenonT(30)
    <3> QED
      BY <1>0, <1>4, <3>2, Zenon DEF KeyTypes
  <2>5. WritingInv'
    <3>1. PICK w : w = [entry |-> e, cert |-> lists.certs[Min(places)], key |-> lists.keys[Min(places)], next |-> "cert"]
      BY Zenon
    <3>2. w.entry = e /\ w.cert = lists.certs[Min(places)] /\ w.key = lists.keys[Min(places)] /\ w.next = "cert"
      BY <3>1
    <3>3. w \in [entry : Names, cert : Paths, key : Paths, next : {"cert", "key"}]
      BY <1>0, <2>3, <3>1
    <3> QED
      BY <1>0, <1>4, <2>1, <2>3, <2>4, <3>1, <3>2, <3>3, ZenonT(30) DEF WritingInv
  <2>6. TrustInv' /\ PairMatches'
    BY <1>0, <1>4 DEF TrustInv, PairMatches
  <2> QED
    BY <1>1, <2>4, <2>5, <2>6, SMTT(30), ZenonT(30) DEF KInv
<1> QED
  BY <1>2, <1>3, <1>4, LoadIsOnDisk, Zenon DEF LoadOrGenerateSPKeyPair, L

\* An entry without lists of its own takes the pair of the defaults.
LEMMA StepInherit ==
  ASSUME KInv, UNCHANGED saml, NEW e \in Names, Inherit(e)
  PROVE KInv'
<1> USE Fixed
<1>1. /\ pair' = [pair EXCEPT ![e] = pair[Shared]]
      /\ UNCHANGED <<disk, writing, made, trusted>> /\ e \notin Owners /\ Shared \in Names
  BY DEF Inherit, Settle, Owners, Names
<1>2. trusted[e] = {}
  BY <1>1 DEF KInv, TrustInv
<1>3. KeyTypes' /\ KeyHasCert' /\ WritingInv' /\ TrustInv' /\ Apart'
  <2>1. Apart' /\ KeyHasCert' /\ TrustInv'
    BY <1>1, FilesStill
  <2>2. KeyTypes'
    BY <1>1 DEF KInv, KeyTypes
  <2>3. WritingInv'
    BY <1>1 DEF KInv, WritingInv
  <2> QED
    BY <2>1, <2>2, <2>3
<1>4. PairMatches'
  BY <1>1, <1>2, SMTT(30), ZenonT(30) DEF KInv, KeyTypes, PairMatches
<1> QED
  BY <1>3, <1>4 DEF KInv

\* The certificate is written first, so the list is still without a key.
LEMMA StepWriteCert == ASSUME KInv, UNCHANGED saml, WriteCert PROVE KInv'
<1> USE Fixed
<1>1. PICK w \in writing : /\ w.next = "cert" /\ disk' = [disk EXCEPT ![w.cert] = made]
                           /\ writing' = {[w EXCEPT !.next = "key"]}
                           /\ UNCHANGED <<todo, pair, made, trusted>>
  BY Zenon DEF WriteCert
<1>2. w.cert # w.key
  <2>1. Apart /\ w.entry \in Owners
    BY DEF KInv, WritingInv
  <2>2. PICK i \in Candidates(L(w.entry)) : w.cert = L(w.entry).certs[i] /\ w.key = L(w.entry).keys[i]
    BY DEF KInv, WritingInv
  <2> QED
    BY <2>1, <2>2, ApartWithin
<1>3. /\ disk' \in [Paths -> Nat] /\ KeyHasCert' /\ TrustInv' /\ NoKeys(disk', L(w.entry))
      /\ w.cert # w.key /\ w.cert \in Paths
  BY <1>1, <1>2, WriteFile, Zenon DEF KInv, KeyTypes
<1>4. Apart' /\ KeyTypes' /\ PairMatches'
  BY <1>1, <1>3 DEF KInv, KeyTypes, PairMatches
<1>5. disk'[w.cert] = made
  BY <1>1, <1>3 DEF KInv, KeyTypes
<1>6. WritingInv'
  BY <1>1, <1>3, <1>5 DEF KInv, WritingInv
<1> QED
  BY <1>3, <1>4, <1>6 DEF KInv

\* The key completes the pair that was begun.
LEMMA StepWriteKey == ASSUME KInv, UNCHANGED saml, WriteKey PROVE KInv'
<1> USE Fixed
<1>1. PICK w \in writing : /\ w.next = "key" /\ disk' = [disk EXCEPT ![w.key] = made]
                           /\ writing' = {}
                           /\ pair' = [pair EXCEPT ![w.entry] = {[cert |-> made, key |-> made]}]
                           /\ UNCHANGED <<made, trusted>>
  BY Zenon DEF WriteKey, Settle
<1>2. disk[w.cert] = made /\ w.entry \in Names
  BY <1>1 DEF KInv, WritingInv
<1>3. disk' \in [Paths -> Nat] /\ KeyHasCert' /\ TrustInv' /\ trusted[w.entry] = {}
  BY <1>1, <1>2, WriteFile, Zenon DEF KInv, KeyTypes
<1>4. Apart' /\ WritingInv'
  BY <1>1 DEF KInv, WritingInv
<1>5. KeyTypes'
  BY <1>1, <1>2, <1>3 DEF KInv, KeyTypes
<1>6. PairMatches'
  <2>1. \A e \in Names : pair'[e] = IF e = w.entry THEN {[cert |-> made, key |-> made]} ELSE pair[e]
    BY <1>1, <1>2, SMTT(30), ZenonT(30) DEF KInv, KeyTypes
  <2> QED
    BY <1>1, <1>3, <2>1 DEF KInv, PairMatches
<1> QED
  BY <1>3, <1>4, <1>5, <1>6 DEF KInv

\* A file of the pair that is being written is left as it was or empty.
LEMMA CutOff ==
  ASSUME KInv, UNCHANGED <<saml, made, trusted>>, NEW w \in writing, NEW v,
         disk' = [disk EXCEPT ![IF w.next = "cert" THEN w.cert ELSE w.key] = v],
         v \in {0, disk[IF w.next = "cert" THEN w.cert ELSE w.key]}
  PROVE disk' \in [Paths -> Nat] /\ KeyHasCert' /\ TrustInv'
<1> DEFINE p == IF w.next = "cert" THEN w.cert ELSE w.key
<1>1. p \in Paths /\ p \in {w.cert, w.key}
  BY DEF KInv, WritingInv
<1>2. p = w.key => disk[p] = 0
  <2>1. PICK i \in Candidates(L(w.entry)) : w.key = L(w.entry).keys[i]
    BY DEF KInv, WritingInv
  <2>2. NoKeys(disk, L(w.entry))
    BY DEF KInv, WritingInv
  <2> QED
    BY <2>1, <2>2 DEF NoKeys
<1>3. v \in Nat /\ (p = w.key => v = 0)
  BY <1>1, <1>2 DEF KInv, KeyTypes
<1> HIDE DEF p
<1> QED
  BY <1>1, <1>3, WriteFile, ZenonT(30) DEF p

\* A write that fails leaves the file as it was or empty.
LEMMA StepWriteFails == ASSUME KInv, UNCHANGED saml, WriteFails PROVE KInv'
<1> USE Fixed
<1>1. PICK w \in writing :
        /\ \E file \in {IF w.next = "cert" THEN w.cert ELSE w.key} :
             \E left \in {0, disk[file]} : disk' = [disk EXCEPT ![file] = left]
        /\ writing' = {}
        /\ IF w.entry = Shared THEN pair' = NoPairs /\ todo' = {} ELSE Settle(w.entry, {})
        /\ UNCHANGED <<made, trusted>>
  BY Zenon DEF WriteFails
<1>2. disk' \in [Paths -> Nat] /\ KeyHasCert' /\ TrustInv'
  BY <1>1, CutOff, ZenonT(30)
<1>3. pair' = NoPairs \/ pair' = [pair EXCEPT ![w.entry] = {}]
  BY <1>1 DEF Settle
<1>4. Apart' /\ KeyTypes' /\ WritingInv'
  BY <1>1, <1>2, <1>3, ZenonT(30) DEF KInv, KeyTypes, WritingInv, NoPairs
<1>5. PairMatches'
  BY <1>1, <1>3 DEF KInv, KeyTypes, PairMatches, NoPairs
<1> QED
  BY <1>2, <1>4, <1>5 DEF KInv

\* A crash cuts off the write and drops the pairs, not the files.
LEMMA StepForget == ASSUME KInv, UNCHANGED saml, Forget PROVE KInv'
<1> USE Fixed
<1>1. writing' = {} /\ pair' = NoPairs /\ UNCHANGED <<made, trusted>>
  BY DEF Forget
<1>2. disk' \in [Paths -> Nat] /\ KeyHasCert' /\ TrustInv'
  <2>1. CASE UNCHANGED disk
    BY <1>1, <2>1, FilesStill
  <2>2. ASSUME NEW w \in writing, disk' = [disk EXCEPT ![IF w.next = "cert" THEN w.cert ELSE w.key] = 0]
        PROVE disk' \in [Paths -> Nat] /\ KeyHasCert' /\ TrustInv'
    BY <1>1, <2>2, CutOff, Zenon
  <2> QED
    BY <2>1, <2>2 DEF Forget
<1>3. Apart' /\ KeyTypes' /\ WritingInv' /\ PairMatches'
  BY <1>1, <1>2 DEF KInv, KeyTypes, WritingInv, PairMatches, NoPairs
<1> QED
  BY <1>2, <1>3 DEF KInv

-----------------------------------------------------------------------------

\* There is no file and no pair at first.
LEMMA KeyInit == Init /\ Apart => KInv
<1> SUFFICES ASSUME Init, Apart PROVE KInv
  OBVIOUS
<1>1. /\ disk = [p \in Paths |-> 0] /\ writing = {} /\ made = 0
      /\ pair = NoPairs /\ trusted = NoPairs
  BY DEF Init
<1>2. KeyHasCert
  BY <1>1, CandidatesType DEF KeyHasCert
<1> QED
  BY <1>1, <1>2 DEF KInv, KeyTypes, WritingInv, TrustInv, PairMatches, NoPairs

\* Every step of the process keeps the invariant.
LEMMA KeyStep == KInv /\ [Next]_vars => KInv'
<1> SUFFICES ASSUME KInv, [Next]_vars PROVE KInv'
  OBVIOUS
<1>1. CASE Load \/ InStart \/ InCommand \/ Time
  BY <1>1, KeysStill DEF Load, InStart, InCommand, Time, fixed
<1>2. CASE Ending(Kill) \/ Ending(logLinesEnds) \/ Ending(LeftBehindEnds)
  BY <1>2, KeysStill DEF Ending, fixed
<1>3. CASE BeginMount
  <2>1. pair' = NoPairs /\ UNCHANGED <<saml, disk, writing, made, trusted>>
    BY <1>3, SMTT(30), ZenonT(30) DEF BeginMount, fixed
  <2> QED
    <3>1. Apart' /\ KeyHasCert' /\ TrustInv'
      BY <2>1, FilesStill
    <3>2. KeyTypes'
      BY <2>1, Fixed, SMTT(30), ZenonT(30) DEF KInv, KeyTypes, NoPairs
    <3>3. WritingInv'
      BY <2>1, Fixed, SMTT(30), ZenonT(30) DEF KInv, WritingInv
    <3>4. PairMatches'
      BY <2>1, Fixed DEF KInv, PairMatches, NoPairs
    <3> QED
      BY <3>1, <3>2, <3>3, <3>4 DEF KInv
<1>4. CASE BuildFails \/ Discoveries \/ Serve \/ Browsing \/ Reload \/ AtEnd
  BY <1>4, KeysStill, Zenon DEF BuildFails, Discoveries, Serve, Browsing, Reload, AtEnd, fixed
<1>5. ASSUME NEW f \in Flows, Handling(f) \/ Answered(f) PROVE KInv'
  BY <1>5, KeysStill DEF Handling, Answered, fixed
<1>6. CASE Pairs
  <2>1. UNCHANGED saml /\ Pairing
    BY <1>6 DEF Pairs, fixed
  <2> QED
    BY <2>1, StepLoadOrGenerate, StepInherit, StepWriteCert, StepWriteKey, StepWriteFails DEF Pairing
<1>7. CASE Crash
  BY <1>7, StepForget DEF Crash, fixed
<1>8. CASE UNCHANGED vars
  BY <1>8, KeysStill DEF vars, fixed
<1> QED
  BY <1>1, <1>2, <1>3, <1>4, <1>5, <1>6, <1>7, <1>8 DEF Next

\* Entries that keep their files apart sign with the key of the certificate
\* they publish, and go on publishing the one they had from their file, for
\* any number of entries, candidates, failing writes and crashes
\* (LoadOrGenerateSPKeyPair, resolveSamlKeyPair).
THEOREM PairsMatch == Spec /\ Apart => []PairMatches
<1>1. KInv => PairMatches
  BY DEF KInv
<1> QED
  BY <1>1, KeyInit, KeyStep, PTL DEF Spec

-----------------------------------------------------------------------------
(* The session of a browser.                                               *)

Tokens == [role : {"user"}, iat : Nat, exp : Nat, auth : Nat, by : {"rel"}, key : SUBSET Int]

\* What every token in the browser's hands is.
Good(t) == t \in Tokens /\ t.exp = t.iat + MaxAge /\ t.auth \in signed /\ t.iat <= now

SessionTypes ==
  /\ now \in Nat /\ signed \subseteq Nat /\ lapsed \in BOOLEAN /\ seen \in Nat
  /\ jar = [state |-> jar.state, session |-> jar.session]
  /\ \A t \in jar.session : Good(t)
  /\ DOMAIN tab = Tabs /\ tab = [v \in Tabs |-> tab[v]]
  /\ \A v \in Tabs : \A t \in tab[v].session : Good(t)

\* The files of the secret, and what the process makes of them: a secret that
\* will be there at the next start is the one its files hold.
SecretInv ==
  /\ source.form \in {"gen", "default", "plain"}
  /\ source.paths \in Seq(DOMAIN source.files)
  /\ vault \in [DOMAIN source.files -> Int]
  /\ drawn \in Nat /\ secret \subseteq Int
  /\ step = "load" => secret = {}
  /\ step \notin {"load", "failed"} => secret # {}
  /\ stowing # {} => step = "load" /\ Generates /\ stowing = Creatable /\ drawn # 0
  /\ secret # {} /\ Persisted => secret = Value

\* A session that has not lapsed was renewed or used in time, and its secret
\* is the process' or, between two of them, in the files.
KeptInv ==
  ~lapsed => \A t \in jar.session :
    /\ jar.session = {t}
    /\ seen <= now /\ t.iat <= seen
    /\ (seen - t.iat) * 100 <= RenewAfter * MaxAge
    /\ t.key # {}
    /\ IF secret = {} THEN Value = t.key ELSE secret = t.key

SInv == SessionTypes /\ SecretInv /\ KeptInv

-----------------------------------------------------------------------------
(* The secret.                                                             *)

\* The first of the candidates, where there is one.
LEMMA FirstIs ==
  ASSUME NEW S \in SUBSET Nat, S # {}
  PROVE \E i \in S : First(S) = {i}
BY MinExists, Zenon DEF First

\* A file that is written holds an integer, as every file does.
LEMMA Rewritten ==
  ASSUME NEW F, NEW v \in [F -> Int], NEW p, NEW x \in Int
  PROVE [v EXCEPT ![p] = x] \in [F -> Int]
BY Zenon

\* The candidates are places in the list of paths.
LEMMA PlacesAreNat ==
  ASSUME SecretInv
  PROVE Places \in SUBSET Nat /\ \A i \in Places : source.paths[i] \in DOMAIN source.files
BY DEF SecretInv, Places

\* What the files say is a value.
LEMMA ValueIsInt == ASSUME SecretInv PROVE Value \subseteq Int
<1> USE PlacesAreNat
<1>1. \A i \in Places : Held(i) \in Int
  BY DEF Held, SecretInv
<1>2. ASSUME NEW S \in SUBSET Places PROVE {Held(i) : i \in First(S)} \subseteq Int
  BY <1>1, FirstIs DEF First
<1>3. readFirstExisting \subseteq Int
  BY <1>2, Zenon DEF readFirstExisting
<1>4. Existing \subseteq Int
  BY <1>2, Zenon DEF Existing
<1> QED
  BY <1>3, <1>4 DEF Value, SecretInv, Fallback

\* The operators of the secret depend on the files and the configuration.
LEMMA SameFiles ==
  ASSUME UNCHANGED <<source, vault>>
  PROVE /\ Value' = Value /\ Persisted' = Persisted /\ Generates' = Generates /\ Creatable' = Creatable
        /\ Existing' = Existing
BY DEF Value, Persisted, Generates, Creatable, Existing, readFirstExisting, First, Places, Held

\* A generated secret that is written is what the files hold.
LEMMA StowedIsHeld ==
  ASSUME SecretInv, UNCHANGED source, Stowed
  PROVE Value' = {drawn} /\ vault' \in [DOMAIN source.files -> Int]
<1>1. PICK p \in stowing : vault' = [vault EXCEPT ![p] = drawn]
  BY Zenon DEF Stowed
<1>2. Generates /\ stowing = Creatable /\ drawn \in Nat /\ drawn # 0 /\ vault \in [DOMAIN source.files -> Int]
  BY <1>1 DEF SecretInv
<1>3. \A i \in Places : Held(i) = Missing
  <2>1. {Held(i) : i \in First({i \in Places : Held(i) # Missing})} = {}
    BY <1>2 DEF Generates, Existing
  <2>2. {i \in Places : Held(i) # Missing} = {}
    BY <2>1, FirstIs, PlacesAreNat, Zenon DEF First
  <2> QED
    BY <2>2
<1>4. PICK m \in Places : p = source.paths[m]
  <2> DEFINE D == {i \in Places : source.paths[i] \in source.dirs}
  <2>1. p \in {source.paths[i] : i \in First(D)}
    BY <1>2 DEF Creatable
  <2>2. D \in SUBSET Nat /\ D # {}
    BY <2>1, PlacesAreNat, Zenon DEF First
  <2> HIDE DEF D
  <2>3. PICK i \in D : First(D) = {i}
    BY <2>2, FirstIs
  <2> QED
    BY <2>1, <2>3, Zenon DEF D
<1>5. \A i \in Places : vault'[source.paths[i]] \in {Missing, drawn}
  BY <1>1, <1>2, <1>3, PlacesAreNat DEF Held
<1>6. vault'[source.paths[m]] = drawn /\ drawn # Missing
  BY <1>1, <1>2, <1>4, PlacesAreNat DEF Missing
<1> DEFINE S == {i \in Places : vault'[source.paths[i]] # Missing}
<1>7. S # {} /\ S \in SUBSET Nat
  BY <1>6, PlacesAreNat
<1>8. PICK i \in S : First(S) = {i}
  BY <1>7, FirstIs, Zenon
<1>9. Existing' = {vault'[source.paths[j]] : j \in First(S)}
  BY DEF Existing, Held, Places
<1>10. Existing' = {drawn}
  BY <1>5, <1>8, <1>9, ZenonT(30)
<1>11. source.form = "gen"
  BY <1>2 DEF Generates
<1>12. Value' = Existing' \ {Unreadable, Other}
  BY <1>11 DEF Value
<1>13. drawn \notin {Unreadable, Other}
  BY <1>2 DEF Unreadable, Other
<1>14. vault' \in [DOMAIN source.files -> Int]
  BY <1>1, <1>2, Rewritten
<1> QED
  BY <1>10, <1>12, <1>13, <1>14

\* Steps that leave the secret alone.
LEMMA SecretStill ==
  ASSUME SecretInv, UNCHANGED <<source, secretVars>>,
         step' = step \/ (step \notin {"load", "failed"} /\ step' # "load")
  PROVE SecretInv'
<1>1. UNCHANGED <<source, vault, secret, drawn, stowing>>
  BY DEF secretVars
<1> QED
  BY <1>1, SameFiles DEF SecretInv

\* The end of a process that may be writing.
LEMMA SecretCut ==
  ASSUME SecretInv, UNCHANGED source, Cut, step' \in {"load", "failed"}
  PROVE SecretInv' /\ (stowing = {} => Value' = Value)
<1>1. vault' \in [DOMAIN source.files -> Int]
  BY Rewritten DEF SecretInv, Cut, Other
<1>2. UNCHANGED drawn /\ stowing' = {} /\ secret' = {} /\ (stowing = {} => UNCHANGED vault)
  BY DEF Cut
<1> QED
  BY <1>1, <1>2, SameFiles DEF SecretInv

\* Nothing is read from the files where a value is generated.
LEMMA GeneratesNone == Generates => Value = {}
BY DEF Generates, Value

-----------------------------------------------------------------------------
(* The configuration is loaded, and the process dies.                      *)

\* The browser's variables, which Load leaves alone.
LEMMA TypesStill ==
  ASSUME SessionTypes, UNCHANGED <<now, tab, jar, signed, seen, lapsed>>
  PROVE SessionTypes'
BY DEF SessionTypes, Good

\* A session that is kept finds its secret again, or there was none.
LEMMA StepLoad == ASSUME SInv, Load PROVE SInv'
<1>1. /\ UNCHANGED <<source, now, tab, jar, signed, seen, lapsed>> /\ step = "load"
      /\ secret = {} /\ SecretInv
  BY DEF Load, fixed, signVars, SInv, SecretInv
<1>2. SessionTypes'
  BY <1>1, TypesStill DEF SInv
<1>3. CASE resolveFileValue /\ step' \in {"start", "failed"}
  <2>1. UNCHANGED <<source, vault>> /\ secret' = Value /\ Value # {} /\ stowing' = {} /\ drawn' = drawn
    BY <1>1, <1>3 DEF resolveFileValue
  <2>2. SecretInv'
    BY <1>1, <1>3, <2>1, SameFiles, ValueIsInt, SMTT(30), ZenonT(30) DEF SecretInv
  <2>3. KeptInv'
    BY <1>1, <2>1, SMTT(30), ZenonT(30) DEF SInv, KeptInv
  <2> QED
    BY <1>2, <2>2, <2>3 DEF SInv
<1>4. CASE Ephemeral /\ step' \in {"start", "failed"}
  <2>1. /\ UNCHANGED <<source, vault>> /\ secret' = {drawn + 1} /\ stowing' = {} /\ drawn' = drawn + 1
        /\ Generates /\ ~Persisted
    BY <1>1, <1>4 DEF Ephemeral, Generates, Persisted
  <2>2. SecretInv'
    BY <1>1, <1>4, <2>1, SameFiles, SMTT(30), ZenonT(30) DEF SecretInv
  <2>3. KeptInv'
    BY <1>1, <2>1, GeneratesNone DEF SInv, KeptInv
  <2> QED
    BY <1>2, <2>2, <2>3 DEF SInv
<1>5. CASE Stowed /\ step' \in {"start", "failed"}
  <2>1. secret' = {drawn} /\ stowing' = {} /\ drawn' = drawn /\ Generates
    BY <1>1, <1>5 DEF Stowed, SecretInv
  <2>2. Value' = {drawn} /\ vault' \in [DOMAIN source.files -> Int]
    BY <1>1, <1>5, StowedIsHeld, SMTT(30), ZenonT(30)
  <2>3. SecretInv'
    BY <1>1, <1>5, <2>1, <2>2, SMTT(30), ZenonT(30) DEF SecretInv
  <2>4. KeptInv'
    BY <1>1, <2>1, GeneratesNone DEF SInv, KeptInv
  <2> QED
    BY <1>2, <2>3, <2>4 DEF SInv
<1>6. CASE resolveGenValue /\ step' = step
  <2>1. /\ UNCHANGED <<source, vault, secret>> /\ Generates /\ stowing' = Creatable /\ drawn' = drawn + 1
    BY <1>1, <1>6 DEF resolveGenValue
  <2>2. SecretInv'
    BY <1>1, <1>6, <2>1, SameFiles, SMTT(30), ZenonT(30) DEF SecretInv
  <2>3. KeptInv'
    BY <1>1, <2>1, GeneratesNone DEF SInv, KeptInv
  <2> QED
    BY <1>2, <2>2, <2>3 DEF SInv
<1>7. CASE Unresolved /\ step' = "failed"
  <2>1. UNCHANGED <<source, secretVars, vault, secret, drawn, stowing>> /\ stowing = {}
    BY <1>1, <1>7 DEF Unresolved, secretVars
  <2>2. SecretInv'
    BY <1>1, <1>7, <2>1, SameFiles, SMTT(30), ZenonT(30) DEF SecretInv
  <2>3. KeptInv'
    BY <1>1, <2>1, SameFiles DEF SInv, KeptInv
  <2> QED
    BY <1>2, <2>2, <2>3 DEF SInv
<1>8. CASE stowing # {} /\ Cut /\ step' = "failed"
  <2>1. SecretInv'
    BY <1>1, <1>8, SecretCut
  <2>2. Value = {}
    BY <1>1, <1>8, GeneratesNone, SMTT(30), ZenonT(30) DEF SecretInv
  <2>3. KeptInv'
    BY <1>1, <2>2 DEF SInv, KeptInv
  <2> QED
    BY <1>2, <2>1, <2>3 DEF SInv
<1> QED
  BY <1>3, <1>4, <1>5, <1>6, <1>7, <1>8, SMTT(30), ZenonT(30) DEF Load, Goto

\* A session outlives the process when its secret does.
LEMMA StepCrash == ASSUME SInv, Crash PROVE SInv'
<1>1. /\ UNCHANGED <<source, now, jar, signed>> /\ Cut /\ step' = "load" /\ secret' = {}
      /\ lapsed' = (lapsed \/ ~Persisted) /\ seen' = IF lapsed' THEN 0 ELSE seen
      /\ tab' = [v \in Tabs |-> IF tab[v].pc = "sent" THEN [pc |-> "rest", session |-> {}] ELSE tab[v]]
  BY SMTT(30), ZenonT(30) DEF Crash, Goto, fixed, Cut
<1>2. SessionTypes'
  BY <1>1, SMTT(30), ZenonT(30) DEF SInv, SessionTypes, Good
<1>3. SecretInv'
  BY <1>1, SecretCut, SMTT(30), ZenonT(30) DEF SInv
<1>4. ASSUME ~lapsed', NEW t \in jar'.session
      PROVE jar'.session = {t} /\ seen' <= now' /\ t.iat <= seen'
            /\ (seen' - t.iat) * 100 <= RenewAfter * MaxAge /\ t.key # {} /\ Value' = t.key
  <2>1. ~lapsed /\ Persisted /\ seen' = seen /\ t \in jar.session
    BY <1>1, <1>4, ZenonT(30)
  <2>2. Value = t.key /\ t.key # {}
    BY <2>1 DEF SInv, KeptInv, SecretInv
  <2>3. stowing = {}
    BY <2>2, GeneratesNone DEF SInv, SecretInv
  <2>4. Value' = Value
    BY <1>1, <2>3, SecretCut, SMTT(30), ZenonT(30) DEF SInv
  <2> QED
    BY <1>1, <2>1, <2>2, <2>4, SMTT(30), ZenonT(30) DEF SInv, KeptInv
<1>5. KeptInv'
  BY <1>1, <1>4 DEF KeptInv
<1> QED
  BY <1>2, <1>3, <1>5 DEF SInv

-----------------------------------------------------------------------------
(* The browser.                                                            *)

\* Steps that leave the session alone; the state cookie may change.
LEMMA SessionStill ==
  ASSUME SInv, UNCHANGED <<source, secretVars, now, tab, signed, seen, lapsed>>,
         step' = step \/ (step \notin {"load", "failed"} /\ step' # "load"),
         \E c : jar' = [jar EXCEPT !.state = c]
  PROVE SInv'
<1>1. SecretInv'
  BY SecretStill DEF SInv
<1>2. jar' = [state |-> jar'.state, session |-> jar'.session] /\ jar'.session = jar.session
  BY DEF SInv, SessionTypes
<1>3. SessionTypes'
  BY <1>2 DEF SInv, SessionTypes, Good
<1>4. UNCHANGED <<source, vault, secret>>
  BY DEF secretVars
<1>5. KeptInv'
  BY <1>2, <1>4, SameFiles, SMTT(30), ZenonT(30) DEF SInv, KeptInv
<1> QED
  BY <1>1, <1>3, <1>5 DEF SInv

\* Steps that leave all of the browser alone.
LEMMA AllStill ==
  ASSUME SInv, UNCHANGED <<source, secretVars, now, tab, jar, signed, seen, lapsed>>,
         step' = step \/ (step \notin {"load", "failed"} /\ step' # "load")
  PROVE SInv'
<1>1. jar' = [jar EXCEPT !.state = jar.state]
  BY DEF SInv, SessionTypes
<1> QED
  BY <1>1, SessionStill, Zenon

\* The callback function signs the user in: a token of its own.
LEMMA StepInvoke ==
  ASSUME SInv, NEW f \in Flows, invokeCallback(f), step = "serving", UNCHANGED <<source, secretVars, step>>
  PROVE SInv'
<1>1. UNCHANGED <<now, tab, vault, secret, source>> /\ SecretInv' /\ secret # {} /\ secret \subseteq Int
  BY SecretStill DEF invokeCallback, SInv, SecretInv, secretVars
<1>2. CASE UNCHANGED <<signed, seen, lapsed>> /\ \E c : jar' = [jar EXCEPT !.state = c]
  BY <1>1, <1>2, SessionStill, ZenonT(30)
<1>3. CASE lapsed' = TRUE /\ seen' = 0 /\ UNCHANGED signed /\ \E c : jar' = [state |-> c, session |-> {}]
  <2>1. SessionTypes'
    BY <1>1, <1>3, SMTT(30), ZenonT(30) DEF SInv, SessionTypes, Good
  <2>2. KeptInv'
    BY <1>3, Zenon DEF KeptInv
  <2> QED
    BY <1>1, <2>1, <2>2 DEF SInv
<1>4. CASE /\ \E c : jar' = [state |-> c, session |-> {Sign(Mint("user", now, MaxAge, now))}]
           /\ signed' = signed \cup {now} /\ seen' = now /\ lapsed' = FALSE
  <2>1. now \in Nat /\ MaxAge \in Nat
    BY SignOnAssumption DEF SInv, SessionTypes
  <2>2. PICK t : t = [role |-> "user", iat |-> now, exp |-> now + MaxAge, auth |-> now, by |-> "rel", key |-> secret]
    BY Zenon
  <2>3. Sign(Mint("user", now, MaxAge, now)) = t
    BY <2>2 DEF Sign, Mint
  <2>4. t.exp = t.iat + MaxAge /\ t.auth = now /\ t.iat = now /\ t.key = secret
    BY <2>2
  <2>5. t \in Tokens
    BY <1>1, <2>2, <2>1 DEF Tokens
  <2>6. jar' = [state |-> jar'.state, session |-> jar'.session] /\ jar'.session = {t}
    BY <1>4, <2>3, SMTT(30), ZenonT(30)
  <2>7. Good(t)'
    BY <1>1, <1>4, <2>1, <2>4, <2>5, SMTT(30), ZenonT(30) DEF Good
  <2>8. SessionTypes'
    <3>1. now' \in Nat /\ signed' \subseteq Nat /\ lapsed' \in BOOLEAN /\ seen' \in Nat
      BY <1>1, <1>4, <2>1, ZenonT(30) DEF SInv, SessionTypes
    <3>2. \A v \in Tabs : \A u \in tab[v].session : Good(u)'
      BY <1>1, <1>4 DEF SInv, SessionTypes, Good
    <3> QED
      BY <1>1, <2>6, <2>7, <3>1, <3>2, SMTT(30), ZenonT(30) DEF SInv, SessionTypes
  <2>9. 0 <= RenewAfter * MaxAge
    BY <2>1, SessionAssumption
  <2>10. seen' <= now' /\ t.iat <= seen' /\ (seen' - t.iat) * 100 <= RenewAfter * MaxAge
    BY <1>1, <1>4, <2>1, <2>4, <2>9, SMTT(30), ZenonT(30)
  <2>11. t.key # {} /\ secret' # {} /\ secret' = t.key
    BY <1>1, <2>4, SMTT(30), ZenonT(30)
  <2>12. KeptInv'
    BY <2>6, <2>10, <2>11 DEF KeptInv
  <2> QED
    BY <1>1, <2>8, <2>12 DEF SInv
<1> QED
  BY <1>2, <1>3, <1>4, Zenon DEF invokeCallback

\* A request carries the cookie the browser has.
LEMMA StepVisit ==
  ASSUME SInv, NEW v \in Tabs, Visit(v), UNCHANGED <<source, secretVars, step>>
  PROVE SInv'
<1>1. UNCHANGED <<now, jar, signed, seen, lapsed, vault, secret, source>> /\ SecretInv'
  BY SecretStill, SMTT(30), ZenonT(30) DEF Visit, SInv, secretVars
<1>2. tab' = [w \in Tabs |-> IF w = v THEN [pc |-> "sent", session |-> jar.session] ELSE tab[w]]
  BY SMTT(30), ZenonT(30) DEF Visit, SInv, SessionTypes
<1>3. SessionTypes'
  BY <1>1, <1>2, SMTT(30), ZenonT(30) DEF SInv, SessionTypes, Good
<1>4. KeptInv'
  BY <1>1, SameFiles DEF SInv, KeptInv
<1> QED
  BY <1>1, <1>3, <1>4, SMTT(30), ZenonT(30) DEF SInv

\* The session is ended.
LEMMA StepLogout ==
  ASSUME SInv, NEW v \in Tabs, Logout(v), UNCHANGED <<source, secretVars, step>>
  PROVE SInv'
<1>1. UNCHANGED <<now, signed>> /\ SecretInv' /\ lapsed' = TRUE /\ seen' = 0
  BY SecretStill DEF Logout, SInv
<1>2. tab' = [w \in Tabs |-> IF w = v THEN [pc |-> "rest", session |-> {}] ELSE tab[w]]
  BY SMTT(30), ZenonT(30) DEF Logout, SInv, SessionTypes
<1>3. jar' = [state |-> jar.state, session |-> {}]
  BY SMTT(30), ZenonT(30) DEF Logout, SInv, SessionTypes
<1>4. SessionTypes'
  BY <1>1, <1>2, <1>3, SMTT(30), ZenonT(30) DEF SInv, SessionTypes, Good
<1>5. KeptInv'
  BY <1>1 DEF KeptInv
<1> QED
  BY <1>1, <1>4, <1>5 DEF SInv

\* Time alone neither renews nor ends a session.
LEMMA StepPass == ASSUME SInv, Pass, UNCHANGED <<source, secretVars, step>> PROVE SInv'
<1>1. UNCHANGED <<tab, jar, signed, seen, lapsed, vault, secret, source>> /\ SecretInv' /\ now' = now + 1
  BY SecretStill, SMTT(30), ZenonT(30) DEF Pass, SInv, secretVars
<1>2. SessionTypes'
  BY <1>1, SMTT(30), ZenonT(30) DEF SInv, SessionTypes, Good, Tokens
<1>3. KeptInv'
  BY <1>1, SameFiles DEF SInv, SessionTypes, KeptInv
<1> QED
  BY <1>1, <1>2, <1>3 DEF SInv

\* A renewed token keeps its sign-in and its secret, and begins again.
LEMMA RenewedIsGood ==
  ASSUME NEW t, Good(t), now \in Nat
  PROVE /\ Good(Renew(t, now)) /\ Renew(t, now).iat = now /\ Renew(t, now).key = t.key
<1>1. t \in Tokens /\ t.exp = t.iat + MaxAge /\ MaxAge \in Nat
  BY SignOnAssumption DEF Good
<1>2. now + (t.exp - t.iat) = now + MaxAge
  BY <1>1 DEF Tokens
<1>3. Renew(t, now) = [t EXCEPT !.iat = now, !.exp = now + MaxAge]
  BY <1>2, Zenon DEF Renew
<1>4. PICK n : n = [t EXCEPT !.iat = now, !.exp = now + MaxAge]
  OBVIOUS
<1>5. n \in Tokens /\ n.iat = now /\ n.exp = now + MaxAge /\ n.auth = t.auth /\ n.key = t.key
  <2>1. PICK x \in Nat : x = now + MaxAge
    BY <1>1
  <2>2. n = [t EXCEPT !.iat = now, !.exp = x]
    BY <1>4, <2>1
  <2>3. n.iat = now /\ n.exp = x /\ n.auth = t.auth /\ n.key = t.key
    BY <1>1, <2>2 DEF Tokens
  <2>4. n \in Tokens
    BY <1>1, <2>2, Zenon DEF Tokens
  <2> QED
    BY <2>1, <2>3, <2>4
<1>6. Good(n)
  BY <1>5 DEF Good
<1> QED
  BY <1>3, <1>4, <1>5, <1>6

\* A request of the session: it is renewed when that is due, and was not left
\* alone too long unless it lapses.
LEMMA StepRenewing ==
  ASSUME SInv, NEW v \in Tabs, Renewing(v), step = "serving", UNCHANGED <<source, secretVars, step>>
  PROVE SInv'
<1>1. /\ UNCHANGED <<now, signed, vault, secret, source>> /\ SecretInv' /\ secret # {}
      /\ now \in Nat /\ seen \in Nat /\ lapsed \in BOOLEAN
  BY SecretStill DEF Renewing, SInv, SecretInv, SessionTypes, secretVars
<1>2. tab' = [w \in Tabs |-> IF w = v THEN [pc |-> "rest", session |-> {}] ELSE tab[w]]
  BY Zenon DEF Renewing, SInv, SessionTypes
<1>3. \A w \in Tabs : \A u \in tab'[w].session : Good(u)'
  BY <1>1, <1>2 DEF SInv, SessionTypes, Good
<1>4. PICK claims : claims = VerifyRequest(tab[v].session)
  OBVIOUS
<1>5. \A t \in claims : t \in tab[v].session /\ Good(t) /\ t.key = secret
  BY <1>4 DEF VerifyRequest, Verify, SInv, SessionTypes
<1>6. /\ jar' = [jar EXCEPT !.session = IF RenewIfDue(claims, now) = <<>> THEN @
                                        ELSE {RenewIfDue(claims, now)[1].token}]
      /\ IF claims = {} THEN UNCHANGED <<seen, lapsed>>
         ELSE /\ lapsed' = (lapsed \/ now - seen >= Gap \/ tab[v].session # jar.session)
              /\ seen' = IF lapsed' THEN 0 ELSE now
  BY <1>4 DEF Renewing
<1>7. jar' = [state |-> jar'.state, session |-> jar'.session]
  BY <1>6, Zenon DEF SInv, SessionTypes
<1>8. seen' \in Nat /\ lapsed' \in BOOLEAN
  <2>1. CASE claims = {}
    BY <1>1, <1>6, <2>1
  <2>2. CASE claims # {}
    <3>1. /\ seen' = (IF lapsed' THEN 0 ELSE now)
          /\ lapsed' = (lapsed \/ now - seen >= Gap \/ tab[v].session # jar.session)
      BY <1>6, <2>2
    <3>2. lapsed' \in BOOLEAN
      BY <3>1, Zenon
    <3>3. seen' \in {0, now}
      BY <3>1
    <3> QED
      BY <1>1, <3>2, <3>3
  <2> QED
    BY <2>1, <2>2
<1>9. CASE \E t \in claims : ShouldRenew(t, now)
  <2>1. PICK t \in claims : t = CHOOSE u \in claims : TRUE
    BY <1>9
  <2>2. RenewIfDue(claims, now) = <<[op |-> "set", token |-> Renew(t, now)]>>
    BY <1>9, <2>1 DEF RenewIfDue
  <2>3. PICK n : n = Renew(t, now)
    OBVIOUS
  <2>4. RenewIfDue(claims, now) # <<>> /\ RenewIfDue(claims, now)[1].token = n
    BY <2>2, <2>3
  <2>5. jar'.session = {n}
    BY <1>6, <2>4, SMTT(30), ZenonT(30) DEF SInv, SessionTypes
  <2>6. Good(n) /\ n.iat = now /\ n.key = secret
    BY <1>1, <1>5, <2>3, RenewedIsGood, SMTT(30), ZenonT(30)
  <2>7. SessionTypes'
    BY <1>1, <1>2, <1>3, <1>7, <1>8, <2>5, <2>6, SMTT(30), ZenonT(30) DEF SInv, SessionTypes, Good
  <2>8. 0 <= RenewAfter * MaxAge
    BY SessionAssumption, SignOnAssumption
  <2>9. ~lapsed' => seen' = now
    BY <1>6, <2>1
  <2>10. ~lapsed' => seen' <= now' /\ n.iat <= seen' /\ (seen' - n.iat) * 100 <= RenewAfter * MaxAge
    <3>1. PICK N, P : N = now /\ P = RenewAfter * MaxAge
      OBVIOUS
    <3>2. N \in Int /\ P \in Int /\ 0 <= P
      BY <1>1, <2>8, <3>1, SessionAssumption, SignOnAssumption
    <3>3. N <= N /\ (N - N) * 100 <= P
      BY <3>2, SMTT(30), ZenonT(30)
    <3>4. ~lapsed' => seen' = N /\ now' = N /\ n.iat = N
      BY <1>1, <2>6, <2>9, <3>1, SMTT(30), ZenonT(30)
    <3> QED
      BY <3>1, <3>3, <3>4
  <2>11. KeptInv'
    BY <1>1, <2>5, <2>6, <2>10 DEF KeptInv
  <2> QED
    BY <1>1, <2>7, <2>11 DEF SInv
<1>10. CASE \A t \in claims : ~ShouldRenew(t, now)
  <2>1. jar'.session = jar.session
    BY <1>6, <1>10, SMTT(30), ZenonT(30) DEF RenewIfDue, SInv, SessionTypes
  <2>2. SessionTypes'
    BY <1>1, <1>2, <1>3, <1>7, <1>8, <2>1 DEF SInv, SessionTypes, Good
  <2>3. CASE claims = {}
    <3>1. KeptInv'
      BY <1>1, <1>6, <2>1, <2>3, SameFiles, SMTT(30), ZenonT(30) DEF SInv, KeptInv
    <3> QED
      BY <1>1, <2>2, <3>1 DEF SInv
  <2>4. CASE claims # {}
    <3> SUFFICES ASSUME ~lapsed', NEW t \in jar'.session
                 PROVE /\ jar'.session = {t} /\ seen' <= now' /\ t.iat <= seen'
                       /\ (seen' - t.iat) * 100 <= RenewAfter * MaxAge /\ t.key # {}
                       /\ secret' = t.key
      BY <1>1, <2>2, Zenon DEF SInv, KeptInv
    <3>1. ~lapsed /\ tab[v].session = jar.session /\ seen' = now /\ jar.session = {t}
      BY <1>6, <2>1, <2>4, ZenonT(30) DEF SInv, KeptInv
    <3>2. t \in claims /\ Good(t) /\ t.key = secret
      BY <1>5, <2>4, <3>1
    <3>3. t.iat \in Nat /\ t.iat <= now /\ t.exp - t.iat = MaxAge /\ MaxAge > 0
      BY <3>2, SignOnAssumption DEF Good, Tokens
    <3>4. ~((now - t.iat) * 100 > RenewAfter * MaxAge)
      BY <1>10, <3>2, <3>3 DEF ShouldRenew
    <3>5. RenewAfter * MaxAge \in Int
      BY SessionAssumption, SignOnAssumption, SMTT(30), ZenonT(30)
    <3>6. (now - t.iat) * 100 <= RenewAfter * MaxAge
      BY <1>1, <3>3, <3>4, <3>5, SMTT(30), ZenonT(30)
    <3>7. seen' <= now' /\ t.iat <= seen' /\ (seen' - t.iat) * 100 <= RenewAfter * MaxAge
      <4>1. seen' = now /\ now' = now
        BY <1>1, <3>1, SMTT(30), ZenonT(30)
      <4>2. now <= now
        BY <1>1, SMTT(30), ZenonT(30)
      <4> QED
        BY <3>3, <3>6, <4>1, <4>2, SMTT(30), ZenonT(30)
    <3>8. t.key # {} /\ secret' = t.key
      BY <1>1, <3>2
    <3> QED
      BY <2>1, <3>1, <3>7, <3>8, SMTT(30), ZenonT(30)
  <2> QED
    BY <2>3, <2>4
<1> QED
  BY <1>9, <1>10

\* The handlers of a sign-in touch the state cookie at most.
LEMMA HandlerKeeps ==
  ASSUME SInv, NEW f \in Flows, Handler(f) \/ Fetch(f) \/ Begin(f) \/ Return(f)
  PROVE /\ UNCHANGED <<now, tab, signed, seen, lapsed>>
        /\ UNCHANGED jar \/ \E c : jar' = [jar EXCEPT !.state = c]
<1>1. CASE Check(f) \/ Lock(f) \/ samlLoginHandler(f) \/ samlAcsHandler(f) \/ Fetch(f) \/ Begin(f) \/ Return(f)
  BY <1>1, Zenon DEF Check, Lock, samlLoginHandler, samlAcsHandler, Fetch, Begin, Return
<1>2. CASE oidcLoginHandler(f)
  BY <1>2 DEF oidcLoginHandler
<1>3. CASE oidcCallbackHandler(f)
  BY <1>3 DEF oidcCallbackHandler
<1>4. CASE Exchange(f)
  BY <1>4 DEF Exchange
<1> QED
  BY <1>1, <1>2, <1>3, <1>4, SMTT(30), ZenonT(30) DEF Handler

-----------------------------------------------------------------------------

\* No token and no secret at first.
LEMMA SessionInit == Init => SInv
<1> SUFFICES ASSUME Init PROVE SInv
  OBVIOUS
<1>1. PICK s \in Scenarios :
        /\ source = s.source /\ vault = s.source.files /\ now = s.now
        /\ tab = [v \in Tabs |-> [pc |-> IF v \in s.tabs THEN "rest" ELSE "closed", session |-> {}]]
  BY Zenon DEF Init
<1>2. SecretInv
  BY <1>1, BootAssumption DEF Init, SecretInv
<1>3. SessionTypes
  BY <1>1, BootAssumption DEF Init, SessionTypes
<1>4. KeptInv
  BY DEF Init, KeptInv
<1> QED
  BY <1>2, <1>3, <1>4 DEF SInv

\* Every step of the process keeps the invariant.
LEMMA SessionStep == SInv /\ [Next]_vars => SInv'
<1> SUFFICES ASSUME SInv, [Next]_vars PROVE SInv'
  OBVIOUS
<1>1. CASE Load
  BY <1>1, StepLoad
<1>2. CASE InStart
  <2>1. UNCHANGED <<source, secretVars, now, tab, jar, signed, seen, lapsed>>
    BY <1>2 DEF InStart, fixed, signVars
  <2>2. step \notin {"load", "failed"} /\ step' # "load"
    BY <1>2, SMTT(30), ZenonT(30) DEF InStart, Starting, waitReady, Attempt, AttemptEnds, WakeUp, runDmut, runCmd, CmdWait, Introspect, Goto
  <2> QED
    BY <2>1, <2>2, AllStill
<1>3. CASE InCommand \/ Time
  BY <1>3, AllStill, SMTT(30), ZenonT(30) DEF InCommand, Time, Command, Tick, fixed, signVars
<1>4. CASE Ending(Kill) \/ Ending(logLinesEnds) \/ Ending(LeftBehindEnds)
  BY <1>4, AllStill, SMTT(30), ZenonT(30) DEF Ending, fixed, signVars
<1>5. CASE BeginMount \/ Serve
  BY <1>5, AllStill, SMTT(30), ZenonT(30) DEF BeginMount, Serve, fixed, signVars
<1>6. CASE BuildFails
  BY <1>6, AllStill, SMTT(30), ZenonT(30) DEF BuildFails, Goto, fixed, signVars
<1>7. CASE Discoveries \/ Pairs
  BY <1>7, AllStill, Zenon DEF Discoveries, Discover, Pairs, startVars, fixed, signVars
<1>8. ASSUME NEW f \in Flows, step = "serving", UNCHANGED <<source, secretVars, step>>,
             Handler(f) \/ Fetch(f) \/ Begin(f) \/ Return(f)
      PROVE SInv'
  BY <1>8, HandlerKeeps, AllStill, SessionStill
<1>9. ASSUME NEW f \in Flows, Handling(f) \/ Answered(f) PROVE SInv'
  <2>1. step = "serving" /\ UNCHANGED <<source, secretVars, step>>
    BY <1>9 DEF Handling, Answered, startVars, fixed
  <2>2. Handler(f) \/ Fetch(f) \/ invokeCallback(f)
    BY <1>9 DEF Handling, Answered, Elsewhere
  <2> QED
    BY <1>8, <2>1, <2>2, StepInvoke
<1>10. CASE Browsing
  <2>1. step = "serving" /\ UNCHANGED <<source, secretVars, step>> /\ Outside
    BY <1>10, SMTT(30), ZenonT(30) DEF Browsing, startVars, fixed
  <2> QED
    BY <1>8, <2>1, StepVisit, StepRenewing, StepLogout, StepPass DEF Outside
<1>11. CASE Reload
  BY <1>11, AllStill, SMTT(30), ZenonT(30) DEF Reload, Goto, fixed, signVars
<1>12. CASE Crash
  BY <1>12, StepCrash
<1>13. CASE AtEnd \/ UNCHANGED vars
  BY <1>13, AllStill DEF AtEnd, vars, startVars, fixed, signVars
<1> QED
  BY <1>1, <1>2, <1>3, <1>4, <1>5, <1>6, <1>7, <1>9, <1>10, <1>11, <1>12, <1>13 DEF Next

\* What renewal leaves of a token, in whole seconds.
LEMMA WholeSeconds ==
  ASSUME NEW q \in Nat, NEW x \in Int, x * 100 <= q
  PROVE q \div 100 \in Int /\ x <= q \div 100
BY SMTT(30), ZenonT(30)

\* The invariant gives the property the run checks.
LEMMA SessionImplies == SInv => SessionIsEarned
<1> SUFFICES ASSUME SInv PROVE SessionIsEarned
  BY SMTT(30), ZenonT(30)
<1>1. ASSUME NEW s \in {jar.session} \cup {tab[v].session : v \in Tabs}, NEW t \in VerifyRequest(s)
      PROVE /\ t.auth \in signed /\ now <= t.auth + MaxSessionAge
            /\ t.iat <= now /\ t.exp = t.iat + MaxAge
  <2>1. Good(t) /\ ~(now > t.auth + MaxSessionAge)
    BY <1>1, ZenonT(30) DEF VerifyRequest, Verify, SInv, SessionTypes
  <2>2. now \in Int /\ t.auth \in Int /\ MaxSessionAge \in Int
    BY <2>1, SessionAssumption DEF Good, Tokens, SInv, SessionTypes
  <2> QED
    BY <2>1, <2>2, SMTT(30), ZenonT(30) DEF Good
<1>2. ASSUME NEW t \in jar.session, ~lapsed, now - seen < Gap, now <= t.auth + MaxSessionAge, secret # {}
      PROVE VerifyRequest(jar.session) # {}
  <2>1. /\ Good(t) /\ t \in Tokens /\ t.exp = t.iat + MaxAge /\ t.iat <= seen /\ t.key = secret
        /\ (seen - t.iat) * 100 <= RenewAfter * MaxAge /\ now \in Nat /\ seen \in Nat
    BY <1>2 DEF SInv, KeptInv, SessionTypes, Good
  <2>2. RenewAfter * MaxAge \in Nat
    BY SessionAssumption, SignOnAssumption
  <2>3. t.iat \in Nat /\ t.auth \in Nat /\ t.role = "user" /\ t.by = "rel" /\ MaxAge \in Nat /\ MaxSessionAge \in Nat
    BY <2>1, SessionAssumption, SignOnAssumption, SMTT(30), ZenonT(30) DEF Tokens
  <2>4. (RenewAfter * MaxAge) \div 100 \in Int /\ seen - t.iat <= (RenewAfter * MaxAge) \div 100
    BY <2>1, <2>2, <2>3, WholeSeconds, SMTT(30), ZenonT(30)
  <2>5. now < t.exp
    BY <1>2, <2>1, <2>3, <2>4, SMTT(30), ZenonT(30) DEF Gap
  <2>6. t.auth # -1 /\ ~(now > t.auth + MaxSessionAge)
    BY <1>2, <2>1, <2>3, SMTT(30), ZenonT(30)
  <2>7. t.role # ""
    BY <2>3
  <2>8. t \in VerifyRequest(jar.session)
    BY <2>1, <2>3, <2>5, <2>6, <2>7, Zenon DEF VerifyRequest, Verify
  <2> QED
    BY <2>8, SMTT(30), ZenonT(30)
<1> QED
  BY <1>1, <1>2, Zenon DEF SessionIsEarned

\* Every session that is accepted was earned and none that is used is lost,
\* whatever max_age, renew_after and max_session_age are, however many tabs
\* and sign-ins there are, and wherever the process dies (Verify, Renew,
\* handleResponseJwt, resolveGenValue).
THEOREM SessionsAreEarned == Spec => []SessionIsEarned
BY SessionInit, SessionStep, SessionImplies, PTL DEF Spec

-----------------------------------------------------------------------------
(* The wait for Postgres.                                                  *)

Waits == [deadline : Int, delay : Nat, late : BOOLEAN, past : {0, 1}]

\* The larger of the deadline and the beginning.
Budget == IF wait.deadline > 0 THEN wait.deadline ELSE 0

\* While waitReady runs: an attempt that began before the deadline ends by
\* it, one that began later is the last, and a sleep ends before the deadline
\* unless it lasts too long.
WaitInv ==
  /\ conf.budget \in Int
  /\ step \in {"attempt", "sleep"} => clock \in Nat /\ until \in Int /\ wait \in Waits
  /\ step = "attempt" =>
       /\ clock <= until
       /\ until <= Budget + Slack + AttemptMax
       /\ wait.past = 0 => until <= wait.deadline
       /\ wait.past = 1 => clock >= wait.deadline /\ (wait.late \/ wait.deadline <= 0)
  /\ step = "sleep" => wait.past = 0 /\ until < wait.deadline /\ clock <= until + Slack

\* An attempt that begins at c keeps to what remains, unless nothing does.
LEMMA AttemptKeeps ==
  ASSUME conf'.budget \in Int, NEW c \in Nat, NEW w \in Waits, w.past = 0, Attempt(c, w),
         c >= w.deadline => w.late \/ w.deadline <= 0,
         c <= (IF w.deadline > 0 THEN w.deadline ELSE 0) + Slack
  PROVE WaitInv'
<1> USE StartUpAssumption
<1>1. /\ step' = "attempt" /\ clock' = c /\ until' = c + Timeout(c, w.deadline)
      /\ wait' \in Waits /\ wait'.deadline = w.deadline /\ wait'.late = w.late
      /\ wait'.past = IF c >= w.deadline THEN 1 ELSE 0
  BY DEF Attempt, Waits
<1>2. /\ Timeout(c, w.deadline) \in 1..AttemptMax
      /\ c < w.deadline => c + Timeout(c, w.deadline) <= w.deadline
  BY DEF Timeout, Waits
<1> QED
  BY <1>1, <1>2 DEF WaitInv, Budget, Waits

\* Where the wait is not concerned.
LEMMA Aside == ASSUME WaitInv, UNCHANGED conf, step' \notin {"attempt", "sleep"} PROVE WaitInv'
BY DEF WaitInv
\* Steps that leave the wait's own variables alone keep the invariant.
LEMMA Still == ASSUME WaitInv, UNCHANGED <<conf, step, clock, until, wait>> PROVE WaitInv'
BY DEF WaitInv, Budget

\* No wait is on when the process starts.
LEMMA WaitInit == Init => WaitInv
BY BootAssumption DEF Init, WaitInv

\* The steps of boot.Start: waitReady's own, and those that follow it.
LEMMA WaitStart == ASSUME WaitInv, InStart PROVE WaitInv'
<1> USE StartUpAssumption
<1>0. UNCHANGED conf
  BY DEF InStart, fixed
<1>1. CASE waitReady
  <2>0. PICK w : w = [deadline |-> conf.budget, delay |-> FirstDelay, late |-> FALSE, past |-> 0]
    BY Zenon
  <2>1. Attempt(0, w)
    BY <1>1, <2>0 DEF waitReady
  <2>2. w \in Waits /\ w.past = 0 /\ (0 >= w.deadline => w.deadline <= 0)
    BY <2>0 DEF WaitInv, Waits
  <2>3. conf'.budget \in Int /\ 0 \in Nat
    BY <1>0 DEF WaitInv
  <2>4. w.deadline \in Int /\ Slack \in Nat
    BY <2>2 DEF Waits
  <2>5. 0 <= (IF w.deadline > 0 THEN w.deadline ELSE 0) + Slack
    BY <2>4
  <2> QED
    BY <2>1, <2>2, <2>3, <2>5, AttemptKeeps, SMTT(30), ZenonT(30)
<1>2. ASSUME NEW outcome \in {"ready", "transient", "permanent"}, AttemptEnds(outcome) PROVE WaitInv'
  <2>1. CASE step' = "sleep"
    <3>1. /\ step = "attempt" /\ clock + wait.delay < wait.deadline
          /\ until' = clock + wait.delay /\ clock' = clock
          /\ wait' = [wait EXCEPT !.delay = Min({2 * wait.delay, MaxDelay})]
      BY <1>2, <2>1 DEF AttemptEnds, Goto
    <3>2. clock \in Nat /\ wait \in Waits /\ wait.past = 0
      BY <3>1 DEF WaitInv, Waits
    <3>3. Min({2 * wait.delay, MaxDelay}) \in Nat
      BY <3>2, MinOfTwo DEF Waits
    <3>4. wait' \in Waits /\ wait'.past = 0 /\ wait'.deadline = wait.deadline
      BY <3>1, <3>2, <3>3 DEF Waits
    <3> QED
      BY <1>0, <2>1, <3>1, <3>2, <3>4 DEF WaitInv, Waits
  <2>2. step' \in {"sleep", "dmut", "failed"}
    BY <1>2, SMTT(30), ZenonT(30) DEF AttemptEnds, Goto
  <2> QED
    BY <1>0, <2>1, <2>2, Aside
<1>3. CASE WakeUp
  <2> DEFINE w == [wait EXCEPT !.late = @ \/ clock > until]
  <2>1. Attempt(clock, w) /\ step = "sleep" /\ clock >= until
    BY <1>3 DEF WakeUp
  <2>2. clock \in Nat /\ until \in Int /\ wait \in Waits /\ wait.past = 0 /\ until < wait.deadline /\ clock <= until + Slack
    BY <2>1 DEF WaitInv
  <2>3. w \in Waits /\ w.past = 0 /\ w.deadline = wait.deadline /\ w.late = (wait.late \/ clock > until)
    BY <2>2, Zenon DEF Waits
  <2>4. /\ clock >= w.deadline => w.late
        /\ clock <= (IF w.deadline > 0 THEN w.deadline ELSE 0) + Slack
    BY <2>1, <2>2, <2>3 DEF Waits
  <2> HIDE DEF w
  <2> QED
    BY <1>0, <2>1, <2>2, <2>3, <2>4, AttemptKeeps, Zenon DEF WaitInv
<1>4. CASE runDmut \/ runCmd \/ CmdWait \/ Introspect
  <2>1. step' \notin {"attempt", "sleep"}
    BY <1>4, Zenon DEF runDmut, runCmd, CmdWait, Introspect, Goto
  <2> QED
    BY <1>0, <2>1, Aside
<1> QED
  BY <1>1, <1>2, <1>3, <1>4 DEF InStart, Starting

\* Time passes no further than the timer at hand allows.
LEMMA WaitTick == ASSUME WaitInv, Time PROVE WaitInv'
<1> USE StartUpAssumption
<1>1. UNCHANGED <<conf, step, until, wait>> /\ clock < Due /\ clock' = clock + 1
  BY SMTT(30), ZenonT(30) DEF Time, Tick, fixed
<1>2. CASE step = "attempt"
  <2>1. Due = until
    BY <1>2, SMTT(30), ZenonT(30) DEF Due
  <2> QED
    BY <1>1, <1>2, <2>1 DEF WaitInv, Waits, Budget
<1>3. CASE step = "sleep"
  <2>1. Due = until + Slack
    BY <1>3 DEF Due
  <2> QED
    BY <1>1, <1>3, <2>1 DEF WaitInv, Waits
<1>4. CASE step \notin {"attempt", "sleep"}
  BY <1>1, <1>4, Aside, SMTT(30), ZenonT(30)
<1> QED
  BY <1>2, <1>3, <1>4

\* Every step of the process keeps the invariant.
LEMMA WaitStep == WaitInv /\ [Next]_vars => WaitInv'
<1> SUFFICES ASSUME WaitInv, [Next]_vars PROVE WaitInv'
  OBVIOUS
<1>1. CASE Load
  BY <1>1, Aside, Still, SMTT(30), ZenonT(30) DEF Load, Goto, fixed
<1>2. CASE InStart
  BY <1>2, WaitStart
<1>3. CASE InCommand
  BY <1>3, Still, SMTT(30), ZenonT(30) DEF InCommand, Command, fixed
<1>4. CASE Ending(Kill) \/ Ending(logLinesEnds) \/ Ending(LeftBehindEnds)
  BY <1>4, Still, SMTT(30), ZenonT(30) DEF Ending, fixed
<1>5. CASE Time
  BY <1>5, WaitTick
<1>6. CASE BeginMount \/ Serve
  BY <1>6, Aside DEF BeginMount, Serve, fixed
<1>7. CASE BuildFails
  BY <1>7, Aside, SMTT(30), ZenonT(30) DEF BuildFails, Goto, fixed
<1>8. CASE Discoveries \/ Pairs \/ Browsing
  BY <1>8, Still, Zenon DEF Discoveries, Pairs, Browsing, startVars, fixed
<1>9. ASSUME NEW f \in Flows, Handling(f) \/ Answered(f) PROVE WaitInv'
  BY <1>9, Still DEF Handling, Answered, startVars, fixed
<1>10. CASE Reload
  BY <1>10, Aside DEF Reload, Goto, fixed
<1>11. CASE Crash
  BY <1>11, Aside, SMTT(30), ZenonT(30) DEF Crash, Goto, fixed
<1>12. CASE AtEnd \/ UNCHANGED vars
  BY <1>12, Still, SMTT(30), ZenonT(30) DEF AtEnd, vars, startVars, fixed
<1> QED
  BY <1>1, <1>2, <1>3, <1>4, <1>5, <1>6, <1>7, <1>8, <1>9, <1>10, <1>11, <1>12, SMTT(30), ZenonT(30) DEF Next

\* The invariant gives the bound the run checks.
LEMMA WaitImplies == WaitInv => WaitIsBounded
<1> SUFFICES ASSUME WaitInv, step \in {"attempt", "sleep"}
             PROVE /\ wait.past <= 1
                   /\ until <= wait.deadline \/ wait.past = 1
                   /\ wait.past = 1 => wait.late \/ wait.deadline <= 0
                   /\ clock <= Max({wait.deadline, 0}) + Slack + AttemptMax
  BY DEF WaitIsBounded
<1>1. Max({wait.deadline, 0}) = Budget
  BY MaxOfTwo DEF WaitInv, Waits, Budget
<1> QED
  BY <1>1, StartUpAssumption DEF WaitInv, Waits, Budget

\* The wait for Postgres keeps to its budget, whatever the delays, the cap of
\* an attempt and the slack of a sleep are (waitReady).
THEOREM WaitKeepsItsBudget == Spec => []WaitIsBounded
BY WaitInit, WaitStep, WaitImplies, PTL DEF Spec

=============================================================================
