------------------------------ MODULE KeyPair ------------------------------
(***************************************************************************)
(* The certificate and key of the SAML entries (sso/cert.go, sso/saml.go):  *)
(* loaded from the configured files, or generated and written there. They   *)
(* outlive the process, which may die between two writes.                   *)
(*                                                                         *)
(* Pairs are numbered in the order they are generated. A file holds the     *)
(* number of the pair it is from, 0 when it is missing or cannot be parsed. *)
(* An entry is [certs, keys]: its search lists, empty where it sets none.   *)
(***************************************************************************)
EXTENDS Integers, Sequences, FiniteSets, FiniteSetsExt

CONSTANTS Paths     \* the files

VARIABLES saml,     \* the configuration: [shared, entries (by name), dirs (the
                    \* files whose directory exists)]
          disk,     \* what each file holds
          todo,     \* the entries without a pair, in this build
          pair,     \* the pair of each entry: a set of at most one
          writing,  \* the pair that is being written: a set of at most one
          made,     \* the number of pairs generated
          trusted   \* observed: the first certificate of each entry that was
                    \* served from its file, a set of at most one

keyVars == <<disk, todo, pair, writing, made, trusted>>

Shared == "shared"
Names == {Shared} \cup DOMAIN saml.entries

\* What a build starts with. Without an entry there is nothing to load.
NoPairs == [e \in Names |-> {}]
Mount == IF DOMAIN saml.entries = {} THEN {} ELSE Names

\* Which lists an entry uses: for a half it leaves out, the shared one.
resolveSamlKeyPair(e) ==
  IF e = Shared THEN saml.shared
  ELSE LET own == saml.entries[e]
       IN [certs |-> IF own.certs = <<>> THEN saml.shared.certs ELSE own.certs,
           keys |-> IF own.keys = <<>> THEN saml.shared.keys ELSE own.keys]
Inherits(e) == e # Shared /\ saml.entries[e] = [certs |-> <<>>, keys |-> <<>>]

Owners == {e \in Names : ~Inherits(e)}

Candidates(lists) == 1..Min({Len(lists.certs), Len(lists.keys)})

\* Pair by pair, never the certificate of one with the key of another.
tryLoadExistingKeyPair(lists) ==
  LET found == {i \in Candidates(lists) : disk[lists.certs[i]] # 0 /\ disk[lists.keys[i]] # 0}
  IN {[cert |-> disk[lists.certs[i]], key |-> disk[lists.keys[i]]] : i \in IF found = {} THEN {} ELSE {Min(found)}}

\* e has its pair, or none when that failed: then it is not mounted.
Settle(e, kp) == pair' = [pair EXCEPT ![e] = kp] /\ todo' = todo \ {e}

\* Mount resolves the shared pair first, the entries in the order of a map.
Turn(e) == e \in todo /\ writing = {} /\ (e # Shared => Shared \notin todo)

LoadOrGenerateSPKeyPair(e) ==
  /\ Turn(e) /\ e \in Owners
  /\ LET lists == resolveSamlKeyPair(e)
         found == tryLoadExistingKeyPair(lists)
         places == {i \in Candidates(lists) : lists.certs[i] \in saml.dirs}
     IN \/ /\ found # {}
           /\ Settle(e, found)
           /\ trusted' = [trusted EXCEPT ![e] = IF @ = {} THEN {kp.cert : kp \in found} ELSE @]
           /\ UNCHANGED <<writing, made>>
        \/ /\ found = {} /\ places = {}
           /\ Settle(e, {[cert |-> made + 1, key |-> made + 1]})
           /\ made' = made + 1
           /\ UNCHANGED <<writing, trusted>>
        \/ /\ found = {} /\ places # {}
           /\ writing' = {[entry |-> e, cert |-> lists.certs[Min(places)], key |-> lists.keys[Min(places)],
                           next |-> "cert"]}
           /\ made' = made + 1
           /\ UNCHANGED <<pair, todo, trusted>>
  /\ UNCHANGED disk

Inherit(e) ==
  /\ Turn(e) /\ Inherits(e)
  /\ Settle(e, pair[Shared])
  /\ UNCHANGED <<disk, writing, made, trusted>>

\* Mutant: a certificate that is there is not written again.
KeepCert ==
  \E w \in writing :
    /\ w.next = "cert"
    /\ disk' = [disk EXCEPT ![w.cert] = IF @ = 0 THEN made ELSE @]
    /\ writing' = {[w EXCEPT !.next = "key"]}
    /\ UNCHANGED <<todo, pair, made, trusted>>

WriteCert ==
  \E w \in writing :
    /\ w.next = "cert"
    /\ disk' = [disk EXCEPT ![w.cert] = made]
    /\ writing' = {[w EXCEPT !.next = "key"]}
    /\ UNCHANGED <<todo, pair, made, trusted>>

WriteKey ==
  \E w \in writing :
    /\ w.next = "key"
    /\ disk' = [disk EXCEPT ![w.key] = made]
    /\ writing' = {}
    /\ Settle(w.entry, {[cert |-> made, key |-> made]})
    /\ UNCHANGED <<made, trusted>>

\* A failing write leaves the file as it was or one that cannot be parsed, and
\* no pair. Without the shared one no entry is mounted.
WriteFails ==
  \E w \in writing :
    /\ \E file \in {IF w.next = "cert" THEN w.cert ELSE w.key} :
         \E left \in {0, disk[file]} : disk' = [disk EXCEPT ![file] = left]
    /\ writing' = {}
    /\ IF w.entry = Shared THEN pair' = NoPairs /\ todo' = {} ELSE Settle(w.entry, {})
    /\ UNCHANGED <<made, trusted>>

Pairing == (\E e \in Names : LoadOrGenerateSPKeyPair(e) \/ Inherit(e)) \/ WriteCert \/ WriteKey \/ WriteFails

\* The process dies, in the middle of a write too.
Forget ==
  /\ \/ UNCHANGED disk
     \/ \E w \in writing : disk' = [disk EXCEPT ![IF w.next = "cert" THEN w.cert ELSE w.key] = 0]
  /\ writing' = {} /\ pair' = NoPairs /\ todo' = Mount
  /\ UNCHANGED <<made, trusted>>

-----------------------------------------------------------------------------

\* The files of an entry: no path is a certificate's and a key's or is listed
\* twice, and two entries use the same lists or have no file in common.
Files(lists) == {lists.certs[i] : i \in Candidates(lists)} \cup {lists.keys[i] : i \in Candidates(lists)}
Apart ==
  /\ \A e \in Owners :
       LET lists == resolveSamlKeyPair(e)
       IN /\ lists.certs \in Seq(Paths) /\ lists.keys \in Seq(Paths)
          /\ \A i, j \in Candidates(lists) :
               /\ lists.certs[i] # lists.keys[j]
               /\ i # j => lists.certs[i] # lists.certs[j] /\ lists.keys[i] # lists.keys[j]
  /\ \A d, e \in Owners :
       \/ resolveSamlKeyPair(d) = resolveSamlKeyPair(e)
       \/ Files(resolveSamlKeyPair(d)) \cap Files(resolveSamlKeyPair(e)) = {}

\* An entry signs with the key of the certificate it publishes, and once it
\* has published one that it found in its file, every later build publishes
\* the same, whatever writes failed or were cut off by a crash before
\* (LoadOrGenerateSPKeyPair: "silent reuse on every later boot").
PairMatches ==
  \A e \in Names : \A kp \in pair[e] :
    /\ kp.cert = kp.key
    /\ \A c \in trusted[e] : kp.cert = c

=============================================================================
