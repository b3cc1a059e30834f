---------------------------- MODULE ServicesProofs ----------------------------
(***************************************************************************)
(* What a product's requests pass, an account leaves behind and operators  *)
(* change: proofs that revoked keys and links admit nobody, whoever raced  *)
(* their end, that a removal reaches every table, that the client of       *)
(* GitHub shares its tokens, that operators' commands and wp-tf do what    *)
(* they show, and that the sampler accounts for every span.                *)
(***************************************************************************)
EXTENDS BearerKeys, AccountRemoval, MCClients, FiniteSetTheorems, SequenceTheorems, TLAPS

-----------------------------------------------------------------------------
(* API keys and share links.                                               *)

MintedRow == [there : {TRUE}, owner : Owners, tenant : KeyTenants, scopes : SUBSET GrantableScopes,
              expires : {0, LastTick}, revoked : BOOLEAN]
KeyRecord == {NoKey} \cup MintedRow
KeyDoings == {IdleKey} \cup [at : {"touch", "scopes", "admitted"}, hash : Hashes, row : MintedRow, tenant : KeyTenants,
                             scopes : SUBSET GrantableScopes, deadBefore : BOOLEAN, live : SUBSET GrantableScopes]
SweepDoings == [at : {"idle", "sweep", "done", "failed"}, verb : {"", "revoke", "delete"},
                todo : SUBSET Hashes, seen : SUBSET Hashes]

\* What the tables keep.
KeyTypeOK ==
    /\ keyRow \in [Hashes -> KeyRecord]
    /\ keyIndex \subseteq Hashes
    /\ membership \in [Owners -> SUBSET GrantableScopes]
    /\ keyRequest \in [KeyRequests -> KeyDoings]
    /\ sweep \in [Sweeps -> SweepDoings]
    /\ dead \subseteq Hashes /\ IsFiniteSet(dead)
    /\ revocations \in Nat

\* A row stays dead: gone, or marked; and what is marked is dead.
RowSound(h) ==
    /\ h \in dead => ~keyRow[h].there \/ keyRow[h].revoked
    /\ keyRow[h].revoked => h \in dead

\* A request read its row alive, and has what its key and owner gave it.
KeyRequestSound(q) ==
    LET r == keyRequest[q]
    IN /\ ~r.deadBefore
       /\ r.at = "touch" => r.scopes = {}
       /\ r.at = "scopes" => r.hash \in KeyHashes
       /\ r.at = "admitted" =>
            /\ r.scopes \subseteq r.row.scopes \cap r.live
            /\ r.hash \in KeyHashes => r.row.tenant = r.tenant
            /\ r.hash \in ShareHashes => r.scopes = {}

\* What a sweep listed is there or has ended, and what it is through with has ended.
SweepSound(w) ==
    LET s == sweep[w]
    IN /\ \A h \in s.seen : keyRow[h].there \/ h \in dead
       /\ s.at \in {"sweep", "done"} => s.seen \ s.todo \subseteq dead
       /\ s.at = "done" => s.todo = {}

KeyInvariant ==
    /\ KeyTypeOK
    /\ \A h \in Hashes : RowSound(h)
    /\ \A q \in KeyRequests : KeyRequestSound(q)
    /\ \A w \in Sweeps : SweepSound(w)
    /\ revocations <= Cardinality(dead)

LEMMA NoKeyTyped ==
    /\ NoKey \in KeyRecord /\ ~NoKey.there /\ ~NoKey.revoked
    /\ \A row \in KeyRecord : row.there => row \in MintedRow
<1>1. NoKey.there = FALSE /\ NoKey.revoked = FALSE BY DEF NoKey
<1>2. NoKey \in KeyRecord BY DEF KeyRecord
<1>3. \A row \in KeyRecord : row = NoKey \/ row \in MintedRow BY DEF KeyRecord
<1>4. ASSUME NEW row \in KeyRecord, row.there PROVE row \in MintedRow BY <1>1, <1>3, <1>4
<1> QED BY <1>1, <1>2, <1>4

LEMMA IdleKeySound == IdleKey \in KeyDoings /\ IdleKey.at = "idle" /\ ~IdleKey.deadBefore
BY DEF KeyDoings, IdleKey

\* A request's step: the rest stays.
LEMMA KeyRequestKeeps ==
    ASSUME KeyInvariant, NEW q \in KeyRequests, NEW r \in KeyDoings, keyRequest' = [keyRequest EXCEPT ![q] = r],
           UNCHANGED <<keyRow, keyIndex, membership, sweep, dead, revocations>>,
           ~r.deadBefore,
           r.at = "touch" => r.scopes = {},
           r.at = "scopes" => r.hash \in KeyHashes,
           r.at = "admitted" =>
             /\ r.scopes \subseteq r.row.scopes \cap r.live
             /\ r.hash \in KeyHashes => r.row.tenant = r.tenant
             /\ r.hash \in ShareHashes => r.scopes = {}
    PROVE  KeyInvariant'
<1>1. /\ keyRequest' \in [KeyRequests -> KeyDoings] /\ keyRequest'[q] = r
      /\ \A o \in KeyRequests \ {q} : keyRequest'[o] = keyRequest[o]
  BY DEF KeyInvariant, KeyTypeOK
<1>2. KeyTypeOK' BY <1>1 DEF KeyInvariant, KeyTypeOK
<1>3. \A h \in Hashes : RowSound(h)' BY DEF KeyInvariant, RowSound
<1>4. \A w \in Sweeps : SweepSound(w)' BY DEF KeyInvariant, SweepSound
<1>5. ASSUME NEW o \in KeyRequests PROVE KeyRequestSound(o)'
  <2>1. CASE o = q BY <1>1, <2>1 DEF KeyRequestSound
  <2>2. CASE o # q BY <1>1, <2>2 DEF KeyInvariant, KeyRequestSound
  <2> QED BY <2>1, <2>2
<1>6. revocations' <= Cardinality(dead') BY DEF KeyInvariant
<1> QED BY <1>2, <1>3, <1>4, <1>5, <1>6 DEF KeyInvariant

\* A row read alive is not dead.
LEMMA VerifyKeeps ==
    ASSUME KeyInvariant, NEW q \in KeyRequests, NEW h \in Hashes, NEW t \in KeyTenants, Verify(q, h, t)
    PROVE  KeyInvariant'
<1>1. keyRow[h] \in MintedRow BY NoKeyTyped DEF Verify, Usable, KeyInvariant, KeyTypeOK
<1>2. h \notin dead BY DEF Verify, Usable, KeyInvariant, RowSound
<1>3. PICK row \in MintedRow : row = keyRow[h] BY <1>1
<1> DEFINE r == [at |-> "touch", hash |-> h, row |-> row, tenant |-> t, scopes |-> {}, deadBefore |-> FALSE, live |-> {}]
<1>4. r \in KeyDoings BY DEF KeyDoings
<1>5. r.at = "touch" /\ r.scopes = {} /\ r.deadBefore = FALSE OBVIOUS
<1>6. keyRequest' = [keyRequest EXCEPT ![q] = r] /\ UNCHANGED <<keyRow, keyIndex, membership, sweep, dead, revocations>>
  <2>1. (h \in dead) = FALSE BY <1>2
  <2> QED BY <1>3, <2>1 DEF Verify
<1> HIDE DEF r
<1> QED BY <1>4, <1>5, <1>6, KeyRequestKeeps

\* The stamp changes nothing that a refusal depends on.
LEMMA TouchKeeps ==
    ASSUME KeyInvariant, NEW q \in KeyRequests, Touch(q)
    PROVE  KeyInvariant'
<1>1. keyRequest[q] \in KeyDoings /\ keyRequest[q].at = "touch" BY DEF Touch, KeyInvariant, KeyTypeOK
<1>2. PICK d : d = keyRequest[q] OBVIOUS
<1>3. d \in [at : {"touch", "scopes", "admitted"}, hash : Hashes, row : MintedRow, tenant : KeyTenants,
             scopes : SUBSET GrantableScopes, deadBefore : BOOLEAN, live : SUBSET GrantableScopes]
  BY <1>1, <1>2, IdleKeySound DEF KeyDoings
<1>4. PICK at \in {"scopes", "admitted"} : at = IF d.hash \in KeyHashes THEN "scopes" ELSE "admitted" OBVIOUS
<1>5. PICK r : r = [d EXCEPT !.at = at] OBVIOUS
<1>6. /\ r \in KeyDoings /\ r.at = at /\ r.hash = d.hash /\ r.scopes = d.scopes /\ r.deadBefore = d.deadBefore
  BY <1>3, <1>5 DEF KeyDoings
<1>7. keyRequest' = [keyRequest EXCEPT ![q] = r] /\ UNCHANGED <<keyIndex, membership, sweep, dead, revocations>>
  BY <1>2, <1>4, <1>5 DEF Touch
<1>8. keyRow' = keyRow BY DEF Touch, Stamped, KeyInvariant, KeyTypeOK
<1>9. ~d.deadBefore /\ d.scopes = {} BY <1>1, <1>2 DEF KeyInvariant, KeyRequestSound
<1>10. /\ r.at = "scopes" => r.hash \in KeyHashes
       /\ r.at = "admitted" => r.hash \notin KeyHashes
       /\ r.at # "touch"
  BY <1>4, <1>6
<1>11. ~r.deadBefore /\ r.scopes = {} BY <1>6, <1>9
<1>12. r.at = "admitted" =>
         /\ r.scopes \subseteq r.row.scopes \cap r.live
         /\ r.hash \in KeyHashes => r.row.tenant = r.tenant
         /\ r.hash \in ShareHashes => r.scopes = {}
  BY <1>10, <1>11
<1> QED BY <1>6, <1>7, <1>8, <1>10, <1>11, <1>12, KeyRequestKeeps

\* A key acts in its tenant, within what it carries and its owner holds.
LEMMA ResolveScopesKeeps ==
    ASSUME KeyInvariant, NEW q \in KeyRequests, ResolveScopes(q)
    PROVE  KeyInvariant'
<1>1. keyRequest[q] \in KeyDoings /\ keyRequest[q].at = "scopes" BY DEF ResolveScopes, KeyInvariant, KeyTypeOK
<1>2. PICK d : d = keyRequest[q] OBVIOUS
<1>3. d \in [at : {"touch", "scopes", "admitted"}, hash : Hashes, row : MintedRow, tenant : KeyTenants,
             scopes : SUBSET GrantableScopes, deadBefore : BOOLEAN, live : SUBSET GrantableScopes]
  BY <1>1, <1>2, IdleKeySound DEF KeyDoings
<1>4. ~d.deadBefore /\ d.hash \in KeyHashes BY <1>1, <1>2 DEF KeyInvariant, KeyRequestSound
<1>5. UNCHANGED <<keyRow, keyIndex, membership, sweep, dead, revocations>> BY DEF ResolveScopes
<1>6. CASE keyRequest' = [keyRequest EXCEPT ![q] = IdleKey] BY <1>5, <1>6, IdleKeySound, KeyRequestKeeps
<1>7. ASSUME d.row.tenant = d.tenant,
             keyRequest' = [keyRequest EXCEPT ![q] =
               [at |-> "admitted", hash |-> d.hash, row |-> d.row, tenant |-> d.tenant,
                scopes |-> EffectiveScopes(d.row, membership[d.row.owner]), deadBefore |-> d.deadBefore,
                live |-> membership[d.row.owner]]]
      PROVE  KeyInvariant'
  <2>1. PICK row \in MintedRow, hash \in Hashes, tenant \in KeyTenants, deadBefore \in BOOLEAN :
          row = d.row /\ hash = d.hash /\ tenant = d.tenant /\ deadBefore = d.deadBefore
    BY <1>3
  <2>2. PICK live : live = membership[row.owner] OBVIOUS
  <2>3. PICK scopes : scopes = row.scopes \cap live OBVIOUS
  <2> DEFINE r == [at |-> "admitted", hash |-> hash, row |-> row, tenant |-> tenant,
                   scopes |-> scopes, deadBefore |-> deadBefore, live |-> live]
  <2>4. row.scopes \subseteq GrantableScopes /\ row.owner \in Owners BY DEF MintedRow
  <2>5. keyRequest' = [keyRequest EXCEPT ![q] = r] BY <1>7, <2>1, <2>2, <2>3 DEF EffectiveScopes
  <2>6. r.at = "admitted" /\ r.hash = hash /\ r.row = row /\ r.tenant = tenant /\ r.scopes = scopes
        /\ r.deadBefore = deadBefore /\ r.live = live
    OBVIOUS
  <2>7. live \in SUBSET GrantableScopes BY <2>2, <2>4 DEF KeyInvariant, KeyTypeOK
  <2>8. r \in KeyDoings BY <2>3, <2>4, <2>7 DEF KeyDoings
  <2> HIDE DEF r
  <2>9. r.hash \notin ShareHashes BY <1>4, <2>1, <2>6, TablesAreApart
  <2>10. r.scopes \subseteq r.row.scopes \cap r.live /\ r.row.tenant = r.tenant BY <1>7, <2>1, <2>3, <2>6
  <2>11. ~r.deadBefore /\ r.at # "touch" /\ r.at # "scopes" BY <1>4, <2>1, <2>6
  <2> QED BY <1>5, <2>5, <2>8, <2>9, <2>10, <2>11, KeyRequestKeeps
<1> QED BY <1>1, <1>2, <1>6, <1>7, Zenon DEF ResolveScopes

LEMMA KeyRequestEndsKeeps ==
    ASSUME KeyInvariant, NEW q \in KeyRequests, Served(q) \/ KeyRequestFails(q)
    PROVE  KeyInvariant'
<1>1. keyRequest' = [keyRequest EXCEPT ![q] = IdleKey] /\ UNCHANGED <<keyRow, keyIndex, membership, sweep, dead, revocations>>
  BY DEF Served, KeyRequestFails
<1> QED BY <1>1, IdleKeySound, KeyRequestKeeps

\* A row's step: what a sweep listed, and what it is through with, stays so.
LEMMA RowStepKeeps ==
    ASSUME KeyInvariant, NEW h \in Hashes, NEW row \in KeyRecord, keyRow' = [keyRow EXCEPT ![h] = row],
           dead \subseteq dead', dead' \subseteq dead \cup {h}, IsFiniteSet(dead'),
           keyRow[h].there \/ h \in dead => row.there \/ h \in dead',
           h \in dead' => ~row.there \/ row.revoked,
           row.revoked => h \in dead',
           revocations' \in Nat, revocations' <= Cardinality(dead'),
           UNCHANGED <<keyIndex, membership, keyRequest>>,
           sweep' \in [Sweeps -> SweepDoings],
           \A w \in Sweeps : sweep'[w] = sweep[w] \/ SweepSound(w)'
    PROVE  KeyInvariant'
<1>1. /\ keyRow' \in [Hashes -> KeyRecord] /\ keyRow'[h] = row
      /\ \A g \in Hashes \ {h} : keyRow'[g] = keyRow[g]
  BY DEF KeyInvariant, KeyTypeOK
<1>2. KeyTypeOK' BY <1>1 DEF KeyInvariant, KeyTypeOK
<1>3. ASSUME NEW g \in Hashes PROVE RowSound(g)'
  <2>1. RowSound(g) BY DEF KeyInvariant
  <2>2. CASE g = h BY <1>1, <2>2 DEF RowSound
  <2>3. CASE g # h BY <1>1, <2>1, <2>3 DEF RowSound
  <2> QED BY <2>2, <2>3
<1>4. \A q \in KeyRequests : KeyRequestSound(q)' BY DEF KeyInvariant, KeyRequestSound
<1>5. ASSUME NEW w \in Sweeps, sweep'[w] = sweep[w] PROVE SweepSound(w)'
  BY <1>1, <1>5 DEF KeyInvariant, KeyTypeOK, SweepDoings, SweepSound
<1> QED BY <1>2, <1>3, <1>4, <1>5 DEF KeyInvariant

LEMMA MintKeeps ==
    ASSUME KeyInvariant, NEW h \in Hashes, NEW u \in Owners, NEW t \in KeyTenants, NEW scopes \in SUBSET GrantableScopes,
           NEW expires \in {0, LastTick}, Mint(h, u, t, scopes, expires)
    PROVE  KeyInvariant'
<1>1. PICK granted \in SUBSET GrantableScopes : granted = IF h \in KeyHashes THEN scopes ELSE {} OBVIOUS
<1> DEFINE row == [there |-> TRUE, owner |-> u, tenant |-> t, scopes |-> granted, expires |-> expires, revoked |-> FALSE]
<1>2. row \in MintedRow BY DEF MintedRow
<1>3. row.there = TRUE /\ row.revoked = FALSE OBVIOUS
<1>4. keyRow' = [keyRow EXCEPT ![h] = row] /\ h \notin dead BY <1>1 DEF Mint
<1> HIDE DEF row
<1>5. row \in KeyRecord BY <1>2 DEF KeyRecord
<1>6. /\ UNCHANGED <<keyIndex, membership, keyRequest, sweep, dead, revocations>>
      /\ sweep' \in [Sweeps -> SweepDoings] /\ IsFiniteSet(dead') /\ revocations' \in Nat /\ revocations' <= Cardinality(dead')
  BY DEF Mint, KeyInvariant, KeyTypeOK
<1> QED BY <1>3, <1>4, <1>5, <1>6, RowStepKeeps

\* A revocation is of a row that was alive, so it ends another key.
LEMMA RevokedRow ==
    ASSUME KeyInvariant, NEW h \in Hashes, Revocable(keyRow[h]), Revoked(h)
    PROVE  \E row \in KeyRecord :
             /\ keyRow' = [keyRow EXCEPT ![h] = row] /\ row.revoked
             /\ dead' = dead \cup {h} /\ IsFiniteSet(dead')
             /\ revocations' \in Nat /\ revocations' <= Cardinality(dead')
<1>1. keyRow[h] \in MintedRow BY NoKeyTyped DEF Revocable, KeyInvariant, KeyTypeOK
<1>2. PICK row : row = [keyRow[h] EXCEPT !.revoked = TRUE] OBVIOUS
<1>3. row \in MintedRow /\ row.revoked = TRUE BY <1>1, <1>2 DEF MintedRow
<1>4. keyRow' = [keyRow EXCEPT ![h] = row] BY <1>2 DEF Revoked
<1>5. h \notin dead BY DEF Revocable, KeyInvariant, RowSound
<1>6. /\ IsFiniteSet(dead \cup {h}) /\ Cardinality(dead \cup {h}) = Cardinality(dead) + 1
      /\ Cardinality(dead) \in Nat
  BY <1>5, FS_AddElement, FS_CardinalityType DEF KeyInvariant, KeyTypeOK
<1>7. dead' = dead \cup {h} /\ revocations' = revocations + 1 BY DEF Revoked
<1>8. revocations \in Nat /\ revocations <= Cardinality(dead) BY DEF KeyInvariant, KeyTypeOK
<1>9. IsFiniteSet(dead') /\ Cardinality(dead') = Cardinality(dead) + 1 BY <1>6, <1>7
<1>10. revocations' \in Nat /\ revocations' <= Cardinality(dead') BY <1>6, <1>7, <1>8, <1>9
<1>11. row \in KeyRecord BY <1>3 DEF KeyRecord
<1> QED BY <1>3, <1>4, <1>7, <1>9, <1>10, <1>11

LEMMA RevokeKeyKeeps ==
    ASSUME KeyInvariant, NEW h \in Hashes, RevokeKey(h)
    PROVE  KeyInvariant'
<1>1. Revocable(keyRow[h]) /\ Revoked(h) /\ UNCHANGED <<keyIndex, membership, keyRequest, sweep>> BY DEF RevokeKey
<1>2. PICK row \in KeyRecord :
        /\ keyRow' = [keyRow EXCEPT ![h] = row] /\ row.revoked
        /\ dead' = dead \cup {h} /\ IsFiniteSet(dead')
        /\ revocations' \in Nat /\ revocations' <= Cardinality(dead')
  BY <1>1, RevokedRow
<1>3. sweep' \in [Sweeps -> SweepDoings] BY <1>1 DEF KeyInvariant, KeyTypeOK
<1> QED BY <1>1, <1>2, <1>3, RowStepKeeps

\* A row that is deleted, by a sweep or by the table, is dead.
LEMMA DeletedRow ==
    ASSUME KeyInvariant, NEW h \in Hashes, dead' = dead \cup {h}, UNCHANGED revocations
    PROVE  IsFiniteSet(dead') /\ revocations' \in Nat /\ revocations' <= Cardinality(dead')
<1>1. /\ IsFiniteSet(dead) /\ IsFiniteSet(dead \cup {h}) /\ Cardinality(dead) \in Nat
      /\ Cardinality(dead \cup {h}) = Cardinality(dead) \/ Cardinality(dead \cup {h}) = Cardinality(dead) + 1
  BY FS_AddElement, FS_CardinalityType DEF KeyInvariant, KeyTypeOK
<1>2. revocations \in Nat /\ revocations <= Cardinality(dead) BY DEF KeyInvariant, KeyTypeOK
<1>3. Cardinality(dead') = Cardinality(dead \cup {h}) /\ revocations' = revocations OBVIOUS
<1> QED BY <1>1, <1>2, <1>3

LEMMA LinkLapsesKeeps ==
    ASSUME KeyInvariant, NEW h \in Hashes, LinkLapses(h)
    PROVE  KeyInvariant'
<1>1. /\ keyRow' = [keyRow EXCEPT ![h] = NoKey] /\ dead' = dead \cup {h}
      /\ UNCHANGED <<keyIndex, membership, keyRequest, sweep, revocations>>
  BY DEF LinkLapses
<1>2. IsFiniteSet(dead') /\ revocations' \in Nat /\ revocations' <= Cardinality(dead') BY <1>1, DeletedRow
<1>3. sweep' \in [Sweeps -> SweepDoings] BY <1>1 DEF KeyInvariant, KeyTypeOK
<1> QED BY <1>1, <1>2, <1>3, NoKeyTyped, RowStepKeeps

\* A sweep's record after one row of its listing.
LEMMA SweepAdvances ==
    ASSUME KeyInvariant, NEW w \in Sweeps, NEW h, sweep[w].at = "sweep",
           sweep' = [sweep EXCEPT ![w].todo = @ \ {h}]
    PROVE  /\ sweep' \in [Sweeps -> SweepDoings]
           /\ sweep'[w].at = "sweep" /\ sweep'[w].seen = sweep[w].seen /\ sweep'[w].todo = sweep[w].todo \ {h}
           /\ \A o \in Sweeps \ {w} : sweep'[o] = sweep[o]
<1>1. PICK s \in SweepDoings : s = sweep[w] BY DEF KeyInvariant, KeyTypeOK
<1>2. PICK n : n = [s EXCEPT !.todo = @ \ {h}] OBVIOUS
<1>3. n \in SweepDoings /\ n.at = s.at /\ n.seen = s.seen /\ n.todo = s.todo \ {h} BY <1>2 DEF SweepDoings
<1>4. sweep' = [sweep EXCEPT ![w] = n] BY <1>1, <1>2
<1> QED BY <1>1, <1>3, <1>4 DEF KeyInvariant, KeyTypeOK

\* A row the sweep is through with has ended, by its own hand or another's.
LEMMA SweepDeletesKeeps ==
    ASSUME KeyInvariant, NEW w \in Sweeps, NEW h \in Hashes, SweepDeletes(w, h)
    PROVE  KeyInvariant'
<1>1. /\ sweep[w].at = "sweep" /\ keyRow' = [keyRow EXCEPT ![h] = NoKey] /\ dead' = dead \cup {h}
      /\ sweep' = [sweep EXCEPT ![w].todo = @ \ {h}]
      /\ UNCHANGED <<keyIndex, membership, keyRequest, revocations>>
  BY DEF SweepDeletes
<1>2. /\ sweep' \in [Sweeps -> SweepDoings]
      /\ sweep'[w].at = "sweep" /\ sweep'[w].seen = sweep[w].seen /\ sweep'[w].todo = sweep[w].todo \ {h}
      /\ \A o \in Sweeps \ {w} : sweep'[o] = sweep[o]
  BY <1>1, SweepAdvances
<1>3. IsFiniteSet(dead') /\ revocations' \in Nat /\ revocations' <= Cardinality(dead') BY <1>1, DeletedRow
<1>4. SweepSound(w)' BY <1>1, <1>2 DEF KeyInvariant, KeyTypeOK, SweepDoings, SweepSound
<1> QED BY <1>1, <1>2, <1>3, <1>4, NoKeyTyped, RowStepKeeps

LEMMA SweepRevokesKeeps ==
    ASSUME KeyInvariant, NEW w \in Sweeps, NEW h \in Hashes, SweepRevokes(w, h)
    PROVE  KeyInvariant'
<1>1. /\ sweep[w].at = "sweep" /\ h \in sweep[w].todo /\ sweep' = [sweep EXCEPT ![w].todo = @ \ {h}]
      /\ UNCHANGED <<keyIndex, membership, keyRequest>>
  BY DEF SweepRevokes
<1>2. /\ sweep' \in [Sweeps -> SweepDoings]
      /\ sweep'[w].at = "sweep" /\ sweep'[w].seen = sweep[w].seen /\ sweep'[w].todo = sweep[w].todo \ {h}
      /\ \A o \in Sweeps \ {w} : sweep'[o] = sweep[o]
  BY <1>1, SweepAdvances
<1>3. SweepSound(w) /\ sweep[w].seen \subseteq Hashes BY DEF KeyInvariant, KeyTypeOK, SweepDoings
<1>4. ASSUME Revocable(keyRow[h]), Revoked(h) PROVE KeyInvariant'
  <2>1. PICK row \in KeyRecord :
          /\ keyRow' = [keyRow EXCEPT ![h] = row] /\ row.revoked
          /\ dead' = dead \cup {h} /\ IsFiniteSet(dead')
          /\ revocations' \in Nat /\ revocations' <= Cardinality(dead')
    BY <1>4, RevokedRow
  <2>2. \A g \in Hashes : keyRow[g].there \/ g \in dead => keyRow'[g].there \/ g \in dead'
    BY <2>1 DEF KeyInvariant, KeyTypeOK
  <2>3. SweepSound(w)' BY <1>1, <1>2, <1>3, <2>1, <2>2 DEF SweepSound
  <2> QED BY <1>1, <1>2, <2>1, <2>3, RowStepKeeps
<1>5. ASSUME ~Revocable(keyRow[h]), UNCHANGED <<keyRow, dead, revocations>> PROVE KeyInvariant'
  <2>1. h \in sweep[w].seen => h \in dead BY <1>3, <1>5 DEF Revocable, KeyInvariant, RowSound, SweepSound
  <2>2. SweepSound(w)' BY <1>1, <1>2, <1>3, <1>5, <2>1 DEF SweepSound
  <2>3. PICK row : row = keyRow[h] OBVIOUS
  <2>4. /\ row \in KeyRecord /\ keyRow' = [keyRow EXCEPT ![h] = row]
        /\ h \in dead' => ~row.there \/ row.revoked
        /\ row.revoked => h \in dead'
        /\ dead' = dead /\ IsFiniteSet(dead') /\ revocations' \in Nat /\ revocations' <= Cardinality(dead')
    BY <1>5, <2>3 DEF KeyInvariant, KeyTypeOK, RowSound
  <2>5. keyRow[h].there \/ h \in dead => row.there \/ h \in dead' BY <2>3, <2>4
  <2> QED BY <1>1, <1>2, <2>2, <2>4, <2>5, RowStepKeeps
<1> QED BY <1>4, <1>5 DEF SweepRevokes

\* A sweep's step that touches no row.
LEMMA SweepStepKeeps ==
    ASSUME KeyInvariant, NEW w \in Sweeps, NEW s \in SweepDoings, sweep' = [sweep EXCEPT ![w] = s],
           UNCHANGED <<keyRow, keyIndex, membership, keyRequest, dead, revocations>>,
           \A h \in s.seen : keyRow[h].there \/ h \in dead,
           s.at \in {"sweep", "done"} => s.seen \ s.todo \subseteq dead,
           s.at = "done" => s.todo = {}
    PROVE  KeyInvariant'
<1>1. /\ sweep' \in [Sweeps -> SweepDoings] /\ sweep'[w] = s
      /\ \A o \in Sweeps \ {w} : sweep'[o] = sweep[o]
  BY DEF KeyInvariant, KeyTypeOK
<1>2. KeyTypeOK' BY <1>1 DEF KeyInvariant, KeyTypeOK
<1>3. \A h \in Hashes : RowSound(h)' BY DEF KeyInvariant, RowSound
<1>4. \A q \in KeyRequests : KeyRequestSound(q)' BY DEF KeyInvariant, KeyRequestSound
<1>5. ASSUME NEW o \in Sweeps PROVE SweepSound(o)'
  <2>1. CASE o = w BY <1>1, <2>1 DEF SweepSound
  <2>2. CASE o # w BY <1>1, <2>2 DEF KeyInvariant, SweepSound
  <2> QED BY <2>1, <2>2
<1>6. revocations' <= Cardinality(dead') BY DEF KeyInvariant
<1> QED BY <1>2, <1>3, <1>4, <1>5, <1>6 DEF KeyInvariant

\* A listing shows rows that are there.
LEMMA StartSweepKeeps ==
    ASSUME KeyInvariant, NEW w \in Sweeps, NEW verb \in {"revoke", "delete"}, NEW store \in {KeyHashes, ShareHashes},
           NEW t \in KeyTenants, StartSweep(w, verb, store, t)
    PROVE  KeyInvariant'
<1>1. PICK found : found = Listed(verb, store, t) OBVIOUS
<1>2. found \subseteq Hashes /\ \A h \in found : keyRow[h].there BY <1>1 DEF Listed, KeyInvariant, KeyTypeOK
<1> DEFINE s == [at |-> "sweep", verb |-> verb, todo |-> found, seen |-> found]
<1>3. s \in SweepDoings BY <1>2 DEF SweepDoings
<1>4. s.at = "sweep" /\ s.todo = found /\ s.seen = found OBVIOUS
<1>5. sweep' = [sweep EXCEPT ![w] = s] /\ UNCHANGED <<keyRow, keyIndex, membership, keyRequest, dead, revocations>>
  BY <1>1 DEF StartSweep
<1> HIDE DEF s
<1> QED BY <1>2, <1>3, <1>4, <1>5, SweepStepKeeps

\* A sweep ends with its listing behind it; one that fails promises nothing.
LEMMA SweepStopsKeeps ==
    ASSUME KeyInvariant, NEW w \in Sweeps, EndSweep(w) \/ SweepFails(w)
    PROVE  KeyInvariant'
<1>1. PICK s \in SweepDoings : s = sweep[w] BY DEF KeyInvariant, KeyTypeOK
<1>2. PICK at \in {"done", "failed"} :
        /\ sweep' = [sweep EXCEPT ![w].at = at] /\ (at = "done" => s.todo = {})
        /\ s.at = "sweep" /\ UNCHANGED <<keyRow, keyIndex, membership, keyRequest, dead, revocations>>
  BY <1>1 DEF EndSweep, SweepFails
<1>3. PICK n : n = [s EXCEPT !.at = at] OBVIOUS
<1>4. n \in SweepDoings /\ n.at = at /\ n.seen = s.seen /\ n.todo = s.todo BY <1>3 DEF SweepDoings
<1>5. sweep' = [sweep EXCEPT ![w] = n] BY <1>1, <1>2, <1>3
<1>6. /\ \A h \in s.seen : keyRow[h].there \/ h \in dead
      /\ s.seen \ s.todo \subseteq dead
  BY <1>1, <1>2 DEF KeyInvariant, SweepSound
<1>7. /\ \A h \in n.seen : keyRow[h].there \/ h \in dead
      /\ n.seen \ n.todo \subseteq dead /\ (n.at = "done" => n.todo = {})
  BY <1>2, <1>4, <1>6
<1>8. UNCHANGED <<keyRow, keyIndex, membership, keyRequest, dead, revocations>> BY <1>2
<1> QED BY <1>4, <1>5, <1>7, <1>8, SweepStepKeeps

\* The indexes, the roles and the clock.
LEMMA KeySurroundingsKeep ==
    ASSUME KeyInvariant,
           \/ KeyTick \/ IndexKeys \/ UNCHANGED keyVars
           \/ \E u \in Owners, scopes \in SUBSET GrantableScopes : ChangeRole(u, scopes)
    PROVE  KeyInvariant'
<1>1. UNCHANGED <<keyRow, keyRequest, sweep, dead, revocations>> BY DEF KeyTick, IndexKeys, ChangeRole, keyVars
<1>2. keyIndex' \subseteq Hashes BY DEF KeyTick, IndexKeys, ChangeRole, keyVars, KeyInvariant, KeyTypeOK
<1>3. membership' \in [Owners -> SUBSET GrantableScopes]
  BY DEF KeyTick, IndexKeys, ChangeRole, keyVars, KeyInvariant, KeyTypeOK
<1>4. KeyTypeOK' BY <1>1, <1>2, <1>3 DEF KeyInvariant, KeyTypeOK
<1> QED BY <1>1, <1>4 DEF KeyInvariant, RowSound, KeyRequestSound, SweepSound

LEMMA KeysStart == KeyInit => KeyInvariant
<1> SUFFICES ASSUME KeyInit PROVE KeyInvariant OBVIOUS
<1>1. /\ IdleSweep \in SweepDoings /\ IdleSweep.at = "idle" /\ IdleSweep.seen = {} BY DEF IdleSweep, SweepDoings
<1>2. IsFiniteSet(dead) /\ Cardinality(dead) = 0 /\ dead = {} /\ revocations = 0 BY FS_EmptySet DEF KeyInit
<1>3. KeyTypeOK BY <1>1, <1>2, NoKeyTyped, IdleKeySound DEF KeyInit, KeyTypeOK
<1>4. \A h \in Hashes : RowSound(h) BY NoKeyTyped DEF KeyInit, RowSound
<1>5. \A q \in KeyRequests : KeyRequestSound(q) BY IdleKeySound DEF KeyInit, KeyRequestSound
<1>6. \A w \in Sweeps : SweepSound(w) BY <1>1 DEF KeyInit, SweepSound
<1> QED BY <1>2, <1>3, <1>4, <1>5, <1>6 DEF KeyInvariant

LEMMA KeysKeep == KeyInvariant /\ [KeyNext]_keyVars => KeyInvariant'
<1> SUFFICES ASSUME KeyInvariant, [KeyNext]_keyVars PROVE KeyInvariant' OBVIOUS
<1>1. ASSUME NEW h \in Hashes, NEW u \in Owners, NEW t \in KeyTenants, NEW scopes \in SUBSET GrantableScopes,
             NEW expires \in {0, LastTick}, Mint(h, u, t, scopes, expires)
      PROVE  KeyInvariant'
  BY <1>1, MintKeeps
<1>2. ASSUME NEW h \in Hashes, RevokeKey(h) \/ LinkLapses(h) PROVE KeyInvariant' BY <1>2, RevokeKeyKeeps, LinkLapsesKeeps
<1>3. ASSUME NEW q \in KeyRequests, NEW h \in Hashes, NEW t \in KeyTenants, Verify(q, h, t) PROVE KeyInvariant'
  BY <1>3, VerifyKeeps
<1>4. ASSUME NEW q \in KeyRequests, Touch(q) \/ ResolveScopes(q) \/ Served(q) \/ KeyRequestFails(q) PROVE KeyInvariant'
  BY <1>4, TouchKeeps, ResolveScopesKeeps, KeyRequestEndsKeeps
<1>5. ASSUME NEW w \in Sweeps, NEW verb \in {"revoke", "delete"}, NEW store \in {KeyHashes, ShareHashes},
             NEW t \in KeyTenants, StartSweep(w, verb, store, t)
      PROVE  KeyInvariant'
  BY <1>5, StartSweepKeeps
<1>6. ASSUME NEW w \in Sweeps, NEW h \in Hashes, SweepRevokes(w, h) \/ SweepDeletes(w, h) PROVE KeyInvariant'
  BY <1>6, SweepRevokesKeeps, SweepDeletesKeeps
<1>7. ASSUME NEW w \in Sweeps, EndSweep(w) \/ SweepFails(w) PROVE KeyInvariant' BY <1>7, SweepStopsKeeps
<1>8. CASE \/ KeyTick \/ IndexKeys \/ UNCHANGED keyVars
           \/ \E u \in Owners, scopes \in SUBSET GrantableScopes : ChangeRole(u, scopes)
  BY <1>8, KeySurroundingsKeep
<1> QED BY <1>1, <1>2, <1>3, <1>4, <1>5, <1>6, <1>7, <1>8, Zenon DEF KeyNext

LEMMA SoundKeysEnd == KeyInvariant => CredentialsEnd
<1> SUFFICES ASSUME KeyInvariant PROVE CredentialsEnd OBVIOUS
<1>1. \A h \in Hashes : h \in dead => ~Usable(keyRow[h]) BY DEF KeyInvariant, RowSound, Usable
<1>2. DeadKeysStayDead BY <1>1 DEF KeyInvariant, KeyTypeOK, KeyRequestSound, DeadKeysStayDead
<1>3. AdmittedAreDelegated BY DEF KeyInvariant, KeyRequestSound, AdmittedAreDelegated
<1>4. ASSUME NEW w \in Sweeps, sweep[w].at = "done", NEW h \in sweep[w].seen PROVE ~Usable(keyRow[h])
  BY <1>1, <1>4 DEF KeyInvariant, KeyTypeOK, SweepDoings, SweepSound
<1>5. SweepsEndWhatTheyList BY <1>4 DEF SweepsEndWhatTheyList
<1>6. RevokedOnce BY DEF KeyInvariant, RevokedOnce
<1> QED BY <1>2, <1>3, <1>5, <1>6 DEF CredentialsEnd

\* A key or link revoked, deleted or lapsed admits nobody who comes after: not
\* through the stamp of a request that read it before, nor a sweep over a lagging
\* index; a request acts within what its key carries and its owner holds; a sweep
\* that ends left nothing it listed; and no revocation is told to two callers.
THEOREM CredentialsDie == KeySpec => []CredentialsEnd
<1>1. KeyInvariant /\ [KeyNext]_keyVars => KeyInvariant' BY KeysKeep
<1> QED BY KeysStart, <1>1, SoundKeysEnd, PTL DEF KeySpec

-----------------------------------------------------------------------------
(* The tokens of the GitHub App's client.                                  *)

GivenToken == [of : Installations, n : Nat \ {0}, expires : Int]
TokenRecord == {NoToken} \cup GivenToken
KeyOrNone == Installations \cup {NoInstallation}
CallDoings == [at : {"idle", "lookup", "ask", "keep", "token", "exchange", "send", "forget", "dropLookup"},
               writes : BOOLEAN, looked : BOOLEAN, key : KeyOrNone, token : TokenRecord, tries : Nat,
               tried : SUBSET GivenToken, again : BOOLEAN]

\* What the client and GitHub keep.
GithubTypeOK ==
    /\ moment \in Nat /\ minted \in Nat
    /\ home \in KeyOrNone /\ lookup \in KeyOrNone
    /\ tokens \in [Installations -> TokenRecord]
    /\ caller \in [Callers -> CallDoings]
    /\ handed \subseteq GivenToken

\* A token is cached for its own installation.
CacheSound(i) == tokens[i] = NoToken \/ (tokens[i].of = i /\ tokens[i].n <= minted)

\* No token in hand is worth keeping for an installation.
TokenWanted(key) == \A t \in handed : t.of = key /\ HasTimeLeft(t) => t.n \in refused

\* A call in an exchange holds the lock, and its installation wants a token; a
\* refused token is cached nowhere but where the call is about to drop it.
CallSound(c, r) ==
    /\ ~r.again
    /\ r.at # "idle" => r.looked \/ r.key \in Installations
    /\ r.at \in {"keep", "token", "exchange", "send", "forget"} => r.key \in Installations
    /\ r.at = "exchange" => holder = c /\ TokenWanted(r.key)
    /\ r.at \in {"send", "forget"} => r.token \in GivenToken /\ r.token.of = r.key /\ r.token.n <= minted
    /\ r.at = "send" => r.token \notin r.tried
    /\ r.at = "forget" => r.token.n \in refused
    /\ \A t \in r.tried : t.n <= minted
    /\ \A i \in Installations : tokens[i] \in r.tried => r.at = "forget" /\ tokens[i] = r.token

GithubInvariant ==
    /\ GithubTypeOK
    /\ \A i \in Installations : CacheSound(i)
    /\ \A c \in Callers : CallSound(c, caller[c])
    /\ GoodTokensAreKept

LEMMA NoTokenIsGiven == NoToken \in TokenRecord /\ NoToken \notin GivenToken
<1>1. NoToken.n = 0 BY DEF NoToken
<1> QED BY <1>1 DEF TokenRecord, GivenToken

LEMMA UncalledSound ==
    /\ Uncalled \in CallDoings /\ Uncalled.at = "idle"
    /\ \A c \in Callers : CallSound(c, Uncalled)
<1>1. Uncalled \in CallDoings BY NoTokenIsGiven DEF Uncalled, CallDoings, KeyOrNone
<1>2. Uncalled.at = "idle" /\ Uncalled.again = FALSE /\ Uncalled.tried = {} BY DEF Uncalled
<1> QED BY <1>1, <1>2 DEF CallSound

\* What a call starts over with, if it does: the tokens it was refused with.
LEMMA RetryIsSound ==
    ASSUME GithubTypeOK, NEW c \in Callers, CallSound(c, caller[c]),
           \A i \in Installations : tokens[i] \notin caller[c].tried,
           caller[c].at # "idle"
    PROVE  /\ Retrying(c) \in CallDoings /\ CallSound(c, Retrying(c))
           /\ caller[c].writes => Retrying(c) = Uncalled
<1>1. PICK d \in CallDoings : d = caller[c] BY DEF GithubTypeOK
<1>2. PICK r : r = StartedOver(d) OBVIOUS
<1>3. /\ r.at = IF d.looked THEN "lookup" ELSE "token"
      /\ r.key = IF d.looked THEN NoInstallation ELSE d.key
      /\ r.tried = d.tried /\ r.again = d.again
  BY <1>2 DEF StartedOver
<1>4. r \in CallDoings BY <1>2, NoTokenIsGiven DEF StartedOver, CallDoings, KeyOrNone
<1>5. CallSound(c, r)
  <2>1. d.looked \/ d.key \in Installations BY <1>1 DEF CallSound
  <2>2. r.at \in {"lookup", "token"} /\ (r.at = "token" => r.key \in Installations) BY <1>3, <2>1
  <2>3. r.looked = d.looked BY <1>2 DEF StartedOver
  <2>4. r.looked \/ r.key \in Installations BY <1>3, <2>1, <2>3
  <2>5. ~r.again /\ \A t \in r.tried : t.n <= minted BY <1>1, <1>3 DEF CallSound
  <2>6. \A i \in Installations : tokens[i] \notin r.tried BY <1>1, <1>3
  <2> QED BY <2>2, <2>4, <2>5, <2>6 DEF CallSound
<1>6. Retrying(c) = r \/ Retrying(c) = Uncalled BY <1>1, <1>2 DEF Retrying
<1> QED BY <1>4, <1>5, <1>6, UncalledSound DEF Retrying

\* One call's step, with what it may do to the cache: put in a token newer than
\* any, or empty a place, if no other call is in an exchange; the others keep.
LEMMA CallKeeps ==
    ASSUME GithubInvariant, NEW c \in Callers, NEW r \in CallDoings, caller' = [caller EXCEPT ![c] = r],
           CallSound(c, r)',
           UNCHANGED <<moment, home>>, lookup' \in KeyOrNone, refused \subseteq refused',
           minted' \in Nat, minted <= minted',
           tokens' \in [Installations -> TokenRecord], handed' \subseteq GivenToken,
           \A i \in Installations :
             tokens'[i] \in {NoToken, tokens[i]} \/ (tokens'[i].of = i /\ minted < tokens'[i].n /\ tokens'[i].n <= minted'),
           (handed' = handed /\ holder' = holder) \/ \A o \in Callers \ {c} : caller[o].at # "exchange",
           GoodTokensAreKept'
    PROVE  GithubInvariant'
<1>1. /\ caller' \in [Callers -> CallDoings] /\ caller'[c] = r
      /\ \A o \in Callers \ {c} : caller'[o] = caller[o]
  BY DEF GithubInvariant, GithubTypeOK
<1>2. GithubTypeOK' BY <1>1 DEF GithubInvariant, GithubTypeOK
<1>3. ASSUME NEW i \in Installations PROVE CacheSound(i)'
  <2>1. CacheSound(i) /\ minted \in Nat /\ tokens[i] \in TokenRecord BY DEF GithubInvariant, GithubTypeOK
  <2>2. CASE tokens'[i] = NoToken BY <2>2 DEF CacheSound
  <2>3. CASE tokens'[i] = tokens[i] /\ tokens[i] # NoToken BY <2>1, <2>3 DEF CacheSound, TokenRecord, GivenToken
  <2>4. CASE tokens'[i].of = i /\ tokens'[i].n <= minted' BY <2>4 DEF CacheSound
  <2> QED BY <2>2, <2>3, <2>4
<1>4. ASSUME NEW o \in Callers, o # c PROVE CallSound(o, caller[o])'
  <2>1. PICK d \in CallDoings : d = caller[o] BY DEF GithubInvariant, GithubTypeOK
  <2>2. caller'[o] = d /\ CallSound(o, d) BY <1>1, <1>4, <2>1 DEF GithubInvariant
  <2>3. d.tried \subseteq GivenToken /\ minted \in Nat BY <2>1 DEF CallDoings, GithubInvariant, GithubTypeOK
  <2>4. ASSUME d.at = "exchange" PROVE (holder = o /\ TokenWanted(d.key))'
    BY <1>4, <2>1, <2>2, <2>4 DEF CallSound, TokenWanted, HasTimeLeft
  <2>5. ASSUME NEW i \in Installations, tokens'[i] \in d.tried PROVE d.at = "forget" /\ tokens'[i] = d.token
    BY <2>2, <2>3, <2>5, NoTokenIsGiven DEF CallSound, GivenToken
  <2>6. \A t \in GivenToken : t.n <= minted => t.n <= minted' BY <2>3 DEF GivenToken
  <2>7. \A t \in d.tried : t.n <= minted' BY <2>2, <2>3, <2>6 DEF CallSound
  <2>8. d.at \in {"send", "forget"} => d.token \in GivenToken /\ d.token.of = d.key /\ d.token.n <= minted'
    BY <2>2, <2>6 DEF CallSound
  <2>9. d.at = "forget" => d.token.n \in refused' BY <2>2 DEF CallSound
  <2>10. /\ ~d.again
         /\ d.at # "idle" => d.looked \/ d.key \in Installations
         /\ d.at \in {"keep", "token", "exchange", "send", "forget"} => d.key \in Installations
         /\ d.at = "send" => d.token \notin d.tried
    BY <2>2 DEF CallSound
  <2>11. CallSound(o, d)' BY <2>4, <2>5, <2>7, <2>8, <2>9, <2>10 DEF CallSound
  <2> QED BY <2>2, <2>11 DEF CallSound
<1>5. CallSound(c, caller[c])' BY <1>1 DEF CallSound
<1> QED BY <1>2, <1>3, <1>4, <1>5 DEF GithubInvariant

\* A call's step that leaves the caches alone.
LEMMA CallStepKeeps ==
    ASSUME GithubInvariant, NEW c \in Callers, NEW r \in CallDoings, caller' = [caller EXCEPT ![c] = r],
           CallSound(c, r)',
           UNCHANGED <<moment, home, minted, tokens, handed, holder>>, lookup' \in KeyOrNone, refused \subseteq refused'
    PROVE  GithubInvariant'
<1>1. minted' \in Nat /\ minted <= minted' /\ tokens' \in [Installations -> TokenRecord] /\ handed' \subseteq GivenToken
  BY DEF GithubInvariant, GithubTypeOK
<1>2. GoodTokensAreKept' BY DEF GithubInvariant, GoodTokensAreKept, HasTimeLeft
<1>3. \A i \in Installations : tokens'[i] \in {NoToken, tokens[i]} OBVIOUS
<1> QED BY <1>1, <1>2, <1>3, CallKeeps

\* What holds of a call's record still holds when only GitHub's side moved.
LEMMA SoundStays ==
    ASSUME NEW c \in Callers, NEW r \in CallDoings, CallSound(c, r),
           UNCHANGED <<moment, minted, tokens, handed, holder>>, refused \subseteq refused'
    PROVE  CallSound(c, r)'
BY DEF CallSound, TokenWanted, HasTimeLeft

LEMMA BeginsKeeps ==
    ASSUME GithubInvariant, NEW c \in Callers, NEW named \in Named \cup {NoInstallation}, NEW writes \in BOOLEAN,
           Begins(c, named, writes)
    PROVE  GithubInvariant'
<1>1. PICK at \in {"lookup", "token"} : at = IF named = NoInstallation THEN "lookup" ELSE "token" OBVIOUS
<1>2. PICK looked \in BOOLEAN : looked = (named = NoInstallation) BY Zenon
<1> DEFINE r == [at |-> at, writes |-> writes, looked |-> looked, key |-> named, token |-> NoToken, tries |-> 1,
                 tried |-> {}, again |-> FALSE]
<1>3. r \in CallDoings BY NoTokenIsGiven, ThreadsShareAnApp DEF CallDoings, KeyOrNone
<1>4. r.at = at /\ r.looked = looked /\ r.key = named /\ r.tried = {} /\ r.again = FALSE OBVIOUS
<1>5. caller' = [caller EXCEPT ![c] = r] BY <1>1, <1>2 DEF Begins, To
<1>6. UNCHANGED <<moment, home, minted, tokens, handed, holder, lookup, refused>> BY DEF Begins, gitHubSide, cacheVars
<1> HIDE DEF r
<1>7. r.at # "idle" => r.looked \/ r.key \in Installations BY <1>2, <1>4, ThreadsShareAnApp
<1>8. r.at = "token" => r.key \in Installations BY <1>1, <1>4, ThreadsShareAnApp
<1>9. CallSound(c, r) BY <1>1, <1>4, <1>7, <1>8 DEF CallSound
<1>10. CallSound(c, r)' BY <1>3, <1>6, <1>9, SoundStays
<1>11. lookup' \in KeyOrNone BY <1>6 DEF GithubInvariant, GithubTypeOK
<1> QED BY <1>3, <1>5, <1>6, <1>10, <1>11, CallStepKeeps

\* The lookup, its question to GitHub and what is kept of the answer.
LEMMA LookupKeeps ==
    ASSUME GithubInvariant, NEW c \in Callers, RepositoryInstallation(c) \/ KeepInstallation(c)
    PROVE  GithubInvariant'
<1>1. PICK d \in CallDoings : d = caller[c] BY DEF GithubInvariant, GithubTypeOK
<1>2. /\ CallSound(c, d) /\ d.at # "idle" /\ d.at \notin {"exchange", "send", "forget"}
      /\ UNCHANGED <<moment, home, minted, tokens, handed, holder, refused>>
  BY <1>1 DEF GithubInvariant, RepositoryInstallation, KeepInstallation, gitHubSide, cacheVars
<1>3. PICK r : caller' = [caller EXCEPT ![c] = r] /\ \/ r = [d EXCEPT !.at = "token", !.key = lookup] /\ lookup \in Installations
                                                     \/ r = [d EXCEPT !.at = "ask"]
                                                     \/ r = [d EXCEPT !.at = "token"] /\ d.at = "keep"
  BY <1>1 DEF RepositoryInstallation, KeepInstallation, To, GithubInvariant, GithubTypeOK, KeyOrNone
<1>4. /\ r \in CallDoings /\ r.at \in {"token", "ask"} /\ r.again = d.again /\ r.tried = d.tried /\ r.looked = d.looked
      /\ r.key \in {lookup, d.key}
  BY <1>3 DEF CallDoings, KeyOrNone, GithubInvariant, GithubTypeOK
<1>5. r.at = "token" => r.key \in Installations BY <1>2, <1>3 DEF CallDoings, CallSound
<1>6. r.looked \/ r.key \in Installations BY <1>2, <1>3, <1>5 DEF CallDoings, CallSound
<1>7. CallSound(c, r) BY <1>2, <1>4, <1>5, <1>6 DEF CallSound
<1>8. CallSound(c, r)' BY <1>2, <1>4, <1>7, SoundStays
<1>9. lookup' \in KeyOrNone
  BY <1>1, <1>2 DEF RepositoryInstallation, KeepInstallation, cacheVars, GithubInvariant, GithubTypeOK, CallDoings
<1> QED BY <1>2, <1>3, <1>4, <1>8, <1>9, CallStepKeeps

LEMMA AskInstallationKeeps ==
    ASSUME GithubInvariant, NEW c \in Callers, AskInstallation(c)
    PROVE  GithubInvariant'
<1>1. PICK d \in CallDoings : d = caller[c] BY DEF GithubInvariant, GithubTypeOK
<1>2. /\ CallSound(c, d) /\ d.at = "ask" /\ UNCHANGED <<moment, home, minted, tokens, handed, holder, refused, lookup>>
  BY <1>1 DEF GithubInvariant, AskInstallation, gitHubSide, cacheVars
<1>3. lookup' \in KeyOrNone BY <1>2 DEF GithubInvariant, GithubTypeOK
<1>4. CASE home # NoInstallation /\ caller' = [caller EXCEPT ![c] = [d EXCEPT !.at = "keep", !.key = home]]
  <2>1. PICK r : r = [d EXCEPT !.at = "keep", !.key = home] OBVIOUS
  <2>2. home \in Installations BY <1>4 DEF GithubInvariant, GithubTypeOK, KeyOrNone
  <2>3. r \in CallDoings /\ r.at = "keep" /\ r.key = home /\ r.again = d.again /\ r.tried = d.tried /\ r.looked = d.looked
    BY <2>1, <2>2 DEF CallDoings, KeyOrNone
  <2>4. CallSound(c, r) BY <1>2, <2>2, <2>3 DEF CallSound
  <2>5. CallSound(c, r)' BY <1>2, <2>3, <2>4, SoundStays
  <2> QED BY <1>2, <1>3, <1>4, <2>1, <2>3, <2>5, CallStepKeeps
<1>5. CASE caller' = [caller EXCEPT ![c] = Uncalled] BY <1>2, <1>3, <1>5, UncalledSound, SoundStays, CallStepKeeps
<1>6. CASE caller' = [caller EXCEPT ![c] = Retrying(c)]
  <2>1. PICK r : r = Retrying(c) OBVIOUS
  <2>2. \A i \in Installations : tokens[i] \notin caller[c].tried BY <1>1, <1>2 DEF CallSound
  <2>3. r \in CallDoings /\ CallSound(c, r) BY <1>1, <1>2, <2>1, <2>2, RetryIsSound DEF GithubInvariant
  <2>4. CallSound(c, r)' BY <1>2, <2>3, SoundStays
  <2> QED BY <1>2, <1>3, <1>6, <2>1, <2>3, <2>4, CallStepKeeps
<1> QED BY <1>1, <1>4, <1>5, <1>6 DEF AskInstallation, To

\* The cached token while it has time left; a thread that goes for another goes alone.
LEMMA InstallationTokenKeeps ==
    ASSUME GithubInvariant, NEW c \in Callers, InstallationToken(c)
    PROVE  GithubInvariant'
<1>1. PICK d \in CallDoings : d = caller[c] BY DEF GithubInvariant, GithubTypeOK
<1>2. /\ CallSound(c, d) /\ d.at = "token" /\ holder = NoCaller
      /\ UNCHANGED <<moment, home, minted, tokens, handed, refused, lookup>>
  BY <1>1 DEF GithubInvariant, InstallationToken, gitHubSide, LockFree
<1>3. lookup' \in KeyOrNone BY <1>2 DEF GithubInvariant, GithubTypeOK
<1>4. d.key \in Installations /\ (d.looked \/ d.key \in Installations) BY <1>2 DEF CallSound
<1>5. PICK token \in TokenRecord : token = tokens[d.key] BY <1>4 DEF GithubInvariant, GithubTypeOK
<1>6. token = NoToken \/ (token.of = d.key /\ token.n <= minted) BY <1>4, <1>5 DEF GithubInvariant, CacheSound
<1>7. CASE HasTimeLeft(token) /\ caller' = [caller EXCEPT ![c] = [d EXCEPT !.at = "send", !.token = token]] /\ UNCHANGED holder
  <2>1. PICK r : r = [d EXCEPT !.at = "send", !.token = token] OBVIOUS
  <2>2. /\ r \in CallDoings /\ r.at = "send" /\ r.token = token /\ r.key = d.key /\ r.again = d.again /\ r.tried = d.tried
        /\ r.looked = d.looked
    BY <2>1 DEF CallDoings
  <2>3. token \in GivenToken BY <1>5, <1>7 DEF HasTimeLeft, TokenRecord
  <2>4. \A i \in Installations : tokens[i] \notin d.tried BY <1>2 DEF CallSound
  <2>5. ~d.again /\ \A t \in d.tried : t.n <= minted BY <1>2 DEF CallSound
  <2>6. token # NoToken BY <2>3, NoTokenIsGiven
  <2>7. CallSound(c, r) BY <1>4, <1>5, <1>6, <2>2, <2>3, <2>4, <2>5, <2>6 DEF CallSound
  <2>8. CallSound(c, r)' BY <1>2, <1>7, <2>2, <2>7, SoundStays
  <2> QED BY <1>2, <1>3, <1>7, <2>1, <2>2, <2>8, CallStepKeeps
<1>8. CASE ~HasTimeLeft(token) /\ caller' = [caller EXCEPT ![c] = [d EXCEPT !.at = "exchange"]] /\ holder' = c
  <2>1. PICK r : r = [d EXCEPT !.at = "exchange"] OBVIOUS
  <2>2. /\ r \in CallDoings /\ r.at = "exchange" /\ r.key = d.key /\ r.again = d.again /\ r.tried = d.tried
        /\ r.looked = d.looked
    BY <2>1 DEF CallDoings
  <2>3. \A o \in Callers \ {c} : caller[o].at # "exchange"
    BY <1>2, ThreadsShareAnApp DEF GithubInvariant, CallSound
  <2>4. ASSUME NEW t \in handed, t.of = d.key, HasTimeLeft(t) PROVE t.n \in refused
    BY <1>5, <1>8, <2>4 DEF GithubInvariant, GoodTokensAreKept
  <2>5. TokenWanted(d.key)' BY <1>2, <2>4 DEF TokenWanted, HasTimeLeft
  <2>6. \A i \in Installations : tokens[i] \notin d.tried BY <1>2 DEF CallSound
  <2>7. ~d.again /\ \A t \in d.tried : t.n <= minted BY <1>2 DEF CallSound
  <2>8. \A i \in Installations : tokens'[i] \notin r.tried BY <1>2, <2>2, <2>6
  <2>9. \A t \in r.tried : t.n <= minted' BY <1>2, <2>2, <2>7
  <2>10. TokenWanted(r.key)' BY <2>2, <2>5 DEF TokenWanted
  <2>11. CallSound(c, r)' BY <1>4, <1>8, <2>2, <2>7, <2>8, <2>9, <2>10 DEF CallSound
  <2>12. minted' \in Nat /\ minted <= minted' /\ tokens' \in [Installations -> TokenRecord] /\ handed' \subseteq GivenToken
    BY <1>2 DEF GithubInvariant, GithubTypeOK
  <2>13. GoodTokensAreKept' BY <1>2 DEF GithubInvariant, GoodTokensAreKept, HasTimeLeft
  <2>14. /\ \A i \in Installations : tokens'[i] \in {NoToken, tokens[i]}
         /\ UNCHANGED <<moment, home>> /\ refused \subseteq refused'
    BY <1>2
  <2> QED BY <1>3, <1>8, <2>1, <2>2, <2>3, <2>11, <2>12, <2>13, <2>14, CallKeeps
<1> QED BY <1>1, <1>5, <1>7, <1>8 DEF InstallationToken, To

\* A lookup an exchange found wrong goes, and the call with it.
LEMMA DropLookupKeeps ==
    ASSUME GithubInvariant, NEW c \in Callers, DropLookup(c)
    PROVE  GithubInvariant'
<1>1. /\ caller' = [caller EXCEPT ![c] = Uncalled] /\ UNCHANGED <<moment, home, minted, tokens, handed, holder, refused>>
      /\ lookup' \in KeyOrNone
  BY DEF DropLookup, To, gitHubSide, KeyOrNone
<1>2. CallSound(c, Uncalled)' BY <1>1, UncalledSound, SoundStays
<1> QED BY <1>1, <1>2, UncalledSound, CallStepKeeps

\* A write GitHub may have carried out ends there; a refused token is not tried again.
LEMMA SendKeeps ==
    ASSUME GithubInvariant, NEW c \in Callers, Send(c)
    PROVE  GithubInvariant'
<1>1. PICK d \in CallDoings : d = caller[c] BY DEF GithubInvariant, GithubTypeOK
<1>2. /\ CallSound(c, d) /\ d.at = "send" /\ UNCHANGED <<moment, home, minted, tokens, handed, holder, lookup>>
      /\ refused \subseteq refused'
  BY <1>1 DEF GithubInvariant, Send, gitHubSide, cacheVars
<1>3. lookup' \in KeyOrNone BY <1>2 DEF GithubInvariant, GithubTypeOK
<1>4. /\ d.token \in GivenToken /\ d.token.of = d.key /\ d.token.n <= minted /\ d.key \in Installations
      /\ d.token \notin d.tried /\ ~d.again /\ \A t \in d.tried : t.n <= minted
      /\ \A i \in Installations : tokens[i] \notin d.tried
  BY <1>2 DEF CallSound
<1>5. CASE caller' = [caller EXCEPT ![c] = Uncalled] BY <1>2, <1>3, <1>5, UncalledSound, SoundStays, CallStepKeeps
<1>6. Retrying(c) \in CallDoings /\ CallSound(c, Retrying(c)) /\ (d.writes => Retrying(c) = Uncalled)
  BY <1>1, <1>2, <1>4, RetryIsSound DEF GithubInvariant
<1>7. CASE caller' = [caller EXCEPT ![c] = Retrying(c)]
  <2>1. PICK r : r = Retrying(c) OBVIOUS
  <2>2. CallSound(c, r)' BY <1>2, <1>6, <2>1, SoundStays
  <2> QED BY <1>2, <1>3, <1>6, <1>7, <2>1, <2>2, CallStepKeeps
<1>8. Unconfirmed(c) \in {Uncalled, Retrying(c)}
  <2>1. PICK r \in CallDoings : r = Retrying(c) BY <1>6
  <2>2. CASE r = Uncalled BY <2>1, <2>2 DEF Unconfirmed
  <2>3. CASE r # Uncalled BY <1>1, <1>6, <2>1, <2>3 DEF CallDoings, CallSound, Unconfirmed
  <2> QED BY <2>2, <2>3
<1>9. CASE caller' = [caller EXCEPT ![c] = [d EXCEPT !.at = "forget", !.tried = @ \cup {d.token}]]
           /\ refused' = refused \cup {d.token.n}
  <2>1. PICK r : r = [d EXCEPT !.at = "forget", !.tried = @ \cup {d.token}] OBVIOUS
  <2>2. /\ r \in CallDoings /\ r.at = "forget" /\ r.key = d.key /\ r.again = d.again /\ r.tried = d.tried \cup {d.token}
        /\ r.token = d.token
    BY <1>4, <2>1 DEF CallDoings
  <2>3. r.token.n \in refused' BY <1>9, <2>2
  <2>4. \A t \in r.tried : t.n <= minted' BY <1>2, <1>4, <2>2
  <2>5. \A i \in Installations : tokens'[i] \in r.tried => tokens'[i] = r.token BY <1>2, <1>4, <2>2
  <2>6. r.token \in GivenToken /\ r.token.of = r.key /\ r.token.n <= minted' /\ r.key \in Installations /\ ~r.again
    BY <1>2, <1>4, <2>2
  <2>7. CallSound(c, r)' BY <2>2, <2>3, <2>4, <2>5, <2>6 DEF CallSound
  <2> QED BY <1>2, <1>3, <1>9, <2>1, <2>2, <2>7, CallStepKeeps
<1> QED BY <1>1, <1>5, <1>7, <1>8, <1>9 DEF Send, To

\* A token nobody had wanted to keep is replaced, by the one call in an exchange.
LEMMA ExchangeKeeps ==
    ASSUME GithubInvariant, NEW c \in Callers, Exchange(c)
    PROVE  GithubInvariant'
<1>1. PICK d \in CallDoings : d = caller[c] BY DEF GithubInvariant, GithubTypeOK
<1>2. /\ CallSound(c, d) /\ d.at = "exchange" /\ UNCHANGED <<moment, home, refused, lookup>>
  BY <1>1 DEF GithubInvariant, Exchange
<1>3. lookup' \in KeyOrNone /\ refused \subseteq refused' BY <1>2 DEF GithubInvariant, GithubTypeOK
<1>4. /\ holder = c /\ TokenWanted(d.key) /\ d.key \in Installations /\ (d.looked \/ d.key \in Installations)
      /\ ~d.again /\ \A t \in d.tried : t.n <= minted
      /\ \A i \in Installations : tokens[i] \notin d.tried
  BY <1>2 DEF CallSound
<1>5. \A o \in Callers \ {c} : caller[o].at # "exchange" BY <1>4 DEF GithubInvariant, CallSound
<1>6. d.tried \subseteq GivenToken /\ minted \in Nat /\ moment \in Nat /\ tokens \in [Installations -> TokenRecord]
  BY DEF CallDoings, GithubInvariant, GithubTypeOK
<1>7. ASSUME minted' = minted + 1,
             NEW token, token = [of |-> d.key, n |-> minted + 1, expires |-> moment + TokenLife],
             caller' = [caller EXCEPT ![c] = [d EXCEPT !.at = "send", !.token = token]],
             NEW cached \in {NoToken, token}, tokens' = [tokens EXCEPT ![d.key] = cached],
             handed' = IF cached = token THEN handed \cup {token} ELSE handed
      PROVE  GithubInvariant'
  <2>1. /\ token \in GivenToken /\ token.of = d.key /\ token.n = minted + 1 /\ token # NoToken
    BY <1>4, <1>6, <1>7, ThreadsShareAnApp, NoTokenIsGiven DEF GivenToken
  <2>2. minted' \in Nat /\ minted <= minted' /\ minted < token.n /\ token.n <= minted' BY <1>6, <1>7, <2>1
  <2>3. tokens' \in [Installations -> TokenRecord] /\ tokens'[d.key] = cached
        /\ \A i \in Installations \ {d.key} : tokens'[i] = tokens[i]
    BY <1>4, <1>6, <1>7, <2>1, NoTokenIsGiven DEF TokenRecord
  <2>4. handed' \subseteq GivenToken BY <1>7, <2>1 DEF GithubInvariant, GithubTypeOK
  <2>5. ASSUME NEW i \in Installations
        PROVE  tokens'[i] \in {NoToken, tokens[i]} \/ (tokens'[i].of = i /\ minted < tokens'[i].n /\ tokens'[i].n <= minted')
    BY <2>1, <2>2, <2>3
  <2>6. GoodTokensAreKept'
    <3>1. ASSUME NEW t \in handed', HasTimeLeft(t), t.n \notin refused PROVE tokens'[t.of] = t
      <4>1. CASE t \in handed
        <5>1. t.of # d.key BY <1>4, <3>1, <4>1 DEF TokenWanted
        <5>2. tokens[t.of] = t BY <3>1, <4>1 DEF GithubInvariant, GoodTokensAreKept
        <5>3. t.of \in Installations BY <4>1 DEF GithubInvariant, GithubTypeOK, GivenToken
        <5> QED BY <2>3, <5>1, <5>2, <5>3
      <4>2. CASE t \notin handed BY <1>7, <2>1, <2>3, <3>1, <4>2
      <4> QED BY <4>1, <4>2
    <3> QED BY <1>2, <3>1 DEF GoodTokensAreKept, HasTimeLeft
  <2>7. PICK r : r = [d EXCEPT !.at = "send", !.token = token] OBVIOUS
  <2>8. /\ r \in CallDoings /\ r.at = "send" /\ r.key = d.key /\ r.again = d.again /\ r.tried = d.tried /\ r.token = token
    BY <2>1, <2>7 DEF CallDoings, TokenRecord
  <2>9. \A t \in GivenToken : t.n <= minted => t # token /\ t.n <= minted' BY <1>6, <1>7, <2>1 DEF GivenToken
  <2>10. token \notin d.tried /\ \A t \in d.tried : t.n <= minted' BY <1>4, <1>6, <2>1, <2>9
  <2>11. \A i \in Installations : tokens'[i] \notin d.tried BY <1>4, <1>6, <1>7, <2>3, <2>10, NoTokenIsGiven
  <2>12. r.token \in GivenToken /\ r.token.of = r.key /\ r.token.n <= minted' /\ r.key \in Installations
    BY <1>4, <2>1, <2>2, <2>8
  <2>13. CallSound(c, r)' BY <1>4, <2>8, <2>10, <2>11, <2>12 DEF CallSound
  <2> QED BY <1>2, <1>3, <1>5, <1>7, <2>2, <2>3, <2>4, <2>5, <2>6, <2>7, <2>8, <2>13, CallKeeps
<1>8. ASSUME NEW r \in CallDoings, CallSound(c, r), r.at # "exchange", caller' = [caller EXCEPT ![c] = r],
             UNCHANGED <<minted, tokens, handed>>
      PROVE  GithubInvariant'
  <2>1. CallSound(c, r)' BY <1>2, <1>8 DEF CallSound
  <2>2. minted' \in Nat /\ minted <= minted' /\ tokens' \in [Installations -> TokenRecord] /\ handed' \subseteq GivenToken
    BY <1>8 DEF GithubInvariant, GithubTypeOK
  <2>3. GoodTokensAreKept' BY <1>2, <1>8 DEF GithubInvariant, GoodTokensAreKept, HasTimeLeft
  <2>4. \A i \in Installations : tokens'[i] \in {NoToken, tokens[i]} BY <1>8
  <2> QED BY <1>2, <1>3, <1>5, <1>8, <2>1, <2>2, <2>3, <2>4, CallKeeps
<1>9. Retrying(c) \in CallDoings /\ CallSound(c, Retrying(c)) BY <1>1, <1>2, <1>4, RetryIsSound DEF GithubInvariant
<1>10. Retrying(c).at # "exchange" BY UncalledSound DEF Retrying, StartedOver
<1>11. PICK dropping : dropping = [d EXCEPT !.at = "dropLookup"] OBVIOUS
<1>12. dropping \in CallDoings /\ dropping.at = "dropLookup" /\ CallSound(c, dropping)
  BY <1>4, <1>11 DEF CallDoings, CallSound
<1>13. PICK token : token = [of |-> d.key, n |-> minted + 1, expires |-> moment + TokenLife] OBVIOUS
<1>14. token # NoToken BY <1>6, <1>13 DEF NoToken
<1>15. \/ /\ minted' = minted + 1
          /\ \/ tokens' = [tokens EXCEPT ![d.key] = token] /\ handed' = handed \cup {token}
             \/ tokens' = [tokens EXCEPT ![d.key] = NoToken] /\ UNCHANGED handed
          /\ caller' = [caller EXCEPT ![c] = [d EXCEPT !.at = "send", !.token = token]]
       \/ /\ UNCHANGED <<minted, tokens, handed>>
          /\ \/ caller' = [caller EXCEPT ![c] = dropping]
             \/ caller' = [caller EXCEPT ![c] = Uncalled]
             \/ caller' = [caller EXCEPT ![c] = Retrying(c)]
  BY <1>1, <1>11, <1>13 DEF Exchange, To
<1>16. CASE minted' = minted + 1 /\ caller' = [caller EXCEPT ![c] = [d EXCEPT !.at = "send", !.token = token]]
            /\ tokens' = [tokens EXCEPT ![d.key] = token] /\ handed' = handed \cup {token}
  BY <1>7, <1>13, <1>16
<1>17. CASE minted' = minted + 1 /\ caller' = [caller EXCEPT ![c] = [d EXCEPT !.at = "send", !.token = token]]
            /\ tokens' = [tokens EXCEPT ![d.key] = NoToken] /\ UNCHANGED handed
  <2>1. PICK cached \in {NoToken, token} : cached = NoToken OBVIOUS
  <2>2. handed' = IF cached = token THEN handed \cup {token} ELSE handed BY <1>14, <1>17, <2>1
  <2>3. tokens' = [tokens EXCEPT ![d.key] = cached] BY <1>17, <2>1
  <2> QED BY <1>7, <1>13, <1>17, <2>2, <2>3
<1>18. ASSUME UNCHANGED <<minted, tokens, handed>>,
              \/ caller' = [caller EXCEPT ![c] = dropping]
              \/ caller' = [caller EXCEPT ![c] = Uncalled]
              \/ caller' = [caller EXCEPT ![c] = Retrying(c)]
       PROVE  GithubInvariant'
  BY <1>8, <1>9, <1>10, <1>12, <1>18, UncalledSound
<1> QED BY <1>15, <1>16, <1>17, <1>18

\* Only the token that was refused goes, so no other token worth keeping does.
LEMMA ForgetKeeps ==
    ASSUME GithubInvariant, NEW c \in Callers, Forget(c)
    PROVE  GithubInvariant'
<1>1. PICK d \in CallDoings : d = caller[c] BY DEF GithubInvariant, GithubTypeOK
<1>2. /\ CallSound(c, d) /\ d.at = "forget" /\ UNCHANGED <<moment, home, refused, lookup, minted, handed, holder>>
      /\ tokens' = [tokens EXCEPT ![d.key] = Remaining(@, d.token)]
      /\ caller' = [caller EXCEPT ![c] = Retrying(c)]
  BY <1>1 DEF GithubInvariant, Forget, gitHubSide, To
<1>3. lookup' \in KeyOrNone /\ refused \subseteq refused' /\ minted' \in Nat /\ minted <= minted' /\ handed' \subseteq GivenToken
  BY <1>2 DEF GithubInvariant, GithubTypeOK
<1>4. /\ d.key \in Installations /\ d.token \in GivenToken /\ d.token.of = d.key /\ d.token.n \in refused
      /\ (d.looked \/ d.key \in Installations) /\ ~d.again /\ \A t \in d.tried : t.n <= minted
      /\ \A i \in Installations : tokens[i] \in d.tried => tokens[i] = d.token
  BY <1>2 DEF CallSound
<1>5. tokens \in [Installations -> TokenRecord] /\ d.tried \subseteq GivenToken BY DEF GithubInvariant, GithubTypeOK, CallDoings
<1>6. /\ tokens'[d.key] = IF tokens[d.key] = d.token THEN NoToken ELSE tokens[d.key]
      /\ \A i \in Installations \ {d.key} : tokens'[i] = tokens[i]
      /\ tokens' \in [Installations -> TokenRecord]
  BY <1>2, <1>4, <1>5, NoTokenIsGiven DEF Remaining
<1>7. \A i \in Installations : tokens'[i] \in {NoToken, tokens[i]} BY <1>6
<1>8. ASSUME NEW i \in Installations, i # d.key PROVE tokens[i] # d.token
  BY <1>4, <1>8, NoTokenIsGiven DEF GithubInvariant, CacheSound
<1>9. \A i \in Installations : tokens'[i] \notin d.tried BY <1>4, <1>5, <1>6, <1>8, NoTokenIsGiven
<1>10. GoodTokensAreKept'
  <2>1. ASSUME NEW t \in handed, HasTimeLeft(t), t.n \notin refused PROVE tokens'[t.of] = t
    BY <1>4, <1>6, <2>1 DEF GithubInvariant, GoodTokensAreKept, GithubTypeOK, GivenToken
  <2> QED BY <1>2, <2>1 DEF GoodTokensAreKept, HasTimeLeft
<1>11. PICK r : r = Retrying(c) OBVIOUS
<1>12. r = Uncalled \/ r = StartedOver(d) BY <1>1, <1>11 DEF Retrying
<1>13. r \in CallDoings /\ CallSound(c, r)'
  <2>1. CASE r = Uncalled BY <2>1, UncalledSound DEF Uncalled, CallSound
  <2>2. CASE r = StartedOver(d)
    <3>1. /\ r.at = IF d.looked THEN "lookup" ELSE "token"
          /\ r.key = IF d.looked THEN NoInstallation ELSE d.key
          /\ r.tried = d.tried /\ r.again = d.again /\ r.looked = d.looked
      BY <2>2 DEF StartedOver
    <3>2. r \in CallDoings BY <2>2, NoTokenIsGiven DEF StartedOver, CallDoings, KeyOrNone
    <3>3. r.at \in {"lookup", "token"} /\ (r.at = "token" => r.key \in Installations) /\ (r.looked \/ r.key \in Installations)
      BY <1>4, <3>1
    <3>4. ~r.again /\ \A t \in r.tried : t.n <= minted' BY <1>2, <1>4, <3>1
    <3>5. \A i \in Installations : tokens'[i] \notin r.tried BY <1>9, <3>1
    <3> QED BY <3>2, <3>3, <3>4, <3>5 DEF CallSound
  <2> QED BY <1>12, <2>1, <2>2
<1> QED BY <1>2, <1>3, <1>6, <1>7, <1>10, <1>11, <1>13, CallKeeps

\* Time only takes tokens' time, and what GitHub does to itself is not in the caches.
LEMMA GithubsSideKeeps ==
    ASSUME GithubInvariant, Tick \/ Reinstall \/ (\E n \in 1 .. MaxTokens : Withdraw(n)) \/ UNCHANGED githubVars
    PROVE  GithubInvariant'
<1>1. /\ UNCHANGED <<minted, tokens, lookup, holder, caller, handed, refused>>
      /\ moment' = moment \/ moment' = moment + 1
      /\ home' \in KeyOrNone
  BY DEF Tick, Reinstall, Withdraw, githubVars, cacheVars, KeyOrNone, GithubInvariant, GithubTypeOK
<1>2. moment \in Nat /\ moment' \in Nat /\ RefreshMargin \in Nat BY <1>1, ThreadsShareAnApp DEF GithubInvariant, GithubTypeOK
<1>3. \A t \in GivenToken : HasTimeLeft(t)' => HasTimeLeft(t) BY <1>1, <1>2 DEF HasTimeLeft, GivenToken
<1>4. GithubTypeOK' BY <1>1, <1>2 DEF GithubInvariant, GithubTypeOK
<1>5. \A i \in Installations : CacheSound(i)' BY <1>1 DEF GithubInvariant, CacheSound
<1>6. GoodTokensAreKept' BY <1>1, <1>3 DEF GithubInvariant, GithubTypeOK, GoodTokensAreKept
<1>7. ASSUME NEW c \in Callers PROVE CallSound(c, caller[c])'
  <2>1. PICK d : d = caller[c] OBVIOUS
  <2>2. CallSound(c, d) BY <2>1 DEF GithubInvariant
  <2>3. ASSUME TokenWanted(d.key) PROVE TokenWanted(d.key)'
    BY <1>1, <1>3, <2>3 DEF TokenWanted, GithubInvariant, GithubTypeOK
  <2>4. CallSound(c, d)' BY <1>1, <2>2, <2>3 DEF CallSound
  <2>5. caller'[c] = d BY <1>1, <2>1
  <2> QED BY <2>4, <2>5 DEF CallSound
<1> QED BY <1>4, <1>5, <1>6, <1>7 DEF GithubInvariant

LEMMA GithubStarts == GithubInit => GithubInvariant
<1> SUFFICES ASSUME GithubInit PROVE GithubInvariant OBVIOUS
<1>1. GithubTypeOK BY UncalledSound, NoTokenIsGiven DEF GithubInit, GithubTypeOK, KeyOrNone
<1>2. \A i \in Installations : CacheSound(i) BY DEF GithubInit, CacheSound
<1>3. \A c \in Callers : CallSound(c, caller[c]) BY UncalledSound DEF GithubInit
<1>4. GoodTokensAreKept BY DEF GithubInit, GoodTokensAreKept
<1> QED BY <1>1, <1>2, <1>3, <1>4 DEF GithubInvariant

LEMMA GithubKeeps == GithubInvariant /\ [GithubNext]_githubVars => GithubInvariant'
<1> SUFFICES ASSUME GithubInvariant, [GithubNext]_githubVars PROVE GithubInvariant' OBVIOUS
<1>1. ASSUME NEW c \in Callers, NEW named \in Named \cup {NoInstallation},
             RepositoryWrite(c, named) \/ RepositoryRead(c, named)
      PROVE  GithubInvariant'
  BY <1>1, BeginsKeeps DEF RepositoryWrite, RepositoryRead
<1>2. ASSUME NEW c \in Callers, RepositoryInstallation(c) \/ KeepInstallation(c) PROVE GithubInvariant' BY <1>2, LookupKeeps
<1>3. ASSUME NEW c \in Callers, AskInstallation(c) \/ InstallationToken(c) \/ Exchange(c) PROVE GithubInvariant'
  BY <1>3, AskInstallationKeeps, InstallationTokenKeeps, ExchangeKeeps
<1>4. ASSUME NEW c \in Callers, DropLookup(c) \/ Send(c) \/ Forget(c) PROVE GithubInvariant'
  BY <1>4, DropLookupKeeps, SendKeeps, ForgetKeeps
<1>5. CASE Tick \/ Reinstall \/ (\E n \in 1 .. MaxTokens : Withdraw(n)) \/ UNCHANGED githubVars BY <1>5, GithubsSideKeeps
<1> QED BY <1>1, <1>2, <1>3, <1>4, <1>5, Zenon DEF GithubNext

\* Threads that share one GitHub App client make one exchange between them: a token
\* the client was handed stays cached while it has time left and was not refused.
\* A refused token is never tried again by the same call, and no write that GitHub
\* may have carried out is sent twice.
THEOREM ClientsShareTokens == GithubSpec => []TokensAreShared
<1>1. GithubInvariant => TokensAreShared
  BY DEF GithubInvariant, CallSound, TokensAreShared, WritesHappenOnce, RetriesAreFresh
<1>2. GithubInvariant /\ [GithubNext]_githubVars => GithubInvariant' BY GithubKeeps
<1> QED BY GithubStarts, <1>1, <1>2, PTL DEF GithubSpec

-----------------------------------------------------------------------------
(* The removal of an account.                                              *)

IdentityRecord == [there : BOOLEAN, listed : BOOLEAN, doomed : BOOLEAN]
CallRecord == [at : {"idle", "next", "read", "delete", "erase"} \cup {"credentials", "identity_tokens"}, user : UserIds \cup {""},
               todo : SUBSET UserIds, real : BOOLEAN]
Gone == {"absent", "stub"}

\* What the tables, the requests and the deliveries keep.
RemovalTypeOK ==
    /\ userRow \in [UserIds -> {"whole", "unborn"} \cup Gone] /\ DOMAIN address = UserIds
    /\ identityRow \in [Tables -> [UserIds -> IdentityRecord]]
    /\ pending \in [UserIds -> Nat]
    /\ adminCall \in [AdminCalls -> CallRecord]
    /\ purge \in [Deliveries -> [at : Nat, user : UserIds \cup {""}]]
    /\ purged \subseteq UserIds

\* A purge is of a user who is gone, and owes nothing in the tables behind it.
PurgeSound(d) ==
    LET p == purge[d]
    IN p.at > 0 =>
         /\ p.user \in UserIds /\ userRow[p.user] \in Gone
         /\ \A i \in DOMAIN PurgeOrder : i < p.at /\ PurgeOrder[i] \notin Unsupported => ~identityRow[PurgeOrder[i]][p.user].doomed

\* An account purged to the end is gone, so nothing in its tables is doomed again.
PurgedSound(u) == userRow[u] \in Gone /\ \A t \in Tables \ Unsupported : ~identityRow[t][u].doomed

\* A call deletes a user it read at an e2e address, so not one who was real throughout.
CallIsSound(c) ==
    /\ c.at \in {"delete", "erase"} => ~c.real
    /\ c.real => c.user \in UserIds /\ userRow[c.user] # "unborn" /\ address[c.user] = "real"

RemovalInvariant ==
    /\ RemovalTypeOK
    /\ \A u \in UserIds : pending[u] > 0 => userRow[u] \in Gone
    /\ \A t \in Tables, u \in UserIds : identityRow[t][u].doomed => identityRow[t][u].listed
    /\ \A d \in Deliveries : PurgeSound(d)
    /\ \A u \in purged : PurgedSound(u)
    /\ \A a \in AdminCalls : CallIsSound(adminCall[a])
    /\ RealAccountsStay

\* The account a user had does not come back, and what a purge owes only shrinks.
NothingOwedAnew ==
    /\ \A u \in UserIds : userRow[u] \in Gone => userRow'[u] \in Gone
    /\ \A t \in Tables, u \in UserIds : userRow[u] \in Gone /\ identityRow'[t][u].doomed => identityRow[t][u].doomed

\* What the counts of tables and deliveries take of the numbers.
LEMMA Counting ==
    /\ \A n \in Nat : n + 1 \in Nat /\ n + 1 > 0
    /\ \A n \in Nat : n # 0 => n - 1 \in Nat /\ n > 0
    /\ \A n \in Nat : \A i \in Nat : i < n + 1 => i < n \/ i = n
    /\ 0 \in Nat /\ ~(0 > 0)
OBVIOUS

LEMMA TablesAreOrdered ==
    /\ Len(PurgeOrder) \in Nat /\ DOMAIN PurgeOrder = 1 .. Len(PurgeOrder)
    /\ \A i \in DOMAIN PurgeOrder : PurgeOrder[i] \in Tables
    /\ \A t \in Tables : \E i \in DOMAIN PurgeOrder : t = PurgeOrder[i]
    /\ \A i \in DOMAIN PurgeOrder : i \in Nat /\ i > 0 /\ i < Len(PurgeOrder) + 1 /\ ~(i < 1)
<1>1. PurgeOrder \in Seq(Tables) BY TablesHaveAnOrder
<1>2. Len(PurgeOrder) \in Nat /\ DOMAIN PurgeOrder = 1 .. Len(PurgeOrder) BY <1>1
<1>3. \A i \in DOMAIN PurgeOrder : i \in Nat /\ i > 0 /\ i < Len(PurgeOrder) + 1 /\ ~(i < 1) BY <1>2
<1> QED BY <1>2, <1>3 DEF Tables

\* Any step after which nothing more is owed keeps the deliveries and purges sound.
LEMMA RemovalKeeps ==
    ASSUME RemovalInvariant, RemovalTypeOK', NothingOwedAnew,
           \A u \in UserIds : pending'[u] > 0 => pending[u] > 0 \/ userRow'[u] \in Gone,
           \A t \in Tables, u \in UserIds : identityRow'[t][u].doomed => identityRow'[t][u].listed,
           \A d \in Deliveries : purge'[d] = purge[d] \/ PurgeSound(d)',
           \A u \in purged' : u \in purged \/ PurgedSound(u)',
           \A a \in AdminCalls : CallIsSound(adminCall[a])',
           RealAccountsStay'
    PROVE  RemovalInvariant'
<1>1. \A u \in UserIds : pending'[u] > 0 => userRow'[u] \in Gone BY DEF RemovalInvariant, NothingOwedAnew
<1>2. ASSUME NEW d \in Deliveries PROVE PurgeSound(d)'
  <2>1. CASE purge'[d] = purge[d]
    <3>1. PICK p : p = purge[d] OBVIOUS
    <3>2. ASSUME p.at > 0
          PROVE  /\ p.user \in UserIds /\ userRow'[p.user] \in Gone
                 /\ \A i \in DOMAIN PurgeOrder : i < p.at /\ PurgeOrder[i] \notin Unsupported
                      => ~identityRow'[PurgeOrder[i]][p.user].doomed
      BY <3>1, <3>2, TablesAreOrdered DEF RemovalInvariant, PurgeSound, NothingOwedAnew
    <3> QED BY <2>1, <3>1, <3>2 DEF PurgeSound
  <2> QED BY <2>1
<1>3. ASSUME NEW u \in purged' PROVE PurgedSound(u)'
  <2>1. CASE u \in purged BY <2>1 DEF RemovalInvariant, RemovalTypeOK, PurgedSound, NothingOwedAnew
  <2> QED BY <2>1
<1> QED BY <1>1, <1>2, <1>3 DEF RemovalInvariant

\* One identity row is put or dropped.
LEMMA OneIdentityRow ==
    ASSUME identityRow \in [Tables -> [UserIds -> IdentityRecord]],
           \A t \in Tables, u \in UserIds : identityRow[t][u].doomed => identityRow[t][u].listed,
           NEW s \in Tables, NEW v, NEW row, v \in UserIds => row \in IdentityRecord,
           identityRow' = [identityRow EXCEPT ![s][v] = row],
           v \in UserIds => (row.doomed => row.listed /\ identityRow[s][v].doomed)
    PROVE  /\ identityRow' \in [Tables -> [UserIds -> IdentityRecord]]
           /\ \A t \in Tables, u \in UserIds : identityRow'[t][u].doomed => identityRow'[t][u].listed /\ identityRow[t][u].doomed
<1>1. PICK rows : rows = [identityRow[s] EXCEPT ![v] = row] OBVIOUS
<1>2. identityRow' = [identityRow EXCEPT ![s] = rows] BY <1>1
<1>3. rows \in [UserIds -> IdentityRecord] BY <1>1
<1>4. identityRow' \in [Tables -> [UserIds -> IdentityRecord]] BY <1>2, <1>3
<1>5. ASSUME NEW t \in Tables, NEW u \in UserIds
      PROVE  identityRow'[t][u].doomed => identityRow'[t][u].listed /\ identityRow[t][u].doomed
  <2>1. CASE t = s /\ u = v BY <1>1, <1>2, <2>1
  <2>2. CASE ~(t = s /\ u = v) BY <1>1, <1>2, <2>2
  <2> QED BY <2>1, <2>2
<1> QED BY <1>4, <1>5

\* What a call knows of its user stays true while no address changes.
AddressesLast == \A u \in UserIds : userRow[u] # "unborn" => userRow'[u] # "unborn" /\ address'[u] = address[u]

LEMMA CallsStay ==
    ASSUME RemovalInvariant, AddressesLast, adminCall' = adminCall
    PROVE  \A b \in AdminCalls : CallIsSound(adminCall[b])'
<1> SUFFICES ASSUME NEW b \in AdminCalls PROVE CallIsSound(adminCall[b])' OBVIOUS
<1>1. PICK c : c = adminCall[b] OBVIOUS
<1>2. CallIsSound(c) BY <1>1 DEF RemovalInvariant
<1> QED BY <1>1, <1>2 DEF CallIsSound, AddressesLast

\* One administrator's call goes on.
LEMMA OneCall ==
    ASSUME RemovalInvariant, NEW a \in AdminCalls, NEW call \in CallRecord, CallIsSound(call), AddressesLast,
           adminCall' = [adminCall EXCEPT ![a] = call]
    PROVE  /\ adminCall' \in [AdminCalls -> CallRecord]
           /\ \A b \in AdminCalls : CallIsSound(adminCall[b])'
<1>1. /\ adminCall' \in [AdminCalls -> CallRecord]
      /\ \A b \in AdminCalls : adminCall'[b] = IF b = a THEN call ELSE adminCall[b]
  BY DEF RemovalInvariant, RemovalTypeOK
<1>2. ASSUME NEW b \in AdminCalls PROVE CallIsSound(adminCall[b])'
  <2>1. PICK c : c = adminCall'[b] OBVIOUS
  <2>2. CallIsSound(c) BY <1>1, <2>1 DEF RemovalInvariant
  <2> QED BY <2>1, <2>2 DEF CallIsSound, AddressesLast
<1> QED BY <1>1, <1>2

\* A step on the calls alone.
LEMMA CallsMove ==
    ASSUME RemovalInvariant, UNCHANGED <<userRow, address, identityRow, pending, purge, purged, mistaken>>,
           adminCall' \in [AdminCalls -> CallRecord],
           \A b \in AdminCalls : CallIsSound(adminCall[b])'
    PROVE  RemovalInvariant'
<1>1. RemovalTypeOK' /\ NothingOwedAnew BY DEF RemovalInvariant, RemovalTypeOK, NothingOwedAnew
<1>2. /\ \A u \in UserIds : pending'[u] > 0 => pending[u] > 0
      /\ \A t \in Tables, u \in UserIds : identityRow'[t][u].doomed => identityRow'[t][u].listed
      /\ \A d \in Deliveries : purge'[d] = purge[d]
      /\ purged' = purged /\ RealAccountsStay'
  BY DEF RemovalInvariant, RealAccountsStay
<1> QED BY <1>1, <1>2, RemovalKeeps

LEMMA IdleCallSound == IdleCall \in CallRecord /\ IdleCall.at = "idle" /\ CallIsSound(IdleCall)
BY DEF IdleCall, CallRecord, CallIsSound

LEMMA RequestsComeAndGo ==
    ASSUME RemovalInvariant,
           \/ \E q \in LiveRequests : \/ LiveRequestDies(q)
                                      \/ \E u \in UserIds : AuthenticateUser(q, u) \/ \E to \in {"e2e", "real"} : ConfirmAddress(q, u, to)
           \/ \E u \in UserIds : GrowsOld(u)
           \/ UNCHANGED removalVars
    PROVE  RemovalInvariant'
<1>1. UNCHANGED <<userRow, address, identityRow, pending, purge, purged, mistaken, adminCall>>
  BY DEF LiveRequestDies, AuthenticateUser, ConfirmAddress, GrowsOld, removalVars
<1>2. /\ adminCall' \in [AdminCalls -> CallRecord]
      /\ \A b \in AdminCalls : CallIsSound(adminCall[b])'
  BY <1>1, CallsStay DEF RemovalInvariant, RemovalTypeOK, AddressesLast
<1> QED BY <1>1, <1>2, CallsMove

\* What an administrator's call deletes had an e2e address when it was read.
LEMMA AdminStepKeeps ==
    ASSUME RemovalInvariant, NEW a \in AdminCalls,
           \/ \E u \in UserIds : DeleteEphemeral(a, u) \/ IssueVerificationLink(a, u)
           \/ AdminCallDies(a) \/ SweepEphemerals(a) \/ NextCandidate(a) \/ ReadAgain(a) \/ DeleteReads(a)
    PROVE  RemovalInvariant'
<1>1. UNCHANGED <<userRow, address, identityRow, pending, purge, purged, mistaken>> /\ AddressesLast
  BY DEF DeleteEphemeral, IssueVerificationLink, AdminCallDies, SweepEphemerals, NextCandidate, ReadAgain, DeleteReads, AddressesLast
<1>2. PICK d \in CallRecord : d = adminCall[a] BY DEF RemovalInvariant, RemovalTypeOK
<1>3. CallIsSound(d) BY <1>2 DEF RemovalInvariant
<1>4. \A u \in UserIds : \E real \in BOOLEAN : real = IsReal(u)
  <2> TAKE u \in UserIds
  <2>1. IsReal(u) = TRUE \/ IsReal(u) = FALSE BY DEF IsReal
  <2> QED BY <2>1
<1>5. \E call \in CallRecord : adminCall' = [adminCall EXCEPT ![a] = call] /\ CallIsSound(call)
  <2>1. ASSUME NEW u \in UserIds, DeleteEphemeral(a, u)
        PROVE  \E call \in CallRecord : adminCall' = [adminCall EXCEPT ![a] = call] /\ CallIsSound(call)
    <3>1. PICK real \in BOOLEAN : real = IsReal(u) BY <1>4
    <3>2. PICK call : call = [IdleCall EXCEPT !.at = "read", !.user = u, !.real = real] OBVIOUS
    <3>3. call \in CallRecord /\ call.at = "read" /\ call.user = u /\ call.real = real BY <3>2, IdleCallSound DEF CallRecord
    <3>4. CallIsSound(call) BY <3>1, <3>3 DEF CallIsSound, IsReal
    <3>5. adminCall' = [adminCall EXCEPT ![a] = call] BY <2>1, <3>1, <3>2 DEF DeleteEphemeral
    <3> QED BY <3>3, <3>4, <3>5
  <2>2. ASSUME NEW u \in UserIds, IssueVerificationLink(a, u)
        PROVE  \E call \in CallRecord : adminCall' = [adminCall EXCEPT ![a] = call] /\ CallIsSound(call)
    <3>1. PICK call : call = [IdleCall EXCEPT !.at = "identity_tokens", !.user = u] OBVIOUS
    <3>2. call \in CallRecord /\ call.at = "identity_tokens" /\ call.real = FALSE
      BY <3>1, IdleCallSound DEF CallRecord, IdleCall
    <3>3. CallIsSound(call) BY <3>2 DEF CallIsSound
    <3>4. adminCall' = [adminCall EXCEPT ![a] = call] BY <2>2, <3>1 DEF IssueVerificationLink
    <3> QED BY <3>2, <3>3, <3>4
  <2>3. CASE adminCall' = [adminCall EXCEPT ![a] = IdleCall] BY <2>3, IdleCallSound
  <2>4. CASE SweepEphemerals(a)
    <3>1. PICK call : call = [IdleCall EXCEPT !.at = "next", !.todo = Candidates] OBVIOUS
    <3>2. call \in CallRecord /\ call.at = "next" /\ call.real = FALSE
      BY <3>1, IdleCallSound DEF CallRecord, Candidates, IdleCall
    <3>3. CallIsSound(call) BY <3>2 DEF CallIsSound
    <3> QED BY <2>4, <3>1, <3>2, <3>3 DEF SweepEphemerals
  <2>5. ASSUME NEW u \in d.todo,
               adminCall' = [adminCall EXCEPT ![a].at = "read", ![a].user = u, ![a].todo = @ \ {u}, ![a].real = IsReal(u)]
        PROVE  \E call \in CallRecord : adminCall' = [adminCall EXCEPT ![a] = call] /\ CallIsSound(call)
    <3>1. u \in UserIds BY DEF CallRecord
    <3>2. PICK real \in BOOLEAN : real = IsReal(u) BY <1>4, <3>1
    <3>3. PICK call : call = [d EXCEPT !.at = "read", !.user = u, !.todo = @ \ {u}, !.real = real] OBVIOUS
    <3>4. call \in CallRecord /\ call.at = "read" /\ call.user = u /\ call.real = real BY <3>1, <3>3 DEF CallRecord
    <3>5. CallIsSound(call) BY <3>1, <3>2, <3>4 DEF CallIsSound, IsReal
    <3>6. adminCall' = [adminCall EXCEPT ![a].at = "read", ![a].user = u, ![a].todo = @ \ {u}, ![a].real = real]
      BY <2>5, <3>2
    <3>7. adminCall' = [adminCall EXCEPT ![a] = call] BY <1>2, <3>3, <3>6 DEF RemovalInvariant, RemovalTypeOK
    <3> QED BY <3>4, <3>5, <3>7
  <2>6. ASSUME NEW at \in {"delete", "erase", "next"}, adminCall' = [adminCall EXCEPT ![a].at = at], at # "next" => ~d.real
        PROVE  \E call \in CallRecord : adminCall' = [adminCall EXCEPT ![a] = call] /\ CallIsSound(call)
    <3>1. PICK call : call = [d EXCEPT !.at = at] OBVIOUS
    <3>2. call \in CallRecord /\ call.at = at /\ call.user = d.user /\ call.real = d.real BY <3>1 DEF CallRecord
    <3>3. CallIsSound(call) BY <1>3, <2>6, <3>2 DEF CallIsSound
    <3>4. adminCall' = [adminCall EXCEPT ![a] = call] BY <1>2, <2>6, <3>1 DEF RemovalInvariant, RemovalTypeOK
    <3> QED BY <3>2, <3>3, <3>4
  <2>7. CASE ReadAgain(a)
    <3>1. PICK at : at = IF MayDelete(d.user) THEN "delete" ELSE "next" OBVIOUS
    <3>2. at # "next" => ~d.real BY <1>3, <3>1 DEF MayDelete, AtE2E, CallIsSound
    <3>3. adminCall' = [adminCall EXCEPT ![a] = IdleCall] \/ adminCall' = [adminCall EXCEPT ![a].at = at]
      BY <1>2, <2>7, <3>1 DEF ReadAgain, Read
    <3> QED BY <2>3, <2>6, <3>1, <3>2, <3>3
  <2>8. CASE DeleteReads(a)
    <3>1. PICK at : at = IF userRow[d.user] = "whole" THEN "erase" ELSE "next" OBVIOUS
    <3>2. ~d.real BY <1>2, <1>3, <2>8 DEF DeleteReads, CallIsSound
    <3>3. adminCall' = [adminCall EXCEPT ![a] = IdleCall] \/ adminCall' = [adminCall EXCEPT ![a].at = at]
      BY <1>2, <2>8, <3>1 DEF DeleteReads, Read
    <3> QED BY <2>3, <2>6, <3>1, <3>2, <3>3
  <2>9. CASE AdminCallDies(a) BY <2>3, <2>9 DEF AdminCallDies
  <2>10. CASE NextCandidate(a) BY <1>2, <2>3, <2>5, <2>10 DEF NextCandidate
  <2> QED BY <2>1, <2>2, <2>4, <2>7, <2>8, <2>9, <2>10
<1>6. PICK call \in CallRecord : adminCall' = [adminCall EXCEPT ![a] = call] /\ CallIsSound(call) BY <1>5
<1>7. /\ adminCall' \in [AdminCalls -> CallRecord]
      /\ \A b \in AdminCalls : CallIsSound(adminCall[b])'
  BY <1>1, <1>6, OneCall
<1> QED BY <1>1, <1>7, CallsMove

\* Rows written after the deletion are not what the purge owes.
LEMMA IdentityStepKeeps ==
    ASSUME RemovalInvariant, RemovalTypeOK',
           UNCHANGED <<userRow, pending, purge, purged, mistaken>>,
           \A t \in Tables, u \in UserIds : identityRow'[t][u].doomed => identityRow'[t][u].listed /\ identityRow[t][u].doomed,
           \A b \in AdminCalls : CallIsSound(adminCall[b])'
    PROVE  RemovalInvariant'
<1>1. NothingOwedAnew BY DEF NothingOwedAnew
<1>2. /\ \A u \in UserIds : pending'[u] > 0 => pending[u] > 0
      /\ \A d \in Deliveries : purge'[d] = purge[d]
      /\ purged' = purged /\ RealAccountsStay'
  BY DEF RemovalInvariant, RealAccountsStay
<1> QED BY <1>1, <1>2, RemovalKeeps

LEMMA WriteIdentityKeeps ==
    ASSUME RemovalInvariant, NEW q \in LiveRequests, NEW t \in Tables, WriteIdentity(q, t)
    PROVE  RemovalInvariant'
<1>1. PICK u : u = liveRequest[q].user OBVIOUS
<1>2. PICK keyed \in BOOLEAN : keyed = (t \in KeyedTables)
  <2>1. (t \in KeyedTables) = TRUE \/ (t \in KeyedTables) = FALSE OBVIOUS
  <2> QED BY <2>1
<1>3. PICK row : row = [there |-> TRUE, listed |-> keyed, doomed |-> FALSE] OBVIOUS
<1>4. row \in IdentityRecord /\ ~row.doomed BY <1>3 DEF IdentityRecord
<1>5. identityRow' = [identityRow EXCEPT ![t][u] = row] /\ UNCHANGED <<userRow, address, pending, adminCall, purge, purged, mistaken>>
  BY <1>1, <1>2, <1>3 DEF WriteIdentity
<1>6. /\ identityRow' \in [Tables -> [UserIds -> IdentityRecord]]
      /\ \A s \in Tables, v \in UserIds : identityRow'[s][v].doomed => identityRow'[s][v].listed /\ identityRow[s][v].doomed
  BY <1>4, <1>5, OneIdentityRow DEF RemovalInvariant, RemovalTypeOK
<1>7. RemovalTypeOK' BY <1>5, <1>6 DEF RemovalInvariant, RemovalTypeOK
<1>8. \A b \in AdminCalls : CallIsSound(adminCall[b])' BY <1>5, CallsStay DEF AddressesLast
<1> QED BY <1>5, <1>6, <1>7, <1>8, IdentityStepKeeps

LEMMA ShowInIndexKeeps ==
    ASSUME RemovalInvariant, ShowInIndex
    PROVE  RemovalInvariant'
<1>1. UNCHANGED <<userRow, address, pending, adminCall, purge, purged, mistaken>> BY DEF ShowInIndex
<1>2. ASSUME NEW t \in Tables, NEW u \in UserIds
      PROVE  /\ identityRow'[t][u] \in IdentityRecord
             /\ identityRow'[t][u].doomed => identityRow'[t][u].listed /\ identityRow[t][u].doomed
  <2>1. PICK d \in IdentityRecord : d = identityRow[t][u] BY DEF RemovalInvariant, RemovalTypeOK
  <2>2. PICK listed \in BOOLEAN : listed = (d.listed \/ d.there) BY Zenon
  <2>3. PICK row : row = [d EXCEPT !.listed = listed] OBVIOUS
  <2>4. row \in IdentityRecord /\ row.listed = listed /\ row.doomed = d.doomed BY <2>3 DEF IdentityRecord
  <2>5. identityRow'[t][u] = row BY <2>1, <2>2, <2>3 DEF ShowInIndex
  <2>6. d.doomed => d.listed BY <2>1 DEF RemovalInvariant
  <2> QED BY <2>1, <2>2, <2>4, <2>5, <2>6
<1>3. identityRow' \in [Tables -> [UserIds -> IdentityRecord]] BY <1>2 DEF ShowInIndex
<1>4. RemovalTypeOK' BY <1>1, <1>3 DEF RemovalInvariant, RemovalTypeOK
<1>5. \A b \in AdminCalls : CallIsSound(adminCall[b])' BY <1>1, CallsStay DEF AddressesLast
<1> QED BY <1>1, <1>2, <1>4, <1>5, IdentityStepKeeps

LEMMA PutForEphemeralKeeps ==
    ASSUME RemovalInvariant, NEW a \in AdminCalls, PutForEphemeral(a)
    PROVE  RemovalInvariant'
<1>1. PICK d \in CallRecord : d = adminCall[a] BY DEF RemovalInvariant, RemovalTypeOK
<1>2. PICK t \in Tables : t = d.at BY <1>1 DEF PutForEphemeral
<1>3. PICK before : before = identityRow[t][d.user] OBVIOUS
<1>4. PICK row : row = [there |-> TRUE, listed |-> before.listed \/ t \in KeyedTables, doomed |-> before.doomed] OBVIOUS
<1>5. identityRow' = [identityRow EXCEPT ![t][d.user] = row] /\ adminCall' = [adminCall EXCEPT ![a] = IdleCall]
      /\ UNCHANGED <<userRow, address, pending, purge, purged, mistaken>>
  BY <1>1, <1>2, <1>3, <1>4 DEF PutForEphemeral, RemovalInvariant, RemovalTypeOK
<1>6. ASSUME d.user \in UserIds PROVE row \in IdentityRecord /\ (row.doomed => row.listed /\ identityRow[t][d.user].doomed)
  <2>1. before \in IdentityRecord /\ (before.doomed => before.listed) BY <1>3, <1>6 DEF RemovalInvariant, RemovalTypeOK
  <2>2. PICK listed \in BOOLEAN : listed = (before.listed \/ t \in KeyedTables) BY Zenon
  <2>3. row = [there |-> TRUE, listed |-> listed, doomed |-> before.doomed] BY <1>4, <2>2
  <2>4. row \in IdentityRecord /\ row.listed = listed /\ row.doomed = before.doomed BY <2>1, <2>3 DEF IdentityRecord
  <2>5. before.doomed => listed BY <2>1, <2>2
  <2> QED BY <1>3, <2>4, <2>5
<1>7. /\ identityRow' \in [Tables -> [UserIds -> IdentityRecord]]
      /\ \A s \in Tables, v \in UserIds : identityRow'[s][v].doomed => identityRow'[s][v].listed /\ identityRow[s][v].doomed
  BY <1>5, <1>6, OneIdentityRow DEF RemovalInvariant, RemovalTypeOK
<1>8. /\ adminCall' \in [AdminCalls -> CallRecord]
      /\ \A b \in AdminCalls : CallIsSound(adminCall[b])'
  BY <1>5, IdleCallSound, OneCall DEF AddressesLast
<1>9. RemovalTypeOK' BY <1>5, <1>7, <1>8 DEF RemovalInvariant, RemovalTypeOK
<1> QED BY <1>5, <1>7, <1>8, <1>9, IdentityStepKeeps

\* A write to a user's row makes no account of one that is gone.
LEMMA UpdateUserKeeps ==
    ASSUME RemovalInvariant, NEW q \in LiveRequests, UpdateUser(q)
    PROVE  RemovalInvariant'
<1>1. PICK r : r = liveRequest[q] OBVIOUS
<1>2. /\ userRow' = [userRow EXCEPT ![r.user] = IF @ = "absent" THEN "stub" ELSE @]
      /\ address' = IF userRow[r.user] = "whole" THEN [address EXCEPT ![r.user] = r.to] ELSE address
      /\ adminCall' = [a \in AdminCalls |-> IF adminCall[a].user = r.user /\ r.to # "real"
                                           THEN [adminCall[a] EXCEPT !.real = FALSE] ELSE adminCall[a]]
      /\ UNCHANGED <<identityRow, pending, purge, purged, mistaken>>
  BY <1>1 DEF UpdateUser
<1>3. /\ userRow' \in [UserIds -> {"whole", "unborn"} \cup Gone] /\ DOMAIN address' = UserIds
      /\ \A v \in UserIds : userRow[v] \in Gone => userRow'[v] \in Gone
      /\ \A v \in UserIds : userRow[v] # "unborn" => userRow'[v] # "unborn"
      /\ \A v \in UserIds : address'[v] = address[v] \/ (v = r.user /\ address'[v] = r.to)
  <2>1. /\ userRow \in [UserIds -> {"whole", "unborn"} \cup Gone] /\ DOMAIN address = UserIds BY DEF RemovalInvariant, RemovalTypeOK
  <2>2. /\ userRow' \in [UserIds -> {"whole", "unborn"} \cup Gone]
        /\ \A v \in UserIds : userRow[v] \in Gone => userRow'[v] \in Gone
        /\ \A v \in UserIds : userRow[v] # "unborn" => userRow'[v] # "unborn"
    BY <1>2, <2>1 DEF Gone
  <2>3. DOMAIN address' = UserIds /\ \A v \in UserIds : address'[v] = address[v] \/ (v = r.user /\ address'[v] = r.to)
    <3>1. CASE address' = [address EXCEPT ![r.user] = r.to]
      <4>1. DOMAIN address' = DOMAIN address BY <3>1, Zenon
      <4>2. ASSUME NEW v \in DOMAIN address PROVE address'[v] = IF v = r.user THEN r.to ELSE address[v] BY <3>1, Zenon
      <4> QED BY <2>1, <4>1, <4>2
    <3>2. CASE address' = address BY <2>1, <3>2
    <3> QED BY <1>2, <3>1, <3>2
  <2> QED BY <2>2, <2>3
<1>4. ASSUME NEW b \in AdminCalls PROVE adminCall'[b] \in CallRecord /\ CallIsSound(adminCall[b])'
  <2>1. PICK c \in CallRecord : c = adminCall[b] BY DEF RemovalInvariant, RemovalTypeOK
  <2>2. CallIsSound(c) BY <2>1 DEF RemovalInvariant
  <2>3. PICK e : e = adminCall'[b] OBVIOUS
  <2>4. CASE c.user = r.user /\ r.to # "real" BY <1>2, <2>1, <2>3, <2>4 DEF CallRecord, CallIsSound
  <2>5. CASE c.user # r.user \/ r.to = "real" BY <1>2, <1>3, <2>1, <2>2, <2>3, <2>5 DEF CallIsSound
  <2> QED BY <2>4, <2>5
<1>5. adminCall' \in [AdminCalls -> CallRecord] BY <1>2, <1>4
<1>6. RemovalTypeOK' /\ NothingOwedAnew BY <1>2, <1>3, <1>5 DEF RemovalInvariant, RemovalTypeOK, NothingOwedAnew
<1>7. /\ \A v \in UserIds : pending'[v] > 0 => pending[v] > 0
      /\ \A t \in Tables, v \in UserIds : identityRow'[t][v].doomed => identityRow'[t][v].listed
      /\ \A d \in Deliveries : purge'[d] = purge[d]
      /\ purged' = purged /\ RealAccountsStay'
  BY <1>2 DEF RemovalInvariant, RealAccountsStay
<1> QED BY <1>4, <1>6, <1>7, RemovalKeeps

LEMMA CreateEphemeralKeeps ==
    ASSUME RemovalInvariant, NEW a \in AdminCalls, NEW u \in UserIds, NEW confirmed \in BOOLEAN, CreateEphemeral(a, u, confirmed)
    PROVE  RemovalInvariant'
<1>1. PICK call : call = [IdleCall EXCEPT !.at = "credentials", !.user = u] OBVIOUS
<1>2. call \in CallRecord /\ CallIsSound(call) BY <1>1, IdleCallSound DEF CallRecord, CallIsSound, IdleCall
<1>3. userRow[u] = "unborn" /\ userRow' = [userRow EXCEPT ![u] = "whole"] /\ adminCall' = [adminCall EXCEPT ![a] = call]
      /\ address' = [address EXCEPT ![u] = IF confirmed THEN "e2e" ELSE "unconfirmed"]
      /\ UNCHANGED <<identityRow, pending, purge, purged, mistaken>>
  BY <1>1 DEF CreateEphemeral
<1>4. /\ userRow' \in [UserIds -> {"whole", "unborn"} \cup Gone] /\ DOMAIN address' = UserIds
      /\ \A v \in UserIds : userRow[v] \in Gone => userRow'[v] \in Gone
      /\ AddressesLast
  BY <1>3 DEF RemovalInvariant, RemovalTypeOK, Gone, AddressesLast
<1>5. /\ adminCall' \in [AdminCalls -> CallRecord]
      /\ \A b \in AdminCalls : CallIsSound(adminCall[b])'
  BY <1>2, <1>3, <1>4, OneCall
<1>6. RemovalTypeOK' /\ NothingOwedAnew BY <1>3, <1>4, <1>5 DEF RemovalInvariant, RemovalTypeOK, NothingOwedAnew
<1>7. /\ \A v \in UserIds : pending'[v] > 0 => pending[v] > 0
      /\ \A t \in Tables, v \in UserIds : identityRow'[t][v].doomed => identityRow'[t][v].listed
      /\ \A d \in Deliveries : purge'[d] = purge[d]
      /\ purged' = purged /\ RealAccountsStay'
  BY <1>3 DEF RemovalInvariant, RealAccountsStay
<1> QED BY <1>5, <1>6, <1>7, RemovalKeeps

\* A deletion, whoever makes it, dooms what the indexes show of an account that was there.
LEMMA RemovedKeeps ==
    ASSUME RemovalInvariant, NEW u \in UserIds, userRow[u] = "whole", Removed(u),
           UNCHANGED <<address, purge, purged>>, RealAccountsStay',
           adminCall' \in [AdminCalls -> CallRecord],
           \A b \in AdminCalls : CallIsSound(adminCall[b])'
    PROVE  RemovalInvariant'
<1>1. /\ userRow' = [userRow EXCEPT ![u] = "absent"] /\ pending' = [pending EXCEPT ![u] = MaxDeliveries]
      /\ identityRow' = [t \in Tables |-> [identityRow[t] EXCEPT ![u].doomed = identityRow[t][u].listed]]
  BY DEF Removed
<1>2. /\ userRow' \in [UserIds -> {"whole", "unborn"} \cup Gone] /\ userRow'[u] \in Gone
      /\ \A v \in UserIds : userRow[v] \in Gone => userRow'[v] \in Gone /\ v # u
  BY <1>1 DEF RemovalInvariant, RemovalTypeOK, Gone
<1>3. pending' \in [UserIds -> Nat] /\ \A v \in UserIds \ {u} : pending'[v] = pending[v]
  BY <1>1, TablesHaveAnOrder DEF RemovalInvariant, RemovalTypeOK
<1>4. ASSUME NEW t \in Tables
      PROVE  /\ identityRow'[t] \in [UserIds -> IdentityRecord]
             /\ \A v \in UserIds \ {u} : identityRow'[t][v] = identityRow[t][v]
             /\ identityRow'[t][u].doomed => identityRow'[t][u].listed
  <2>1. PICK d \in IdentityRecord : d = identityRow[t][u] BY DEF RemovalInvariant, RemovalTypeOK
  <2>2. PICK row : row = [d EXCEPT !.doomed = d.listed] OBVIOUS
  <2>3. row \in IdentityRecord /\ row.doomed = d.listed /\ row.listed = d.listed BY <2>2 DEF IdentityRecord
  <2>4. PICK rows \in [UserIds -> IdentityRecord] : rows = identityRow[t] BY DEF RemovalInvariant, RemovalTypeOK
  <2>5. identityRow'[t] = [rows EXCEPT ![u] = row] BY <1>1, <2>1, <2>2, <2>4
  <2> QED BY <2>3, <2>4, <2>5
<1>5. identityRow' \in [Tables -> [UserIds -> IdentityRecord]] BY <1>1, <1>4
<1>6. RemovalTypeOK' BY <1>2, <1>3, <1>5 DEF RemovalInvariant, RemovalTypeOK
<1>7. NothingOwedAnew BY <1>2, <1>4 DEF NothingOwedAnew
<1>8. \A v \in UserIds : pending'[v] > 0 => pending[v] > 0 \/ userRow'[v] \in Gone BY <1>2, <1>3
<1>9. \A t \in Tables, v \in UserIds : identityRow'[t][v].doomed => identityRow'[t][v].listed BY <1>4 DEF RemovalInvariant
<1> QED BY <1>6, <1>7, <1>8, <1>9, RemovalKeeps

LEMMA OwnerDeletesKeeps ==
    ASSUME RemovalInvariant, NEW u \in UserIds, OwnerDeletes(u)
    PROVE  RemovalInvariant'
<1>1. userRow[u] = "whole" /\ Removed(u) /\ UNCHANGED <<address, purge, purged, mistaken, adminCall>> BY DEF OwnerDeletes
<1>2. AddressesLast BY <1>1 DEF Removed, AddressesLast, RemovalInvariant, RemovalTypeOK
<1>3. RealAccountsStay' /\ adminCall' \in [AdminCalls -> CallRecord]
      /\ \A b \in AdminCalls : CallIsSound(adminCall[b])'
  BY <1>1, <1>2, CallsStay DEF RemovalInvariant, RemovalTypeOK, RealAccountsStay
<1> QED BY <1>1, <1>3, RemovedKeeps

\* Who is real when the row goes became so after the call had read it.
LEMMA EraseKeeps ==
    ASSUME RemovalInvariant, NEW a \in AdminCalls, Erase(a)
    PROVE  RemovalInvariant'
<1>1. PICK d \in CallRecord : d = adminCall[a] BY DEF RemovalInvariant, RemovalTypeOK
<1>2. d.at = "erase" /\ CallIsSound(d) /\ UNCHANGED <<address, purge, purged>> BY <1>1 DEF Erase, RemovalInvariant
<1>3. ~d.real BY <1>2 DEF CallIsSound
<1>4. PICK call : call = [d EXCEPT !.at = "next"] OBVIOUS
<1>5. call \in CallRecord /\ CallIsSound(call) BY <1>3, <1>4 DEF CallRecord, CallIsSound
<1>6. adminCall' = [adminCall EXCEPT ![a] = call] BY <1>1, <1>4 DEF Erase, RemovalInvariant, RemovalTypeOK
<1>7. RealAccountsStay' BY <1>1, <1>3 DEF Erase, RemovalInvariant, RealAccountsStay
<1>8. CASE userRow[d.user] = "whole" /\ d.user \in UserIds
  <2>1. Removed(d.user) BY <1>1, <1>8 DEF Erase
  <2>2. AddressesLast BY <1>2, <2>1 DEF Removed, AddressesLast, RemovalInvariant, RemovalTypeOK
  <2>3. adminCall' \in [AdminCalls -> CallRecord] /\ \A b \in AdminCalls : CallIsSound(adminCall[b])'
    BY <1>5, <1>6, <2>2, OneCall
  <2> QED BY <1>2, <1>7, <1>8, <2>1, <2>3, RemovedKeeps
<1>9. CASE userRow[d.user] # "whole" \/ d.user \notin UserIds
  <2>1. \/ userRow[d.user] = "whole" /\ d.user \notin UserIds /\ Removed(d.user)
        \/ /\ userRow[d.user] = "stub" /\ identityRow' = identityRow
           /\ userRow' = [userRow EXCEPT ![d.user] = "absent"] /\ pending' = [pending EXCEPT ![d.user] = MaxDeliveries]
        \/ UNCHANGED <<userRow, pending, identityRow>>
    BY <1>1, <1>9 DEF Erase
  <2>2. /\ userRow' \in [UserIds -> {"whole", "unborn"} \cup Gone] /\ pending' \in [UserIds -> Nat]
        /\ \A v \in UserIds : userRow[v] \in Gone => userRow'[v] \in Gone
        /\ \A v \in UserIds : userRow'[v] = userRow[v] \/ userRow'[v] = "absent"
        /\ \A v \in UserIds : pending'[v] = pending[v] \/ userRow'[v] \in Gone
    <3>1. /\ userRow \in [UserIds -> {"whole", "unborn"} \cup Gone] /\ pending \in [UserIds -> Nat] /\ MaxDeliveries \in Nat
      BY TablesHaveAnOrder DEF RemovalInvariant, RemovalTypeOK
    <3>2. CASE userRow' = userRow /\ pending' = pending BY <3>1, <3>2
    <3>3. CASE /\ userRow' = [userRow EXCEPT ![d.user] = "absent"] /\ pending' = [pending EXCEPT ![d.user] = MaxDeliveries]
      BY <3>1, <3>3 DEF Gone
    <3> QED BY <2>1, <3>2, <3>3 DEF Removed
  <2>3. identityRow' = identityRow
    <3>1. CASE d.user \notin UserIds /\ Removed(d.user)
      <4>1. identityRow' = [t \in Tables |-> [identityRow[t] EXCEPT ![d.user].doomed = identityRow[t][d.user].listed]]
        BY <3>1 DEF Removed
      <4>2. ASSUME NEW t \in Tables PROVE identityRow'[t] = identityRow[t]
        <5>1. PICK rows \in [UserIds -> IdentityRecord] : rows = identityRow[t] BY DEF RemovalInvariant, RemovalTypeOK
        <5>2. PICK row : row = [rows[d.user] EXCEPT !.doomed = rows[d.user].listed] OBVIOUS
        <5>3. identityRow'[t] = [rows EXCEPT ![d.user] = row] BY <4>1, <5>1, <5>2
        <5> QED BY <3>1, <5>1, <5>3
      <4> QED BY <4>1, <4>2 DEF RemovalInvariant, RemovalTypeOK
    <3> QED BY <2>1, <3>1
  <2>4. AddressesLast BY <1>2, <2>2 DEF AddressesLast
  <2>5. adminCall' \in [AdminCalls -> CallRecord] /\ \A b \in AdminCalls : CallIsSound(adminCall[b])'
    BY <1>5, <1>6, <2>4, OneCall
  <2>6. RemovalTypeOK' /\ NothingOwedAnew
    BY <1>2, <2>2, <2>3, <2>5 DEF RemovalInvariant, RemovalTypeOK, NothingOwedAnew
  <2>7. /\ \A v \in UserIds : pending'[v] > 0 => pending[v] > 0 \/ userRow'[v] \in Gone
        /\ \A t \in Tables, v \in UserIds : identityRow'[t][v].doomed => identityRow'[t][v].listed
        /\ \A e \in Deliveries : purge'[e] = purge[e]
        /\ purged' = purged
    BY <1>2, <2>2, <2>3 DEF RemovalInvariant
  <2> QED BY <1>7, <2>5, <2>6, <2>7, RemovalKeeps
<1> QED BY <1>8, <1>9

\* A delivery begins for a user who is gone; one that fails owes nothing by itself.
LEMMA IdlePurgeSound == IdlePurge \in [at : Nat, user : UserIds \cup {""}] /\ ~(IdlePurge.at > 0)
<1>1. IdlePurge.at = 0 BY DEF IdlePurge
<1>2. ~(IdlePurge.at > 0) BY <1>1
<1>3. IdlePurge \in [at : Nat, user : UserIds \cup {""}] BY DEF IdlePurge
<1> QED BY <1>2, <1>3

LEMMA PurgeStepKeeps ==
    ASSUME RemovalInvariant, NEW d \in Deliveries, NEW p \in [at : Nat, user : UserIds \cup {""}],
           purge' = [purge EXCEPT ![d] = p], PurgeSound(d)',
           UNCHANGED <<userRow, address, adminCall, mistaken>>,
           identityRow' \in [Tables -> [UserIds -> IdentityRecord]],
           \A t \in Tables, u \in UserIds : identityRow'[t][u].doomed => identityRow'[t][u].listed /\ identityRow[t][u].doomed,
           pending' \in [UserIds -> Nat], \A u \in UserIds : pending'[u] > 0 => pending[u] > 0,
           purged' \subseteq UserIds, \A u \in purged' : u \in purged \/ PurgedSound(u)'
    PROVE  RemovalInvariant'
<1>1. /\ purge' \in [Deliveries -> [at : Nat, user : UserIds \cup {""}]]
      /\ \A e \in Deliveries \ {d} : purge'[e] = purge[e]
  BY DEF RemovalInvariant, RemovalTypeOK
<1>2. RemovalTypeOK' /\ NothingOwedAnew BY <1>1 DEF RemovalInvariant, RemovalTypeOK, NothingOwedAnew
<1>3. /\ \A e \in Deliveries : purge'[e] = purge[e] \/ PurgeSound(e)'
      /\ RealAccountsStay' /\ \A b \in AdminCalls : CallIsSound(adminCall[b])'
  BY <1>1, CallsStay DEF RemovalInvariant, RealAccountsStay, AddressesLast
<1> QED BY <1>2, <1>3, RemovalKeeps

LEMMA DeliveryBeginsOrFails ==
    ASSUME RemovalInvariant, NEW d \in Deliveries, (\E u \in UserIds : DeliverRemove(d, u)) \/ PurgeFails(d)
    PROVE  RemovalInvariant'
<1>1. /\ UNCHANGED <<userRow, address, adminCall, mistaken, identityRow, pending, purged>>
      /\ identityRow' \in [Tables -> [UserIds -> IdentityRecord]] /\ pending' \in [UserIds -> Nat] /\ purged' \subseteq UserIds
      /\ \A t \in Tables, u \in UserIds : identityRow'[t][u].doomed => identityRow'[t][u].listed
  BY DEF DeliverRemove, PurgeFails, RemovalInvariant, RemovalTypeOK
<1>2. ASSUME NEW u \in UserIds, DeliverRemove(d, u) PROVE RemovalInvariant'
  <2> DEFINE p == [at |-> 1, user |-> u]
  <2>1. p \in [at : Nat, user : UserIds \cup {""}] /\ p.at = 1 /\ p.user = u OBVIOUS
  <2>2. purge' = [purge EXCEPT ![d] = p] /\ pending[u] > 0 BY <1>2 DEF DeliverRemove
  <2> HIDE DEF p
  <2>3. purge'[d] = p BY <2>2 DEF RemovalInvariant, RemovalTypeOK
  <2>4. userRow'[u] \in Gone BY <1>1, <2>2 DEF RemovalInvariant
  <2>5. \A i \in DOMAIN PurgeOrder : ~(i < 1) BY TablesAreOrdered
  <2>6. PurgeSound(d)' BY <2>1, <2>3, <2>4, <2>5 DEF PurgeSound
  <2> QED BY <1>1, <2>1, <2>2, <2>6, PurgeStepKeeps
<1>3. CASE PurgeFails(d)
  <2>1. IdlePurge \in [at : Nat, user : UserIds \cup {""}] /\ ~(IdlePurge.at > 0) BY IdlePurgeSound
  <2>2. purge' = [purge EXCEPT ![d] = IdlePurge] BY <1>3 DEF PurgeFails
  <2>3. purge'[d] = IdlePurge BY <2>2 DEF RemovalInvariant, RemovalTypeOK
  <2>4. PurgeSound(d)' BY <2>1, <2>3 DEF PurgeSound
  <2> QED BY <1>1, <2>1, <2>2, <2>4, PurgeStepKeeps
<1> QED BY <1>2, <1>3

\* A table behind the purge owes nothing: its row went, or was not one the indexes show.
LEMMA PurgeTableKeeps ==
    ASSUME RemovalInvariant, NEW d \in Deliveries, PurgeTable(d)
    PROVE  RemovalInvariant'
<1>1. PICK p \in [at : Nat, user : UserIds \cup {""}] : p = purge[d] BY DEF RemovalInvariant, RemovalTypeOK
<1>2. PICK t : t = PurgeOrder[p.at] OBVIOUS
<1>3. /\ p.at \in DOMAIN PurgeOrder /\ t \in Tables
      /\ identityRow' = IF t \in Unsupported \/ ~identityRow[t][p.user].listed THEN identityRow
                        ELSE [identityRow EXCEPT ![t][p.user] = NoIdentity]
      /\ purge' = [purge EXCEPT ![d].at = p.at + 1]
      /\ UNCHANGED <<userRow, address, adminCall, mistaken, pending, purged>>
  BY <1>1, <1>2, TablesAreOrdered DEF PurgeTable, NextTable
<1>4. p.at \in Nat /\ p.at > 0 BY <1>3, TablesAreOrdered
<1>5. /\ p.user \in UserIds /\ userRow[p.user] \in Gone
      /\ \A i \in DOMAIN PurgeOrder : i < p.at /\ PurgeOrder[i] \notin Unsupported => ~identityRow[PurgeOrder[i]][p.user].doomed
  BY <1>1, <1>4 DEF RemovalInvariant, PurgeSound
<1>6. NoIdentity \in IdentityRecord /\ ~NoIdentity.doomed BY DEF NoIdentity, IdentityRecord
<1>7. /\ identityRow' \in [Tables -> [UserIds -> IdentityRecord]]
      /\ \A s \in Tables, v \in UserIds : identityRow'[s][v].doomed => identityRow'[s][v].listed /\ identityRow[s][v].doomed
  BY <1>3, <1>6, OneIdentityRow DEF RemovalInvariant, RemovalTypeOK
<1>8. t \notin Unsupported => ~identityRow'[t][p.user].doomed
  <2>1. CASE t \in Unsupported BY <2>1
  <2>2. CASE t \notin Unsupported /\ ~identityRow[t][p.user].listed
    BY <1>3, <1>5, <1>7, <2>2 DEF RemovalInvariant
  <2>3. CASE t \notin Unsupported /\ identityRow[t][p.user].listed
    <3>1. identityRow' = [identityRow EXCEPT ![t][p.user] = NoIdentity] BY <1>3, <2>3
    <3>2. PICK rows \in [UserIds -> IdentityRecord] : rows = identityRow[t] BY <1>3 DEF RemovalInvariant, RemovalTypeOK
    <3>3. identityRow' = [identityRow EXCEPT ![t] = [rows EXCEPT ![p.user] = NoIdentity]] BY <3>1, <3>2
    <3>4. identityRow'[t] = [rows EXCEPT ![p.user] = NoIdentity] BY <1>3, <3>3 DEF RemovalInvariant, RemovalTypeOK
    <3>5. identityRow'[t][p.user] = NoIdentity BY <1>5, <3>2, <3>4
    <3> QED BY <1>6, <3>5
  <2> QED BY <2>1, <2>2, <2>3
<1>9. PICK k : k = p.at + 1 OBVIOUS
<1>10. k \in Nat /\ \A i \in Nat : i < k => i < p.at \/ i = p.at BY <1>4, <1>9, Counting
<1>11. PICK q : q = [p EXCEPT !.at = k] OBVIOUS
<1>12. q \in [at : Nat, user : UserIds \cup {""}] /\ q.at = k /\ q.user = p.user BY <1>10, <1>11
<1>13. purge' = [purge EXCEPT ![d] = q] BY <1>1, <1>3, <1>9, <1>11
<1>14. purge'[d] = q BY <1>13 DEF RemovalInvariant, RemovalTypeOK
<1>15. ASSUME NEW i \in DOMAIN PurgeOrder, i < q.at, PurgeOrder[i] \notin Unsupported
       PROVE  ~identityRow'[PurgeOrder[i]][q.user].doomed
  <2>1. i < p.at \/ i = p.at BY <1>12, <1>15, <1>10, TablesAreOrdered
  <2>2. CASE i < p.at BY <1>5, <1>7, <1>12, <1>15, <2>2, TablesAreOrdered
  <2>3. CASE i = p.at BY <1>2, <1>8, <1>12, <1>15, <2>3
  <2> QED BY <2>1, <2>2, <2>3
<1>16. PurgeSound(d)' BY <1>3, <1>5, <1>12, <1>14, <1>15 DEF PurgeSound
<1>17. pending' \in [UserIds -> Nat] /\ purged' \subseteq UserIds BY <1>3 DEF RemovalInvariant, RemovalTypeOK
<1> QED BY <1>3, <1>7, <1>12, <1>13, <1>16, <1>17, PurgeStepKeeps

\* A purge that ends has every table behind it.
LEMMA PurgeEndsKeeps ==
    ASSUME RemovalInvariant, NEW d \in Deliveries, PurgeEnds(d)
    PROVE  RemovalInvariant'
<1>1. PICK p \in [at : Nat, user : UserIds \cup {""}] : p = purge[d] BY DEF RemovalInvariant, RemovalTypeOK
<1>2. /\ p.at = Len(PurgeOrder) + 1 /\ purge' = [purge EXCEPT ![d] = IdlePurge] /\ purged' = purged \cup {p.user}
      /\ pending' = [pending EXCEPT ![p.user] = IF @ = 0 THEN 0 ELSE @ - 1]
      /\ UNCHANGED <<userRow, address, adminCall, mistaken, identityRow>>
  BY <1>1 DEF PurgeEnds
<1>3. /\ p.user \in UserIds /\ userRow[p.user] \in Gone
      /\ \A i \in DOMAIN PurgeOrder : PurgeOrder[i] \notin Unsupported => ~identityRow[PurgeOrder[i]][p.user].doomed
  <2>1. Len(PurgeOrder) + 1 > 0 /\ \A i \in DOMAIN PurgeOrder : i < Len(PurgeOrder) + 1 BY Counting, TablesAreOrdered
  <2>2. p.at > 0 /\ \A i \in DOMAIN PurgeOrder : i < p.at BY <1>2, <2>1
  <2>3. PurgeSound(d) BY DEF RemovalInvariant
  <2> QED BY <1>1, <2>2, <2>3 DEF PurgeSound
<1>4. PurgedSound(p.user)' BY <1>2, <1>3, TablesAreOrdered DEF PurgedSound
<1>5. purged' \subseteq UserIds /\ \A u \in purged' : u \in purged \/ PurgedSound(u)'
  BY <1>2, <1>3, <1>4 DEF RemovalInvariant, RemovalTypeOK
<1>6. pending' \in [UserIds -> Nat] /\ \A u \in UserIds : pending'[u] > 0 => pending[u] > 0
  <2>1. PICK before \in Nat : before = pending[p.user] BY <1>3 DEF RemovalInvariant, RemovalTypeOK
  <2>2. PICK after : after = IF before = 0 THEN 0 ELSE before - 1 OBVIOUS
  <2>3. after \in Nat /\ (after > 0 => before > 0)
    <3>1. before \in Nat BY <2>1
    <3>2. CASE before = 0 BY <2>2, <3>2, Counting
    <3>3. CASE before # 0 BY <2>2, <3>1, <3>3, Counting
    <3> QED BY <3>2, <3>3
  <2>4. pending' = [pending EXCEPT ![p.user] = after] BY <1>2, <2>1, <2>2
  <2> QED BY <1>3, <2>1, <2>3, <2>4 DEF RemovalInvariant, RemovalTypeOK
<1>7. IdlePurge \in [at : Nat, user : UserIds \cup {""}] /\ ~(IdlePurge.at > 0) BY IdlePurgeSound
<1>8. purge'[d] = IdlePurge BY <1>2 DEF RemovalInvariant, RemovalTypeOK
<1>9. PurgeSound(d)' BY <1>7, <1>8 DEF PurgeSound
<1>10. identityRow' \in [Tables -> [UserIds -> IdentityRecord]]
       /\ \A t \in Tables, u \in UserIds : identityRow'[t][u].doomed => identityRow'[t][u].listed /\ identityRow[t][u].doomed
  BY <1>2 DEF RemovalInvariant, RemovalTypeOK
<1> QED BY <1>2, <1>5, <1>6, <1>7, <1>9, <1>10, PurgeStepKeeps

LEMMA RemovalStarts == RemovalInit => RemovalInvariant
<1> SUFFICES ASSUME RemovalInit PROVE RemovalInvariant OBVIOUS
<1>1. NoIdentity \in IdentityRecord /\ ~NoIdentity.doomed BY DEF NoIdentity, IdentityRecord
<1>2. IdlePurge \in [at : Nat, user : UserIds \cup {""}] /\ ~(IdlePurge.at > 0) BY IdlePurgeSound
<1>3. RemovalTypeOK BY <1>1, <1>2, IdleCallSound DEF RemovalInit, RemovalTypeOK
<1>4. \A d \in Deliveries : PurgeSound(d) BY <1>2 DEF RemovalInit, PurgeSound
<1>5. \A t \in Tables, u \in UserIds : ~identityRow[t][u].doomed BY <1>1 DEF RemovalInit
<1>6. \A a \in AdminCalls : CallIsSound(adminCall[a]) BY IdleCallSound DEF RemovalInit
<1>7. purged = {} /\ RealAccountsStay /\ \A u \in UserIds : ~(pending[u] > 0) BY DEF RemovalInit, RealAccountsStay
<1> QED BY <1>3, <1>4, <1>5, <1>6, <1>7 DEF RemovalInvariant

LEMMA RemovalStays == RemovalInvariant /\ [RemovalNext]_removalVars => RemovalInvariant'
<1> SUFFICES ASSUME RemovalInvariant, [RemovalNext]_removalVars PROVE RemovalInvariant' OBVIOUS
<1>1. CASE ShowInIndex BY <1>1, ShowInIndexKeeps
<1>2. ASSUME NEW q \in LiveRequests, NEW t \in Tables, WriteIdentity(q, t) PROVE RemovalInvariant' BY <1>2, WriteIdentityKeeps
<1>3. ASSUME NEW q \in LiveRequests, UpdateUser(q) PROVE RemovalInvariant' BY <1>3, UpdateUserKeeps
<1>4. CASE \/ \E q \in LiveRequests : \/ LiveRequestDies(q)
                                      \/ \E u \in UserIds : AuthenticateUser(q, u) \/ \E to \in {"e2e", "real"} : ConfirmAddress(q, u, to)
           \/ \E u \in UserIds : GrowsOld(u)
           \/ UNCHANGED removalVars
  BY <1>4, RequestsComeAndGo
<1>5. ASSUME NEW u \in UserIds, OwnerDeletes(u) PROVE RemovalInvariant' BY <1>5, OwnerDeletesKeeps
<1>6. ASSUME NEW a \in AdminCalls,
             \/ \E u \in UserIds : DeleteEphemeral(a, u) \/ IssueVerificationLink(a, u)
             \/ AdminCallDies(a) \/ SweepEphemerals(a) \/ NextCandidate(a) \/ ReadAgain(a) \/ DeleteReads(a)
      PROVE  RemovalInvariant'
  BY <1>6, AdminStepKeeps
<1>7. ASSUME NEW a \in AdminCalls, NEW u \in UserIds, NEW confirmed \in BOOLEAN, CreateEphemeral(a, u, confirmed)
      PROVE  RemovalInvariant'
  BY <1>7, CreateEphemeralKeeps
<1>8. ASSUME NEW a \in AdminCalls, PutForEphemeral(a) \/ Erase(a) PROVE RemovalInvariant'
  BY <1>8, PutForEphemeralKeeps, EraseKeeps
<1>9. ASSUME NEW d \in Deliveries, (\E u \in UserIds : DeliverRemove(d, u)) \/ PurgeFails(d) PROVE RemovalInvariant'
  BY <1>9, DeliveryBeginsOrFails
<1>10. ASSUME NEW d \in Deliveries, PurgeTable(d) \/ PurgeEnds(d) PROVE RemovalInvariant'
  BY <1>10, PurgeTableKeeps, PurgeEndsKeeps
<1> QED BY <1>1, <1>2, <1>3, <1>4, <1>5, <1>6, <1>7, <1>8, <1>9, <1>10, Zenon DEF RemovalNext

\* A purge that ended, first or repeated, left no row the indexes showed when the
\* account was deleted in any table that can be enumerated, though requests that
\* authenticated before go on writing; and the routes for ephemeral users deleted
\* nobody whose address was real from before they read the row until it went.
THEOREM RemovalReachesAll == RemovalSpec => []RemovalIsWhole
<1>1. RemovalInvariant => RemovalIsWhole
  BY DEF RemovalInvariant, PurgedSound, RemovalIsWhole, PurgeReachesEveryTable
<1>2. RemovalInvariant /\ [RemovalNext]_removalVars => RemovalInvariant' BY RemovalStays
<1> QED BY RemovalStarts, <1>1, <1>2, PTL DEF RemovalSpec

-----------------------------------------------------------------------------
(* Operators' commands.                                                    *)

ConfigValue == [ConfigKeys -> ConfigValues \cup {Absent}]
CommandRecord ==
    [at : {"start", "read", "stage", "promote", "release", "create", "check", "write", "flag", "look", "done"},
     change : Changes \cup {<<>>}, base : Nat, value : ConfigValue, version : Nat, tries : Nat,
     outcome : {"", "unchanged", "changed", "unconfirmed", "lost", "missing", "conflict", "interrupted"},
     wrote : BOOLEAN, grant : BOOLEAN, known : BOOLEAN]
AdminRecord == [there : BOOLEAN, admin : BOOLEAN, grantedBy : Commands \cup {Nobody}, revokedBy : Commands \cup {Nobody}]

OpsTypeOK ==
    /\ target \in {"secret", "config", "admin"}
    /\ command \in [Commands -> CommandRecord]
    /\ versions \in Seq(ConfigValue) /\ current \in 0 .. Len(versions)
    /\ wasCurrent \subseteq 0 .. Len(versions) /\ pendingLabel \in Nat
    /\ parameter \in [version : Nat, value : ConfigValue]
    /\ adminRow \in AdminRecord /\ shown \in AdminRecord
    /\ latest \in ConfigValue

\* What a command reports of itself is what it did.
OutcomeSound(r) ==
    /\ r.at \notin {"release", "done"} => ~r.wrote
    /\ r.outcome \in {"unchanged", "conflict", "lost"} => ~r.wrote
    /\ r.outcome = "changed" => r.wrote

\* What it is about to put in place is its change, made to the version it will replace.
SecretCommand(r) ==
    /\ r.at = "stage" => r.base \in wasCurrent /\ r.value = Mutated(ValueOf(r.base), r.change)
    /\ r.at = "promote" => /\ r.base \in 0 .. Len(versions) /\ r.version \in 1 .. Len(versions)
                           /\ versions[r.version] = r.value /\ r.value = Mutated(ValueOf(r.base), r.change)

\* It holds the pending label, to release it unless it was interrupted.
HoldsLabel(r, label) ==
    r.version = label /\ (r.at \in {"promote", "release"} \/ (r.at = "done" /\ r.outcome = "interrupted"))

SecretSound ==
    /\ ValueOf(current) = latest
    /\ \A c \in Commands : SecretCommand(command[c])
    /\ pendingLabel # NoVersion => \E c \in Commands : HoldsLabel(command[c], pendingLabel)

ConfigCommand(r) ==
    /\ r.at \in {"check", "write"} => \A k \in ConfigKeys \cap DOMAIN r.change : r.value[k] = r.change[k]
    /\ r.at = "write" => r.known

ConfigSound ==
    /\ parameter.version = 0 => parameter.value = Empty
    /\ \A k \in ConfigKeys \ lost : parameter.value[k] = latest[k]
    /\ \A c \in Commands : ConfigCommand(command[c])

AdminSound ==
    /\ adminRow.admin <=> adminRow.grantedBy # Nobody
    /\ adminRow.admin => adminRow.there
    /\ {adminRow.grantedBy, adminRow.revokedBy} \ {Nobody} \subseteq Outcomes("changed")

OpsInvariant ==
    /\ OpsTypeOK
    /\ \A c \in Commands : OutcomeSound(command[c])
    /\ target = "secret" => SecretSound
    /\ target = "config" => ConfigSound
    /\ target = "admin" => AdminSound

LEMMA MutatedTyped ==
    ASSUME NEW value \in ConfigValue, NEW change \in Changes \cup {<<>>}
    PROVE  Mutated(value, change) \in ConfigValue
<1>1. \A k \in DOMAIN change : k \in ConfigKeys => change[k] \in ConfigValues \cup {Absent}
  BY ChangesAreOfKeys DEF ChangesAreOfKeys
<1> QED BY <1>1 DEF Mutated, ConfigValue

LEMMA EmptyTyped == Empty \in ConfigValue
  BY DEF Empty, ConfigValue

LEMMA ValuesTyped ==
    ASSUME OpsInvariant, NEW v \in 0 .. Len(versions)
    PROVE  ValueOf(v) \in ConfigValue
<1>1. CASE v = 0 BY <1>1, EmptyTyped DEF ValueOf, NoVersion
<1>2. CASE v # 0 BY <1>2 DEF OpsInvariant, OpsTypeOK, ValueOf, NoVersion
<1> QED BY <1>1, <1>2

LEMMA CommandTyped ==
    ASSUME OpsInvariant, NEW c \in Commands, NEW r, r = command[c]
    PROVE  /\ r \in CommandRecord /\ OutcomeSound(r)
           /\ target = "secret" => SecretCommand(r)
           /\ target = "config" => ConfigCommand(r)
  BY DEF OpsInvariant, OpsTypeOK, SecretSound, ConfigSound

\* One command moves and what it changes is as it was.
LEMMA CommandMoves ==
    ASSUME OpsInvariant, NEW c \in Commands, NEW r, r = command[c], r.at # "done",
           NEW x \in CommandRecord, command' = [command EXCEPT ![c] = x], OutcomeSound(x),
           UNCHANGED <<target, versions, current, wasCurrent, parameter, adminRow, shown, latest, lost>>,
           target = "secret" => SecretCommand(x),
           target = "config" => ConfigCommand(x),
           \/ pendingLabel' = NoVersion
           \/ pendingLabel' = pendingLabel /\ (HoldsLabel(r, pendingLabel) => HoldsLabel(x, pendingLabel))
    PROVE  OpsInvariant'
<1>1. command' \in [Commands -> CommandRecord] /\ command'[c] = x /\ \A d \in Commands : d # c => command'[d] = command[d]
  BY DEF OpsInvariant, OpsTypeOK
<1>2. pendingLabel' \in Nat BY DEF OpsInvariant, OpsTypeOK, NoVersion
<1>3. OpsTypeOK' BY <1>1, <1>2 DEF OpsInvariant, OpsTypeOK
<1>4. \A d \in Commands : OutcomeSound(command'[d]) BY <1>1 DEF OpsInvariant
<1>5. ASSUME target = "secret" PROVE SecretSound'
  <2>1. \A d \in Commands : SecretCommand(command[d]) /\ SecretCommand(x) BY <1>5 DEF OpsInvariant, SecretSound
  <2>2. ASSUME NEW d \in Commands PROVE SecretCommand(command[d])'
    <3>1. PICK y : y = command'[d] OBVIOUS
    <3>2. SecretCommand(y) BY <1>1, <2>1, <3>1
    <3>3. SecretCommand(y)' BY <3>2 DEF SecretCommand, ValueOf
    <3> QED BY <3>1, <3>3 DEF SecretCommand, ValueOf
  <2>3. pendingLabel' # NoVersion => \E d \in Commands : HoldsLabel(command'[d], pendingLabel')
    <3>1. SUFFICES ASSUME pendingLabel' # NoVersion PROVE \E d \in Commands : HoldsLabel(command'[d], pendingLabel')
      OBVIOUS
    <3>2. pendingLabel' = pendingLabel BY <3>1
    <3>3. PICK d \in Commands : HoldsLabel(command[d], pendingLabel)
      BY <1>5, <3>1, <3>2 DEF OpsInvariant, SecretSound
    <3>4. HoldsLabel(command'[d], pendingLabel) BY <1>1, <3>1, <3>2, <3>3
    <3> QED BY <3>2, <3>4
  <2>4. ValueOf(current)' = latest' BY <1>5 DEF OpsInvariant, SecretSound, ValueOf
  <2> QED BY <2>2, <2>3, <2>4 DEF SecretSound, HoldsLabel, NoVersion
<1>6. ASSUME target = "config" PROVE ConfigSound' BY <1>1, <1>6 DEF OpsInvariant, ConfigSound, ConfigCommand, Empty
<1>7. ASSUME target = "admin" PROVE AdminSound'
  <2>1. ASSUME NEW d \in Outcomes("changed") PROVE d \in Outcomes("changed")' BY <1>1 DEF Outcomes, At
  <2>2. AdminSound BY <1>7 DEF OpsInvariant
  <2>3. Nobody' = Nobody BY DEF Nobody
  <2>4. {adminRow.grantedBy, adminRow.revokedBy} \ {Nobody} \subseteq Outcomes("changed")'
    BY <2>1, <2>2 DEF AdminSound
  <2> QED BY <2>2, <2>3, <2>4, Zenon DEF AdminSound
<1>8. \A d \in Commands : OutcomeSound(command[d])' BY <1>4 DEF OutcomeSound
<1> QED BY <1>3, <1>5, <1>6, <1>7, <1>8 DEF OpsInvariant

LEMMA QuietCommandsKeep ==
    ASSUME OpsInvariant, NEW c \in Commands,
           \/ \E change \in Changes : Start(c, change)
           \/ ReadSecret(c) \/ ReadParameter(c) \/ CheckVersion(c)
           \/ \E grant \in BOOLEAN, row \in {adminRow, shown} : FindUser(c, grant, row)
           \/ FlagRefused(c) \/ LookAgain(c) \/ Interrupted(c)
    PROVE  OpsInvariant'
<1> DEFINE r == command[c]
           Done(outcome) == [r EXCEPT !.at = "done", !.outcome = outcome]
           Retried == [r EXCEPT !.at = "read", !.tries = @ + 1]
<1>1. r \in CommandRecord /\ OutcomeSound(r) /\ (target = "secret" => SecretCommand(r)) /\ (target = "config" => ConfigCommand(r))
  BY CommandTyped
<1>2. UNCHANGED <<target, versions, current, wasCurrent, pendingLabel, parameter, adminRow, shown, latest, lost>>
  BY DEF Start, ReadSecret, ReadParameter, CheckVersion, FindUser, FlagRefused, LookAgain, Interrupted, secretVars, adminVars
<1>3. ASSUME NEW x \in CommandRecord, command' = [command EXCEPT ![c] = x], r.at # "done",
             OutcomeSound(x), target = "secret" => SecretCommand(x), target = "config" => ConfigCommand(x),
             r.at \in {"promote", "release"} => x.version = r.version /\ x.at = "done" /\ x.outcome = "interrupted"
      PROVE  OpsInvariant'
  <2>1. HoldsLabel(r, pendingLabel) => HoldsLabel(x, pendingLabel) BY <1>3 DEF HoldsLabel
  <2> HIDE DEF r
  <2> QED BY <1>2, <1>3, <2>1, CommandMoves DEF r
\* Ends without a change.
<1>4. ASSUME NEW outcome \in {"unchanged", "missing", "conflict"}, r.at \notin {"done", "promote", "release"},
             command' = [command EXCEPT ![c] = Done(outcome)]
      PROVE  OpsInvariant'
  <2>1. Done(outcome) \in CommandRecord BY <1>1 DEF CommandRecord
  <2>2. Done(outcome).at = "done" /\ Done(outcome).outcome = outcome BY <1>1 DEF CommandRecord
  <2>3. ~Done(outcome).wrote BY <1>1, <1>4 DEF CommandRecord, OutcomeSound
  <2> HIDE DEF Done
  <2>4. OutcomeSound(Done(outcome)) BY <1>4, <2>2, <2>3 DEF OutcomeSound
  <2>5. SecretCommand(Done(outcome)) /\ ConfigCommand(Done(outcome)) BY <2>2 DEF SecretCommand, ConfigCommand
  <2> HIDE DEF r
  <2> QED BY <1>3, <1>4, <2>1, <2>2, <2>4, <2>5
\* Goes on to a place where nothing is prepared.
<1>5. ASSUME NEW x \in CommandRecord, r.at \notin {"done", "promote", "release"}, command' = [command EXCEPT ![c] = x],
             x.at \in {"read", "create", "flag", "look"}, x.outcome \in {r.outcome, "missing"}, ~x.wrote
      PROVE  OpsInvariant'
  <2>1. r.outcome # "changed" BY <1>1, <1>5 DEF OutcomeSound
  <2>2. OutcomeSound(x) BY <1>5, <2>1 DEF OutcomeSound
  <2>3. SecretCommand(x) /\ ConfigCommand(x) BY <1>5 DEF SecretCommand, ConfigCommand
  <2> HIDE DEF r
  <2> QED BY <1>3, <1>5, <2>2, <2>3
<1>6. r.at \notin {"release", "done"} => ~r.wrote /\ r.outcome # "changed" BY <1>1 DEF OutcomeSound
<1>7. ASSUME NEW change \in Changes, Start(c, change) PROVE OpsInvariant'
  <2> DEFINE x == [r EXCEPT !.at = "read", !.change = change]
  <2>1. r.at = "start" /\ command' = [command EXCEPT ![c] = x] BY <1>7 DEF Start, At, Becomes
  <2>2. x \in CommandRecord BY <1>1 DEF CommandRecord
  <2>3. x.at = "read" /\ x.outcome = r.outcome BY <1>1 DEF CommandRecord
  <2>4. ~x.wrote BY <1>1, <1>6, <2>1 DEF CommandRecord
  <2> HIDE DEF x, r
  <2> QED BY <1>5, <2>1, <2>2, <2>3, <2>4
<1>8. ASSUME ReadSecret(c) PROVE OpsInvariant'
  <2>1. target = "secret" /\ r.at = "read" BY <1>8 DEF ReadSecret, At
  <2>2. PICK base \in wasCurrent :
          LET updated == Mutated(ValueOf(base), r.change) IN
          Becomes(c, IF updated = ValueOf(base) THEN Done("unchanged")
                     ELSE [r EXCEPT !.at = "stage", !.base = base, !.value = updated])
    BY <1>8 DEF ReadSecret
  <2> DEFINE updated == Mutated(ValueOf(base), r.change)
             x == [r EXCEPT !.at = "stage", !.base = base, !.value = updated]
  <2>3. base \in 0 .. Len(versions) /\ base \in Nat BY DEF OpsInvariant, OpsTypeOK
  <2>4. updated \in ConfigValue BY <1>1, <2>3, ValuesTyped, MutatedTyped DEF CommandRecord
  <2>5. command' = [command EXCEPT ![c] = Done("unchanged")] \/ command' = [command EXCEPT ![c] = x]
    BY <2>2 DEF Becomes
  <2> HIDE DEF updated
  <2>6. x \in CommandRecord BY <1>1, <2>3, <2>4 DEF CommandRecord
  <2>7. x.at = "stage" /\ x.base = base /\ x.value = updated /\ x.change = r.change /\ x.outcome = r.outcome
    BY <1>1, <2>3, <2>4 DEF CommandRecord
  <2>8. ~x.wrote BY <1>1, <1>6, <2>1 DEF CommandRecord
  <2> HIDE DEF x, Done
  <2>9. OutcomeSound(x) BY <1>6, <2>1, <2>7, <2>8 DEF OutcomeSound
  <2>10. SecretCommand(x) BY <2>7 DEF SecretCommand, updated
  <2> HIDE DEF r
  <2>11. CASE command' = [command EXCEPT ![c] = x] BY <1>3, <2>1, <2>6, <2>9, <2>10, <2>11
  <2>12. CASE command' = [command EXCEPT ![c] = Done("unchanged")] BY <1>4, <2>1, <2>12
  <2> QED BY <2>5, <2>11, <2>12
<1>9. ASSUME ReadParameter(c) PROVE OpsInvariant'
  <2> DEFINE updated == Mutated(parameter.value, r.change)
             x == [r EXCEPT !.at = "check", !.base = parameter.version, !.value = updated]
             y == [r EXCEPT !.at = "create", !.outcome = "missing"]
  <2>1. target = "config" /\ r.at = "read" BY <1>9 DEF ReadParameter, At
  <2>2. \/ command' = [command EXCEPT ![c] = Done("unchanged")] \/ command' = [command EXCEPT ![c] = Done("missing")]
        \/ command' = [command EXCEPT ![c] = y] \/ command' = [command EXCEPT ![c] = x]
    BY <1>9 DEF ReadParameter, Becomes
  <2>3. updated \in ConfigValue /\ parameter.version \in Nat
    BY <1>1, MutatedTyped DEF OpsInvariant, OpsTypeOK, CommandRecord
  <2>4. \A k \in ConfigKeys \cap DOMAIN r.change : updated[k] = r.change[k] BY DEF Mutated
  <2> HIDE DEF updated
  <2>5. x \in CommandRecord BY <1>1, <2>3 DEF CommandRecord
  <2>6. x.at = "check" /\ x.value = updated /\ x.change = r.change /\ x.outcome = r.outcome
    BY <1>1, <2>3 DEF CommandRecord
  <2>7. ~x.wrote BY <1>1, <1>6, <2>1 DEF CommandRecord
  <2>8. y \in CommandRecord BY <1>1 DEF CommandRecord
  <2>9. y.at = "create" /\ y.outcome = "missing" BY <1>1 DEF CommandRecord
  <2>10. ~y.wrote BY <1>1, <1>6, <2>1 DEF CommandRecord
  <2> HIDE DEF x, y, Done
  <2>11. OutcomeSound(x) BY <1>6, <2>1, <2>6, <2>7 DEF OutcomeSound
  <2>12. ConfigCommand(x) BY <2>4, <2>6 DEF ConfigCommand
  <2> HIDE DEF r
  <2>13. CASE command' = [command EXCEPT ![c] = x] BY <1>3, <2>1, <2>5, <2>11, <2>12, <2>13
  <2>14. CASE command' = [command EXCEPT ![c] = y] BY <1>5, <2>1, <2>8, <2>9, <2>10, <2>14
  <2>15. CASE command' = [command EXCEPT ![c] = Done("unchanged")] BY <1>4, <2>1, <2>15
  <2>16. CASE command' = [command EXCEPT ![c] = Done("missing")] BY <1>4, <2>1, <2>16
  <2> QED BY <2>2, <2>13, <2>14, <2>15, <2>16
<1>10. ASSUME CheckVersion(c) PROVE OpsInvariant'
  <2> DEFINE x == [r EXCEPT !.at = "write", !.known = parameter.version = r.base]
  <2>1. target = "config" /\ r.at = "check" BY <1>10 DEF CheckVersion, At
  <2>2. \/ command' = [command EXCEPT ![c] = x] /\ parameter.version = r.base
        \/ command' = [command EXCEPT ![c] = Retried] \/ command' = [command EXCEPT ![c] = Done("conflict")]
    BY <1>10 DEF CheckVersion, SameVersion, Becomes, Again
  <2>3. x \in CommandRecord BY <1>1 DEF CommandRecord
  <2>4. x.at = "write" /\ x.value = r.value /\ x.change = r.change /\ x.outcome = r.outcome BY <1>1 DEF CommandRecord
  <2>5. ~x.wrote BY <1>1, <1>6, <2>1 DEF CommandRecord
  <2>6. parameter.version = r.base => x.known BY <1>1 DEF CommandRecord
  <2>7. Retried \in CommandRecord
    <3> HIDE DEF r, x, Done, Retried
    <3>1. r.tries \in Nat BY <1>1 DEF CommandRecord
    <3>2. PICK n \in Nat : n = r.tries + 1 BY <3>1
    <3>3. [r EXCEPT !.at = "read", !.tries = n] \in CommandRecord BY <1>1 DEF CommandRecord
    <3> QED BY <3>2, <3>3 DEF Retried
  <2>8. Retried.at = "read" /\ Retried.outcome = r.outcome BY <1>1 DEF CommandRecord
  <2>9. ~Retried.wrote BY <1>1, <1>6, <2>1 DEF CommandRecord
  <2> HIDE DEF x, Retried, Done
  <2>10. OutcomeSound(x) BY <1>6, <2>1, <2>4, <2>5 DEF OutcomeSound
  <2>11. parameter.version = r.base => ConfigCommand(x) BY <1>1, <2>1, <2>4, <2>6 DEF ConfigCommand
  <2> HIDE DEF r
  <2>12. CASE command' = [command EXCEPT ![c] = x] /\ parameter.version = r.base
    BY <1>3, <2>1, <2>3, <2>10, <2>11, <2>12
  <2>13. CASE command' = [command EXCEPT ![c] = Retried] BY <1>5, <2>1, <2>7, <2>8, <2>9, <2>13
  <2>14. CASE command' = [command EXCEPT ![c] = Done("conflict")] BY <1>4, <2>1, <2>14
  <2> QED BY <2>2, <2>12, <2>13, <2>14
<1>11. ASSUME NEW grant \in BOOLEAN, NEW row \in {adminRow, shown}, FindUser(c, grant, row) PROVE OpsInvariant'
  <2> DEFINE x == [r EXCEPT !.at = "flag", !.grant = grant]
  <2>1. r.at = "start" BY <1>11 DEF FindUser, At
  <2>2. \/ command' = [command EXCEPT ![c] = x]
        \/ command' = [command EXCEPT ![c] = Done("unchanged")] \/ command' = [command EXCEPT ![c] = Done("missing")]
    BY <1>11 DEF FindUser, Becomes
  <2>3. x \in CommandRecord BY <1>1 DEF CommandRecord
  <2>4. x.at = "flag" /\ x.outcome = r.outcome BY <1>1 DEF CommandRecord
  <2>5. ~x.wrote BY <1>1, <1>6, <2>1 DEF CommandRecord
  <2> HIDE DEF x, r, Done
  <2> QED BY <1>4, <1>5, <2>1, <2>2, <2>3, <2>4, <2>5
<1>12. ASSUME FlagRefused(c) PROVE OpsInvariant'
  <2> DEFINE x == [r EXCEPT !.at = "look"]
  <2>1. r.at = "flag" /\ command' = [command EXCEPT ![c] = x] BY <1>12 DEF FlagRefused, At, Becomes
  <2>2. x \in CommandRecord BY <1>1 DEF CommandRecord
  <2>3. x.at = "look" /\ x.outcome = r.outcome BY <1>1 DEF CommandRecord
  <2>4. ~x.wrote BY <1>1, <1>6, <2>1 DEF CommandRecord
  <2> HIDE DEF x, r
  <2> QED BY <1>5, <2>1, <2>2, <2>3, <2>4
<1>13. ASSUME LookAgain(c) PROVE OpsInvariant'
  <2>1. r.at = "look" BY <1>13 DEF LookAgain, At
  <2>2. command' = [command EXCEPT ![c] = Done("unchanged")] \/ command' = [command EXCEPT ![c] = Done("missing")]
    BY <1>13 DEF LookAgain, Ends, Becomes
  <2> HIDE DEF r, Done
  <2> QED BY <1>4, <2>1, <2>2
<1>14. ASSUME Interrupted(c) PROVE OpsInvariant'
  <2> DEFINE x == Done("interrupted")
  <2>1. r.at # "done" /\ command' = [command EXCEPT ![c] = x] BY <1>14 DEF Interrupted, Ends, Becomes
  <2>2. x \in CommandRecord BY <1>1 DEF CommandRecord
  <2>3. x.at = "done" /\ x.outcome = "interrupted" /\ x.version = r.version BY <1>1 DEF CommandRecord
  <2> HIDE DEF Done
  <2>4. OutcomeSound(x) /\ SecretCommand(x) /\ ConfigCommand(x) BY <2>3 DEF OutcomeSound, SecretCommand, ConfigCommand
  <2> HIDE DEF r
  <2> QED BY <1>3, <2>1, <2>2, <2>3, <2>4
<1> QED BY <1>7, <1>8, <1>9, <1>10, <1>11, <1>12, <1>13, <1>14

LEMMA OneCommandChanges ==
    ASSUME OpsInvariant, NEW c \in Commands, NEW x \in CommandRecord, command' = [command EXCEPT ![c] = x], OutcomeSound(x)
    PROVE  /\ command' \in [Commands -> CommandRecord] /\ command'[c] = x
           /\ \A d \in Commands : d # c => command'[d] = command[d]
           /\ \A d \in Commands : OutcomeSound(command[d])'
<1>1. command' \in [Commands -> CommandRecord] /\ command'[c] = x /\ \A d \in Commands : d # c => command'[d] = command[d]
  BY DEF OpsInvariant, OpsTypeOK
<1>2. \A d \in Commands : OutcomeSound(command'[d]) BY <1>1 DEF OpsInvariant
<1> QED BY <1>1, <1>2 DEF OutcomeSound

\* A version is never changed once it is there.
LEMMA VersionsStay ==
    ASSUME OpsInvariant, NEW v \in ConfigValue, versions' = Append(versions, v)
    PROVE  /\ versions' \in Seq(ConfigValue) /\ Len(versions') = Len(versions) + 1 /\ versions'[Len(versions) + 1] = v
           /\ \A i \in 1 .. Len(versions) : versions'[i] = versions[i]
           /\ \A i \in 0 .. Len(versions) : ValueOf(i)' = ValueOf(i)
<1>1. versions \in Seq(ConfigValue) BY DEF OpsInvariant, OpsTypeOK
<1>2. /\ versions' \in Seq(ConfigValue) /\ Len(versions') = Len(versions) + 1 /\ versions'[Len(versions) + 1] = v
      /\ \A i \in 1 .. Len(versions) : versions'[i] = versions[i]
  BY <1>1
<1>3. ASSUME NEW i \in 0 .. Len(versions) PROVE ValueOf(i)' = ValueOf(i)
  <2>1. CASE i = 0 BY <2>1 DEF ValueOf, NoVersion, Empty
  <2>2. CASE i # 0 BY <1>1, <1>2, <2>2 DEF ValueOf, NoVersion
  <2> QED BY <2>1, <2>2
<1> QED BY <1>2, <1>3

LEMMA StageVersionKeeps ==
    ASSUME OpsInvariant, NEW c \in Commands, StageVersion(c)
    PROVE  OpsInvariant'
<1> DEFINE r == command[c]
           n == Len(versions) + 1
           first == [r EXCEPT !.at = "release", !.version = n, !.outcome = "changed", !.wrote = TRUE]
           later == [r EXCEPT !.at = "promote", !.version = n]
<1>1. target = "secret" /\ r.at = "stage" /\ versions' = Append(versions, r.value) /\ pendingLabel' = n
      /\ UNCHANGED <<target, parameter, adminRow, shown>>
  BY DEF StageVersion, At, adminVars
<1>2. \/ /\ n = 1 /\ current' = n /\ wasCurrent' = wasCurrent \cup {n} /\ latest' = Mutated(latest, r.change)
         /\ command' = [command EXCEPT ![c] = first]
      \/ n # 1 /\ command' = [command EXCEPT ![c] = later] /\ UNCHANGED <<current, wasCurrent, latest>>
  BY DEF StageVersion, TookEffect, Becomes
<1>3. r \in CommandRecord /\ OutcomeSound(r) /\ SecretCommand(r) BY <1>1, CommandTyped
<1>4. r.value \in ConfigValue /\ r.change \in Changes \cup {<<>>} /\ r.base \in wasCurrent /\ r.value = Mutated(ValueOf(r.base), r.change)
  BY <1>1, <1>3 DEF CommandRecord, SecretCommand
<1>5. versions \in Seq(ConfigValue) /\ Len(versions) \in Nat /\ current \in 0 .. Len(versions) /\ wasCurrent \subseteq 0 .. Len(versions)
  BY DEF OpsInvariant, OpsTypeOK
<1>6. /\ versions' \in Seq(ConfigValue) /\ Len(versions') = n /\ versions'[n] = r.value
      /\ \A i \in 1 .. Len(versions) : versions'[i] = versions[i]
      /\ \A i \in 0 .. Len(versions) : ValueOf(i)' = ValueOf(i)
  BY <1>1, <1>4, VersionsStay
<1>7. n \in Nat /\ n # 0 BY <1>5
<1>8. PICK m \in Nat : m = n BY <1>7
<1>9. [r EXCEPT !.at = "release", !.version = m, !.outcome = "changed", !.wrote = TRUE] \in CommandRecord
      /\ [r EXCEPT !.at = "promote", !.version = m] \in CommandRecord
  BY <1>3 DEF CommandRecord
<1>10. first \in CommandRecord /\ later \in CommandRecord BY <1>8, <1>9
<1>11. first.at = "release" /\ first.version = n /\ first.outcome = "changed" BY <1>3 DEF CommandRecord
<1>12. first.wrote BY <1>3 DEF CommandRecord
<1>13. later.at = "promote" /\ later.version = n /\ later.base = r.base /\ later.value = r.value /\ later.change = r.change
       /\ later.outcome = r.outcome
  BY <1>3 DEF CommandRecord
<1>14. ~later.wrote /\ r.outcome # "changed" BY <1>1, <1>3 DEF CommandRecord, OutcomeSound
<1>18. PICK p : p = first OBVIOUS
<1>19. PICK q : q = later OBVIOUS
<1> HIDE DEF r, n, first, later
<1>20. p \in CommandRecord /\ p.at = "release" /\ p.version = m /\ p.outcome = "changed" /\ p.wrote
  BY <1>8, <1>10, <1>11, <1>12, <1>18, Zenon
<1>21. q \in CommandRecord /\ q.at = "promote" /\ q.version = m /\ q.base = r.base /\ q.value = r.value
       /\ q.change = r.change /\ q.outcome # "changed" /\ ~q.wrote
  BY <1>8, <1>10, <1>13, <1>14, <1>19, Zenon
<1>22. Len(versions) = m - 1 /\ Len(versions') = m BY <1>5, <1>6, <1>8 DEF n
<1>15. ASSUME NEW x \in CommandRecord, command' = [command EXCEPT ![c] = x], OutcomeSound(x), SecretCommand(x)',
              HoldsLabel(x, n), wasCurrent \subseteq wasCurrent', wasCurrent' \subseteq 0 .. n, current' \in 0 .. n,
              latest' \in ConfigValue, ValueOf(current)' = latest'
       PROVE  OpsInvariant'
  <2>1. /\ command' \in [Commands -> CommandRecord] /\ command'[c] = x
        /\ \A d \in Commands : d # c => command'[d] = command[d]
        /\ \A d \in Commands : OutcomeSound(command[d])'
    BY <1>15, OneCommandChanges
  <2>2. OpsTypeOK' BY <1>1, <1>6, <1>7, <1>15, <2>1 DEF OpsInvariant, OpsTypeOK
  <2>3. ASSUME NEW d \in Commands PROVE SecretCommand(command[d])'
    <3>1. CASE d = c BY <1>15, <2>1, <3>1 DEF SecretCommand, ValueOf
    <3>2. CASE d # c
      <4>1. PICK y : y = command[d] OBVIOUS
      <4>2. command'[d] = y BY <2>1, <3>2, <4>1
      <4>3. SecretCommand(y) BY <1>1, <4>1 DEF OpsInvariant, SecretSound
      <4>4. SecretCommand(y)'
        <5>1. ASSUME y.at = "stage" PROVE y.base \in wasCurrent' /\ y.value = Mutated(ValueOf(y.base), y.change)'
          BY <1>5, <1>6, <1>15, <4>3, <5>1 DEF SecretCommand, Mutated
        <5>2. ASSUME y.at = "promote"
              PROVE  /\ y.base \in 0 .. Len(versions') /\ y.version \in 1 .. Len(versions')
                     /\ versions'[y.version] = y.value /\ y.value = Mutated(ValueOf(y.base), y.change)'
          BY <1>5, <1>6, <4>3, <5>2 DEF SecretCommand, n, Mutated
        <5> QED BY <5>1, <5>2 DEF SecretCommand
      <4> QED BY <4>2, <4>4 DEF SecretCommand, ValueOf
    <3> QED BY <3>1, <3>2
  <2>4. \E d \in Commands : HoldsLabel(command[d], pendingLabel)' BY <1>1, <1>15, <2>1 DEF HoldsLabel
  <2>5. SecretSound' BY <1>15, <2>3, <2>4 DEF SecretSound
  <2> QED BY <1>1, <2>1, <2>2, <2>5 DEF OpsInvariant
<1>16. CASE /\ n = 1 /\ current' = n /\ wasCurrent' = wasCurrent \cup {n} /\ latest' = Mutated(latest, r.change)
            /\ command' = [command EXCEPT ![c] = first]
  <2>1. OutcomeSound(p) BY <1>20 DEF OutcomeSound
  <2>2. SecretCommand(p)' /\ HoldsLabel(p, n) BY <1>8, <1>20 DEF SecretCommand, HoldsLabel
  <2>3. n = 1 /\ current' = 1 /\ wasCurrent' = wasCurrent \cup {1} /\ latest' = Mutated(latest, r.change) BY <1>16
  <2>4. Len(versions) = 0 BY <1>8, <1>22, <2>3
  <2>5. 0 .. Len(versions) = {0} BY <2>4
  <2>6. r.base = 0 /\ current = 0 BY <1>4, <1>5, <2>5
  <2>7. ValueOf(0) = latest BY <1>1, <2>6 DEF OpsInvariant, SecretSound
  <2>8. latest' = r.value BY <1>4, <2>3, <2>6, <2>7
  <2>9. ValueOf(current)' = r.value BY <1>6, <2>3 DEF ValueOf, NoVersion
  <2>10. 1 \in 0 .. n /\ 0 \in 0 .. n BY <2>3
  <2>11. wasCurrent' \subseteq 0 .. n /\ current' \in 0 .. n BY <1>5, <2>3, <2>5, <2>10
  <2>12. command' = [command EXCEPT ![c] = p] BY <1>16, <1>18
  <2> QED BY <1>4, <1>15, <1>20, <2>1, <2>2, <2>3, <2>8, <2>9, <2>11, <2>12
<1>17. CASE n # 1 /\ command' = [command EXCEPT ![c] = later] /\ UNCHANGED <<current, wasCurrent, latest>>
  <2>1. OutcomeSound(q) /\ HoldsLabel(q, n) BY <1>3, <1>8, <1>21 DEF OutcomeSound, HoldsLabel
  <2>2. q.version \in 1 .. Len(versions') /\ versions'[q.version] = q.value BY <1>6, <1>7, <1>8, <1>21, <1>22
  <2>3. q.base \in 0 .. Len(versions) BY <1>4, <1>5, <1>21
  <2>4. 0 .. Len(versions) \subseteq 0 .. n /\ 0 .. Len(versions) \subseteq 0 .. Len(versions')
    BY <1>5, <1>7, <1>8, <1>22
  <2>5. q.value = Mutated(ValueOf(q.base), q.change) BY <1>4, <1>21
  <2>6. q.value = Mutated(ValueOf(q.base), q.change)' BY <1>6, <2>3, <2>5 DEF Mutated
  <2>7. SecretCommand(q)' BY <1>21, <2>2, <2>3, <2>4, <2>6 DEF SecretCommand
  <2>8. command' = [command EXCEPT ![c] = q] /\ UNCHANGED <<current, wasCurrent, latest>> BY <1>17, <1>19
  <2>9. wasCurrent' \subseteq 0 .. n /\ current' \in 0 .. n /\ latest' \in ConfigValue
    BY <1>5, <2>4, <2>8 DEF OpsInvariant, OpsTypeOK
  <2>10. ValueOf(current)' = latest'
    <3>1. ValueOf(current) = latest BY <1>1 DEF OpsInvariant, SecretSound
    <3>2. PICK i : i = current OBVIOUS
    <3>3. ValueOf(i)' = ValueOf(i) BY <1>5, <1>6, <3>2
    <3> QED BY <2>8, <3>1, <3>2, <3>3 DEF ValueOf
  <2> QED BY <1>15, <1>21, <2>1, <2>7, <2>8, <2>9, <2>10
<1> QED BY <1>2, <1>16, <1>17

LEMMA PromoteKeeps ==
    ASSUME OpsInvariant, NEW c \in Commands, NEW r, r = command[c], Promote(c)
    PROVE  OpsInvariant'
<1>1. target = "secret" /\ r.at = "promote" /\ UNCHANGED <<target, versions, pendingLabel, parameter, adminRow, shown, lost>>
  BY DEF Promote, At, adminVars
<1>2. r \in CommandRecord /\ OutcomeSound(r) /\ SecretCommand(r) BY <1>1, CommandTyped
<1>3. ~r.wrote BY <1>1, <1>2 DEF OutcomeSound
<1>4. CASE \E outcome \in {"unconfirmed", "lost"} :
             command' = [command EXCEPT ![c] = [r EXCEPT !.at = "release", !.outcome = outcome]]
             /\ UNCHANGED <<current, wasCurrent, latest>>
  <2>1. PICK outcome \in {"unconfirmed", "lost"} :
               command' = [command EXCEPT ![c] = [r EXCEPT !.at = "release", !.outcome = outcome]]
               /\ UNCHANGED <<current, wasCurrent, latest>>
    BY <1>4
  <2> DEFINE x == [r EXCEPT !.at = "release", !.outcome = outcome]
  <2>2. x \in CommandRecord BY <1>2 DEF CommandRecord
  <2>3. x.at = "release" /\ x.outcome = outcome /\ x.version = r.version BY <1>2 DEF CommandRecord
  <2>4. ~x.wrote BY <1>2, <1>3 DEF CommandRecord
  <2> HIDE DEF x
  <2>5. OutcomeSound(x) BY <2>3, <2>4 DEF OutcomeSound
  <2>6. SecretCommand(x) /\ (HoldsLabel(r, pendingLabel) => HoldsLabel(x, pendingLabel))
    BY <2>3 DEF SecretCommand, HoldsLabel
  <2>7. command' = [command EXCEPT ![c] = x] /\ UNCHANGED <<current, wasCurrent, latest>> BY <2>1 DEF x
  <2> QED BY <1>1, <2>2, <2>5, <2>6, <2>7, CommandMoves
<1>5. CASE \E outcome \in {"changed", "unconfirmed"} :
             /\ command' = [command EXCEPT ![c] = [r EXCEPT !.at = "release", !.outcome = outcome, !.wrote = TRUE]]
             /\ current = r.base /\ current' = r.version /\ wasCurrent' = wasCurrent \cup {r.version}
             /\ latest' = Mutated(latest, r.change)
  <2>1. PICK outcome \in {"changed", "unconfirmed"} :
             /\ command' = [command EXCEPT ![c] = [r EXCEPT !.at = "release", !.outcome = outcome, !.wrote = TRUE]]
             /\ current = r.base /\ current' = r.version /\ wasCurrent' = wasCurrent \cup {r.version}
             /\ latest' = Mutated(latest, r.change)
    BY <1>5
  <2> DEFINE x == [r EXCEPT !.at = "release", !.outcome = outcome, !.wrote = TRUE]
  <2>2. x \in CommandRecord BY <1>2 DEF CommandRecord
  <2>3. x.at = "release" /\ x.outcome = outcome /\ x.version = r.version BY <1>2 DEF CommandRecord
  <2>4. x.wrote BY <1>2 DEF CommandRecord
  <2> HIDE DEF x
  <2>5. OutcomeSound(x) BY <2>3, <2>4 DEF OutcomeSound
  <2>6. command' = [command EXCEPT ![c] = x] BY <2>1 DEF x
  <2>7. /\ command' \in [Commands -> CommandRecord] /\ command'[c] = x
        /\ \A d \in Commands : d # c => command'[d] = command[d]
        /\ \A d \in Commands : OutcomeSound(command[d])'
    BY <2>2, <2>5, <2>6, OneCommandChanges
  <2>8. r.version \in 1 .. Len(versions) /\ versions[r.version] = r.value /\ r.value = Mutated(ValueOf(r.base), r.change)
    BY <1>1, <1>2 DEF SecretCommand
  <2>9. ValueOf(current) = latest BY <1>1 DEF OpsInvariant, SecretSound
  <2>10. latest' = r.value BY <2>1, <2>8, <2>9
  <2>11. r.value \in ConfigValue BY <1>2 DEF CommandRecord
  <2>12. r.version \in 0 .. Len(versions) /\ r.version # 0 /\ Len(versions) \in Nat
    BY <2>8 DEF OpsInvariant, OpsTypeOK
  <2>13. ValueOf(current)' = latest' BY <1>1, <2>1, <2>8, <2>10, <2>12 DEF ValueOf, NoVersion
  <2>14. current' \in 0 .. Len(versions') /\ wasCurrent' \subseteq 0 .. Len(versions')
    BY <1>1, <2>1, <2>12 DEF OpsInvariant, OpsTypeOK
  <2>15. OpsTypeOK' BY <1>1, <2>7, <2>10, <2>11, <2>14 DEF OpsInvariant, OpsTypeOK
  <2>16. ASSUME NEW d \in Commands PROVE SecretCommand(command[d])'
    <3>1. PICK y : y = command'[d] OBVIOUS
    <3>2. SecretCommand(y) BY <1>1, <2>3, <2>7, <3>1 DEF SecretCommand, OpsInvariant, SecretSound
    <3>3. SecretCommand(y)' BY <1>1, <2>1, <3>2 DEF SecretCommand, ValueOf
    <3> QED BY <3>1, <3>3 DEF SecretCommand, ValueOf
  <2>17. pendingLabel' # NoVersion => \E d \in Commands : HoldsLabel(command[d], pendingLabel)'
    <3>1. SUFFICES ASSUME pendingLabel # NoVersion PROVE \E d \in Commands : HoldsLabel(command'[d], pendingLabel)
      BY <1>1 DEF HoldsLabel
    <3>2. PICK d \in Commands : HoldsLabel(command[d], pendingLabel) BY <1>1, <3>1 DEF OpsInvariant, SecretSound
    <3>3. HoldsLabel(r, pendingLabel) => HoldsLabel(x, pendingLabel) BY <1>1, <2>3 DEF HoldsLabel
    <3> QED BY <2>7, <3>2, <3>3
  <2>18. SecretSound' BY <2>13, <2>16, <2>17 DEF SecretSound, NoVersion
  <2> QED BY <1>1, <2>7, <2>15, <2>18 DEF OpsInvariant
<1> QED BY <1>4, <1>5 DEF Promote, Becomes, TookEffect, LabelIsOn

LEMMA ReleasePendingKeeps ==
    ASSUME OpsInvariant, NEW c \in Commands, NEW r, r = command[c], ReleasePending(c)
    PROVE  OpsInvariant'
<1>1. /\ target = "secret" /\ r.at = "release"
      /\ UNCHANGED <<target, versions, current, wasCurrent, parameter, adminRow, shown, latest, lost>>
      /\ pendingLabel' = IF pendingLabel = r.version THEN NoVersion ELSE pendingLabel
  BY DEF ReleasePending, At, adminVars
<1>2. r \in CommandRecord /\ OutcomeSound(r) BY CommandTyped
<1>3. pendingLabel' = NoVersion \/ (pendingLabel' = pendingLabel /\ ~HoldsLabel(r, pendingLabel))
  BY <1>1 DEF HoldsLabel
<1>4. ASSUME NEW x \in CommandRecord, command' = [command EXCEPT ![c] = x], x.at \in {"read", "done"}, OutcomeSound(x)
      PROVE  OpsInvariant'
  BY <1>1, <1>3, <1>4, CommandMoves DEF SecretCommand
<1> DEFINE done == [r EXCEPT !.at = "done"]
           over == [r EXCEPT !.at = "done", !.outcome = "conflict"]
           again == [r EXCEPT !.at = "read", !.tries = @ + 1]
<1>5. \/ r.outcome = "lost" /\ (command' = [command EXCEPT ![c] = over] \/ command' = [command EXCEPT ![c] = again])
      \/ command' = [command EXCEPT ![c] = done]
  BY DEF ReleasePending, Becomes, Again
<1>6. done \in CommandRecord /\ over \in CommandRecord BY <1>2 DEF CommandRecord
<1>7. again \in CommandRecord
  <2> HIDE DEF done, over, again
  <2>1. r.tries \in Nat BY <1>2 DEF CommandRecord
  <2>2. PICK n \in Nat : n = r.tries + 1 BY <2>1
  <2>3. [r EXCEPT !.at = "read", !.tries = n] \in CommandRecord BY <1>2 DEF CommandRecord
  <2> QED BY <2>2, <2>3 DEF again
<1>8. done.at = "done" /\ done.outcome = r.outcome /\ over.at = "done" /\ over.outcome = "conflict"
      /\ again.at = "read" /\ again.outcome = r.outcome
  BY <1>2 DEF CommandRecord
<1>9. (done.wrote <=> r.wrote) /\ (over.wrote <=> r.wrote) /\ (again.wrote <=> r.wrote) BY <1>2 DEF CommandRecord
<1> HIDE DEF done, over, again
<1>10. OutcomeSound(done) BY <1>2, <1>8, <1>9 DEF OutcomeSound
<1>11. r.outcome = "lost" => OutcomeSound(over) /\ OutcomeSound(again) BY <1>2, <1>8, <1>9 DEF OutcomeSound
<1>12. CASE command' = [command EXCEPT ![c] = done] BY <1>4, <1>6, <1>8, <1>10, <1>12
<1>13. CASE r.outcome = "lost" /\ command' = [command EXCEPT ![c] = over] BY <1>4, <1>6, <1>8, <1>11, <1>13
<1>14. CASE r.outcome = "lost" /\ command' = [command EXCEPT ![c] = again] BY <1>4, <1>7, <1>8, <1>11, <1>14
<1> QED BY <1>5, <1>12, <1>13, <1>14

\* A command of the config target has changed the parameter, and is done.
LEMMA ParameterIsWritten ==
    ASSUME OpsInvariant, NEW c \in Commands, NEW r, r = command[c], target = "config",
           command' = [command EXCEPT ![c] = [r EXCEPT !.at = "done", !.outcome = "changed", !.wrote = TRUE]],
           parameter' \in [version : Nat \ {0}, value : ConfigValue], latest' = Mutated(latest, r.change),
           \A k \in ConfigKeys \ lost' : parameter'.value[k] = latest'[k],
           UNCHANGED <<target, versions, current, wasCurrent, pendingLabel, adminRow, shown>>
    PROVE  OpsInvariant'
<1> DEFINE x == [r EXCEPT !.at = "done", !.outcome = "changed", !.wrote = TRUE]
<1>1. r \in CommandRecord BY CommandTyped
<1>2. x \in CommandRecord BY <1>1 DEF CommandRecord
<1>3. x.at = "done" /\ x.outcome = "changed" BY <1>1 DEF CommandRecord
<1>4. x.wrote BY <1>1 DEF CommandRecord
<1>5. command' = [command EXCEPT ![c] = x] OBVIOUS
<1> HIDE DEF x
<1>6. OutcomeSound(x) /\ ConfigCommand(x) BY <1>3, <1>4 DEF OutcomeSound, ConfigCommand
<1>7. /\ command' \in [Commands -> CommandRecord] /\ command'[c] = x
      /\ \A d \in Commands : d # c => command'[d] = command[d]
      /\ \A d \in Commands : OutcomeSound(command[d])'
  BY <1>2, <1>5, <1>6, OneCommandChanges
<1>8. latest' \in ConfigValue BY <1>1, MutatedTyped DEF OpsInvariant, OpsTypeOK, CommandRecord
<1>9. OpsTypeOK' BY <1>7, <1>8 DEF OpsInvariant, OpsTypeOK
<1>10. \A d \in Commands : ConfigCommand(command'[d]) BY <1>6, <1>7 DEF OpsInvariant, ConfigSound
<1>11. parameter'.version # 0 OBVIOUS
<1>12. ConfigSound' BY <1>10, <1>11 DEF ConfigSound, ConfigCommand
<1> QED BY <1>7, <1>9, <1>12 DEF OpsInvariant

LEMMA CreateParameterKeeps ==
    ASSUME OpsInvariant, NEW c \in Commands, NEW r, r = command[c], CreateParameter(c)
    PROVE  OpsInvariant'
<1>1. target = "config" /\ r.at = "create" /\ UNCHANGED <<target, versions, current, wasCurrent, pendingLabel, adminRow, shown, lost>>
  BY DEF CreateParameter, At, secretVars, adminVars
<1>2. r \in CommandRecord /\ OutcomeSound(r) BY CommandTyped
<1>3. CASE parameter.version = 0
  <2>1. /\ parameter' = [version |-> 1, value |-> Mutated(Empty, r.change)] /\ latest' = Mutated(latest, r.change)
        /\ command' = [command EXCEPT ![c] = [r EXCEPT !.at = "done", !.outcome = "changed", !.wrote = TRUE]]
    BY <1>3 DEF CreateParameter, TookEffect, Becomes
  <2>2. r.change \in Changes \cup {<<>>} BY <1>2 DEF CommandRecord
  <2>3. Mutated(Empty, r.change) \in ConfigValue BY <2>2, EmptyTyped, MutatedTyped
  <2>4. parameter' \in [version : Nat \ {0}, value : ConfigValue] BY <2>1, <2>3
  <2>5. \A k \in ConfigKeys \ lost : Empty[k] = latest[k] BY <1>1, <1>3 DEF OpsInvariant, ConfigSound
  <2>6. parameter'.value = Mutated(Empty, r.change) BY <2>1
  <2>7. \A k \in ConfigKeys \ lost' : parameter'.value[k] = latest'[k] BY <1>1, <2>1, <2>5, <2>6 DEF Mutated
  <2> QED BY <1>1, <2>1, <2>4, <2>7, ParameterIsWritten
<1>4. CASE parameter.version # 0
  <2> DEFINE x == [r EXCEPT !.at = "read"]
  <2>1. command' = [command EXCEPT ![c] = x] /\ UNCHANGED <<parameter, latest>>
    BY <1>4 DEF CreateParameter, Becomes
  <2>2. x \in CommandRecord BY <1>2 DEF CommandRecord
  <2>3. x.at = "read" /\ x.outcome = r.outcome BY <1>2 DEF CommandRecord
  <2>4. x.wrote <=> r.wrote BY <1>2 DEF CommandRecord
  <2> HIDE DEF x
  <2>5. OutcomeSound(x) BY <1>1, <1>2, <2>3, <2>4 DEF OutcomeSound
  <2>6. SecretCommand(x) /\ ConfigCommand(x) BY <2>3 DEF SecretCommand, ConfigCommand
  <2>7. ~HoldsLabel(r, pendingLabel) BY <1>1 DEF HoldsLabel
  <2> QED BY <1>1, <2>1, <2>2, <2>5, <2>6, <2>7, CommandMoves
<1> QED BY <1>3, <1>4

LEMMA WriteParameterKeeps ==
    ASSUME OpsInvariant, NEW c \in Commands, NEW r, r = command[c], WriteParameter(c)
    PROVE  OpsInvariant'
<1>1. /\ target = "config" /\ r.at = "write"
      /\ parameter' = [version |-> parameter.version + 1, value |-> r.value] /\ latest' = Mutated(latest, r.change)
      /\ command' = [command EXCEPT ![c] = [r EXCEPT !.at = "done", !.outcome = "changed", !.wrote = TRUE]]
      /\ UNCHANGED <<target, versions, current, wasCurrent, pendingLabel, adminRow, shown>>
      /\ r.known => {k \in ConfigKeys \ DOMAIN r.change : r.value[k] # parameter.value[k]} \subseteq lost'
      /\ lost \subseteq lost' \cup DOMAIN r.change
  BY DEF WriteParameter, At, TookEffect, Becomes, secretVars, adminVars
<1>2. r \in CommandRecord /\ ConfigCommand(r) BY <1>1, CommandTyped
<1>3. r.known /\ \A k \in ConfigKeys \cap DOMAIN r.change : r.value[k] = r.change[k]
  BY <1>1, <1>2 DEF ConfigCommand
<1>4. parameter.version \in Nat /\ r.value \in ConfigValue BY <1>2 DEF OpsInvariant, OpsTypeOK, CommandRecord
<1>5. parameter' \in [version : Nat \ {0}, value : ConfigValue] BY <1>1, <1>4
<1>6. parameter'.value = r.value BY <1>1
<1>7. ASSUME NEW k \in ConfigKeys \ lost' PROVE parameter'.value[k] = latest'[k]
  <2>1. CASE k \in DOMAIN r.change BY <1>1, <1>3, <1>6, <2>1 DEF Mutated
  <2>2. CASE k \notin DOMAIN r.change BY <1>1, <1>3, <1>6, <2>2 DEF OpsInvariant, ConfigSound, Mutated
  <2> QED BY <2>1, <2>2
<1> QED BY <1>1, <1>5, <1>7, ParameterIsWritten

\* What the index shows, and a user that is gone.
LEMMA AdminRowMoves ==
    ASSUME OpsInvariant, target = "admin", adminRow' \in AdminRecord, shown' \in AdminRecord, UNCHANGED command,
           UNCHANGED <<target, versions, current, wasCurrent, pendingLabel, parameter, latest, lost>>,
           \/ adminRow' = adminRow
           \/ adminRow'.admin = FALSE /\ adminRow'.grantedBy = Nobody /\ adminRow'.revokedBy = Nobody
    PROVE  OpsInvariant'
<1>1. OpsTypeOK' BY DEF OpsInvariant, OpsTypeOK
<1>2. \A d \in Commands : OutcomeSound(command[d])' BY DEF OpsInvariant, OutcomeSound
<1>3. Nobody' = Nobody /\ Outcomes("changed")' = Outcomes("changed") BY DEF Nobody, Outcomes, At
<1>4. CASE adminRow' = adminRow BY <1>1, <1>2, <1>3, <1>4 DEF OpsInvariant, AdminSound
<1>5. CASE adminRow'.admin = FALSE /\ adminRow'.grantedBy = Nobody /\ adminRow'.revokedBy = Nobody
  BY <1>1, <1>2, <1>3, <1>5 DEF AdminSound, OpsInvariant
<1> QED BY <1>4, <1>5

LEMMA WriteFlagKeeps ==
    ASSUME OpsInvariant, NEW c \in Commands, NEW r, r = command[c], WriteFlag(c)
    PROVE  OpsInvariant'
<1>1. target = "admin" /\ r.at = "flag" /\ UNCHANGED <<target, versions, current, wasCurrent, pendingLabel, parameter, shown, latest, lost>>
  BY DEF WriteFlag, At, secretVars
<1>2. adminRow.there /\ adminRow.admin # r.grant BY DEF WriteFlag, MayFlag
<1>3. r \in CommandRecord BY CommandTyped
<1>4. r.grant \in BOOLEAN /\ adminRow \in AdminRecord BY <1>3 DEF CommandRecord, OpsInvariant, OpsTypeOK
<1> DEFINE x == [r EXCEPT !.at = "done", !.outcome = "changed", !.wrote = adminRow.admin # r.grant]
           by == IF r.grant THEN c ELSE Nobody
           against == IF r.grant THEN Nobody ELSE c
<1>5. command' = [command EXCEPT ![c] = x] /\ adminRow' = [adminRow EXCEPT !.admin = r.grant, !.grantedBy = by, !.revokedBy = against]
  BY DEF WriteFlag, Becomes
<1>6. x \in CommandRecord BY <1>3 DEF CommandRecord
<1>7. x.at = "done" /\ x.outcome = "changed" BY <1>3 DEF CommandRecord
<1>8. x.wrote BY <1>2, <1>3 DEF CommandRecord
<1>9. by \in Commands \cup {Nobody} /\ against \in Commands \cup {Nobody} /\ {by, against} \ {Nobody} \subseteq {c}
  BY <1>4
<1>10. r.grant <=> by # Nobody BY <1>4, ChangesAreOfKeys DEF ChangesAreOfKeys
<1> HIDE DEF x, by, against
<1>11. OutcomeSound(x) BY <1>7, <1>8 DEF OutcomeSound
<1>12. /\ command' \in [Commands -> CommandRecord] /\ command'[c] = x
       /\ \A d \in Commands : OutcomeSound(command[d])'
  BY <1>5, <1>6, <1>11, OneCommandChanges
<1>13. adminRow' \in AdminRecord /\ adminRow'.grantedBy = by /\ adminRow'.revokedBy = against
  BY <1>4, <1>5, <1>9 DEF AdminRecord
<1>14. (adminRow'.admin <=> r.grant) /\ (adminRow'.there <=> adminRow.there) BY <1>4, <1>5 DEF AdminRecord
<1>15. c \in Outcomes("changed")' BY <1>7, <1>12 DEF Outcomes, At
<1>16. AdminSound' BY <1>2, <1>9, <1>10, <1>13, <1>14, <1>15 DEF Nobody, AdminSound
<1>17. OpsTypeOK' BY <1>1, <1>12, <1>13 DEF OpsInvariant, OpsTypeOK
<1> QED BY <1>1, <1>12, <1>16, <1>17 DEF OpsInvariant

LEMMA OpsStart == OpsInit => OpsInvariant
<1> SUFFICES ASSUME OpsInit PROVE OpsInvariant
  OBVIOUS
<1>1. NewCommand \in CommandRecord BY EmptyTyped DEF NewCommand, CommandRecord
<1>2. NewCommand.at = "start" /\ NewCommand.outcome = "" /\ ~NewCommand.wrote BY DEF NewCommand
<1>3. command \in [Commands -> CommandRecord] /\ \A c \in Commands : command[c] = NewCommand BY <1>1 DEF OpsInit
<1>4. \A c \in Commands : OutcomeSound(command[c]) /\ SecretCommand(command[c]) /\ ConfigCommand(command[c])
  BY <1>2, <1>3 DEF OutcomeSound, SecretCommand, ConfigCommand
<1>5. versions = <<>> /\ Len(versions) = 0 /\ current = 0 /\ wasCurrent = {0} /\ pendingLabel = 0 /\ latest = Empty /\ lost = {}
  BY DEF OpsInit, NoVersion
<1>6. parameter.version = 0 /\ parameter.value = Empty /\ parameter \in [version : Nat, value : ConfigValue]
  BY EmptyTyped DEF OpsInit
<1>7. adminRow \in AdminRecord /\ adminRow.grantedBy = Nobody /\ adminRow.revokedBy = Nobody /\ ~adminRow.admin /\ shown = adminRow
  BY DEF OpsInit, AdminRecord
<1>8. OpsTypeOK BY <1>3, <1>5, <1>6, <1>7, EmptyTyped DEF OpsInit, OpsTypeOK
<1>9. SecretSound BY <1>4, <1>5 DEF SecretSound, ValueOf, NoVersion
<1>10. ConfigSound BY <1>4, <1>5, <1>6 DEF ConfigSound
<1>11. AdminSound BY <1>7 DEF AdminSound
<1> QED BY <1>4, <1>8, <1>9, <1>10, <1>11 DEF OpsInvariant

LEMMA OpsKeep == OpsInvariant /\ [OpsNext]_opsVars => OpsInvariant'
<1> SUFFICES ASSUME OpsInvariant, [OpsNext]_opsVars PROVE OpsInvariant'
  OBVIOUS
<1>1. CASE IndexShows
  BY <1>1, AdminRowMoves DEF IndexShows, secretVars, OpsInvariant, OpsTypeOK
<1>2. CASE UserDeleted
  <2> DEFINE gone == [there |-> FALSE, admin |-> FALSE, grantedBy |-> Nobody, revokedBy |-> Nobody]
  <2>1. adminRow' = gone /\ target = "admin" /\ UNCHANGED <<target, command, versions, current, wasCurrent, pendingLabel, parameter, shown, latest, lost>>
    BY <1>2 DEF UserDeleted, secretVars
  <2>2. gone \in AdminRecord /\ gone.admin = FALSE /\ gone.grantedBy = Nobody /\ gone.revokedBy = Nobody BY DEF AdminRecord
  <2>3. shown' \in AdminRecord BY <2>1 DEF OpsInvariant, OpsTypeOK
  <2> HIDE DEF gone
  <2> QED BY <2>1, <2>2, <2>3, AdminRowMoves
<1>3. ASSUME NEW c \in Commands,
             \/ \E change \in Changes : Start(c, change)
             \/ ReadSecret(c) \/ ReadParameter(c) \/ CheckVersion(c)
             \/ \E grant \in BOOLEAN, row \in {adminRow, shown} : FindUser(c, grant, row)
             \/ FlagRefused(c) \/ LookAgain(c) \/ Interrupted(c)
      PROVE  OpsInvariant'
  BY <1>3, QuietCommandsKeep
<1>4. ASSUME NEW c \in Commands, StageVersion(c) PROVE OpsInvariant' BY <1>4, StageVersionKeeps
<1>5. ASSUME NEW c \in Commands, Promote(c) PROVE OpsInvariant' BY <1>5, PromoteKeeps
<1>6. ASSUME NEW c \in Commands, ReleasePending(c) PROVE OpsInvariant' BY <1>6, ReleasePendingKeeps
<1>7. ASSUME NEW c \in Commands, CreateParameter(c) PROVE OpsInvariant' BY <1>7, CreateParameterKeeps
<1>8. ASSUME NEW c \in Commands, WriteParameter(c) PROVE OpsInvariant' BY <1>8, WriteParameterKeeps
<1>9. ASSUME NEW c \in Commands, WriteFlag(c) PROVE OpsInvariant' BY <1>9, WriteFlagKeeps
<1>10. CASE UNCHANGED opsVars
  <2>1. UNCHANGED <<target, command, versions, current, wasCurrent, pendingLabel, parameter, adminRow, shown, latest, lost>>
    BY <1>10 DEF opsVars
  <2>2. OpsTypeOK' BY <2>1 DEF OpsInvariant, OpsTypeOK
  <2>3. \A d \in Commands : OutcomeSound(command[d])' BY <2>1 DEF OpsInvariant, OutcomeSound
  <2>4. target = "secret" => SecretSound'
    BY <2>1 DEF OpsInvariant, SecretSound, SecretCommand, ValueOf, HoldsLabel, NoVersion, Mutated, Empty
  <2>5. target = "config" => ConfigSound' BY <2>1 DEF OpsInvariant, ConfigSound, ConfigCommand, Empty
  <2>6. Nobody' = Nobody /\ Outcomes("changed")' = Outcomes("changed") BY <2>1 DEF Nobody, Outcomes, At
  <2>7. target = "admin" => AdminSound' BY <2>1, <2>6 DEF OpsInvariant, AdminSound
  <2> QED BY <2>1, <2>2, <2>3, <2>4, <2>5, <2>7 DEF OpsInvariant
<1> QED BY <1>1, <1>2, <1>3, <1>4, <1>5, <1>6, <1>7, <1>8, <1>9, <1>10 DEF OpsNext

LEMMA SoundOperatorsDoNotCross ==
    ASSUME OpsInvariant PROVE OperatorsDoNotCross
<1>1. \A c \in Outcomes("conflict") \cup Outcomes("unchanged") : ~command[c].wrote
  BY DEF Outcomes, OpsInvariant, OutcomeSound
<1>2. \A c \in Outcomes("changed") : command[c].wrote BY DEF Outcomes, OpsInvariant, OutcomeSound
<1>3. ASSUME target = "secret", AllEnded, Outcomes("interrupted") = {} PROVE pendingLabel = NoVersion
  BY <1>3 DEF OpsInvariant, SecretSound, HoldsLabel, AllEnded, At, Outcomes
<1>4. SecretsSurvive BY <1>1, <1>2, <1>3 DEF SecretsSurvive, OpsInvariant, SecretSound
<1>5. ConfigLosesOnlyTheWindow BY <1>1 DEF ConfigLosesOnlyTheWindow, OpsInvariant, ConfigSound
<1>6. AdminsAreAttributed
  <2>1. SUFFICES ASSUME target = "admin"
                 PROVE  /\ adminRow.admin = (adminRow.grantedBy # Nobody)
                        /\ {adminRow.grantedBy, adminRow.revokedBy} \ {Nobody} \subseteq Outcomes("changed")
                        /\ adminRow.there \/ ~adminRow.admin
    BY <1>2 DEF AdminsAreAttributed
  <2>2. AdminSound /\ adminRow.admin \in BOOLEAN BY <2>1 DEF OpsInvariant, OpsTypeOK, AdminRecord
  <2>3. adminRow.admin = (adminRow.grantedBy # Nobody) BY <2>2 DEF AdminSound
  <2> QED BY <2>2, <2>3 DEF AdminSound
<1> QED BY <1>4, <1>5, <1>6 DEF OperatorsDoNotCross

-----------------------------------------------------------------------------
(* wp-tf.                                                                  *)

RunStatuses == {"none", "planning", "planned", "awaiting_confirmation", "applying"} \cup TERMINAL_STATUSES
PlaneRecord == [status : RunStatuses, planOnly : BOOLEAN, ready : BOOLEAN, confirmedBy : Terminals \cup {Somebody, Unasked}]
TerminalStages == {"idle", "status", "page", "ended", "prompt", "confirm", "recheck", "discard", "cancel", "put", "done"}
TerminalCommands == {"", "plan", "apply", "confirm", "discard", "logs", "set", "unset"}
TerminalSayings == {"", "error", "applied", "failed", "ok", "no changes", "discarded", "stopped", "cancelled"}
TerminalRecord ==
    [at : TerminalStages, cmd : TerminalCommands, auto : BOOLEAN, phase : Phases,
     status : RunStatuses \cup {""}, after : Int, printed : [Phases -> Int], heard : Nat, empty : Nat, tries : Nat,
     answer : {"none", "yes", "no"}, sensitive : BOOLEAN, outcome : TerminalSayings]

TerraformTypeOK ==
    /\ run \in PlaneRecord
    /\ written \in [Phases -> Nat] /\ readable \in [Phases -> Nat]
    /\ terminal \in [Terminals -> TerminalRecord]
    /\ variable \in [there : BOOLEAN, sensitive : BOOLEAN]

PlanIsOver == run.status \notin {"none", "planning"}

\* A run is applied when somebody confirmed it, and it waited to be.
RunSound ==
    /\ run.status \in APPLY_STATUSES => run.confirmedBy # Unasked
    /\ run.confirmedBy # Unasked => PlanIsOver
    /\ run.planOnly => run.status \notin {"planned", "awaiting_confirmation"} \cup APPLY_STATUSES
    /\ \A p \in Phases : readable[p] <= written[p]

\* The statuses a follow of this terminal stops at.
StopsAt(t) ==
    IF t.cmd = "apply" /\ t.phase = "plan"
    THEN TERMINAL_STATUSES \cup DISCARDABLE_STATUSES \cup APPLY_STATUSES ELSE TERMINAL_STATUSES

\* What was read of the run: its end is its end, and a plan that was over is.
StatusSound(t) ==
    /\ t.status \in TERMINAL_STATUSES => run.status = t.status
    /\ t.status \notin {"", "none", "planning"} => PlanIsOver

\* What was printed is what was read; an empty page after the stop was asked for once
\* every line was written, and a log that has been drained is whole.
PrintedSound(t) ==
    /\ t.printed[t.phase] = t.after /\ (t.phase = "plan" => t.printed["apply"] = 0)
    /\ t.at \in {"prompt", "confirm", "recheck"} => t.phase = "plan"
    /\ \A p \in Phases : 0 <= t.printed[p] /\ t.printed[p] <= readable[p]
    /\ t.at = "status" => t.empty = 0
    /\ t.at = "page" /\ t.empty > 0 => t.status \in StopsAt(t) /\ t.heard = written[t.phase]
    /\ t.at = "ended" => t.status \in StopsAt(t) /\ t.printed[t.phase] = written[t.phase]

\* An apply decides on a plan it has read to the end, and a terminal that confirmed a
\* run was not told to leave it.
DecisionSound(t, c) ==
    /\ t.cmd = "apply" /\ (t.at \in {"prompt", "confirm", "recheck"} \/ t.phase = "apply" \/ run.confirmedBy = c) =>
         t.printed["plan"] = written["plan"] /\ PlanIsOver
    /\ run.confirmedBy = c => (t.phase = "apply" \/ t.at = "done") /\ t.answer # "no"
    /\ t.answer = "no" => t.at \in {"discard", "done"}
    /\ t.at = "idle" => t = NewTerminal

\* What it says in the end is so.
OutcomeTrue(t) ==
    t.at = "done" =>
        /\ t.outcome = "applied" => run.status = "applied"
        /\ t.outcome = "discarded" => run.status = "discarded"
        /\ t.outcome = "no changes" => run.status = "planned_and_finished"

TerminalSound(t, c) == StatusSound(t) /\ PrintedSound(t) /\ DecisionSound(t, c) /\ OutcomeTrue(t)

TerraformInvariant ==
    /\ TerraformTypeOK /\ RunSound /\ ~exposed
    /\ \A c \in Terminals : TerminalSound(terminal[c], c)

\* What a step may do to the run: an end is an end, a plan is made once, and only the
\* one that acts confirms.
RunGoesOn(by) ==
    /\ run' \in PlaneRecord
    /\ run.status \in TERMINAL_STATUSES => run'.status = run.status
    /\ PlanIsOver => PlanIsOver'
    /\ run'.confirmedBy \in {run.confirmedBy, by}

\* What it may do to the logs: a phase's log is written while the phase lasts.
LogsGoOn ==
    /\ written' \in [Phases -> Nat] /\ readable' \in [Phases -> Nat]
    /\ \A p \in Phases :
         /\ readable[p] <= readable'[p] /\ written[p] <= written'[p]
         /\ written'[p] # written[p] => run.status = IF p = "plan" THEN "planning" ELSE "applying"

LEMMA NoughtIsLeast == 0 <= 0 /\ \A n \in Nat : 0 <= n /\ n <= n
  OBVIOUS

LEMMA StatusesDiffer ==
    /\ TERMINAL_STATUSES \cap {"none", "planning", "planned", "awaiting_confirmation", "applying", ""} = {}
    /\ \A t : StopsAt(t) \cap {"none", "planning", ""} = {} /\ (t.phase = "apply" => StopsAt(t) = TERMINAL_STATUSES)
    /\ Phases = {"plan", "apply"} /\ DISCARDABLE_STATUSES \cup APPLY_STATUSES \subseteq RunStatuses
    /\ TERMINAL_STATUSES \subseteq RunStatuses
  BY DEF TERMINAL_STATUSES, StopsAt, DISCARDABLE_STATUSES, APPLY_STATUSES, Phases, RunStatuses

\* A log whose follow has stopped is written no more.
LEMMA StoppedLogsAreClosed ==
    ASSUME NEW t \in TerminalRecord, StatusSound(t), t.status \in StopsAt(t), LogsGoOn
    PROVE  written'[t.phase] = written[t.phase]
<1>1. t.phase \in Phases BY DEF TerminalRecord
<1>2. CASE t.phase = "plan" BY <1>1, <1>2, StatusesDiffer DEF StatusSound, PlanIsOver, LogsGoOn
<1>3. CASE t.phase = "apply" BY <1>1, <1>3, StatusesDiffer DEF StatusSound, LogsGoOn
<1> QED BY <1>1, <1>2, <1>3 DEF Phases

\* What a terminal has read stays so, whatever the step did to the run and the logs.
LEMMA ReadingStays ==
    ASSUME NEW t \in TerminalRecord, StatusSound(t), PrintedSound(t),
           TerraformTypeOK, NEW by, RunGoesOn(by), LogsGoOn
    PROVE  StatusSound(t)' /\ PrintedSound(t)' /\ (OutcomeTrue(t) => OutcomeTrue(t)')
<1>1. StatusSound(t)' BY DEF StatusSound, RunGoesOn
<1>2. PrintedSound(t)'
  <2>1. \A p \in Phases : 0 <= t.printed[p] /\ t.printed[p] <= readable'[p]
    <3>1. SUFFICES ASSUME NEW p \in Phases PROVE 0 <= t.printed[p] /\ t.printed[p] <= readable'[p] OBVIOUS
    <3>2. t.printed[p] \in Int /\ readable[p] \in Nat /\ readable'[p] \in Nat
      BY DEF TerminalRecord, TerraformTypeOK, LogsGoOn
    <3>3. 0 <= t.printed[p] /\ t.printed[p] <= readable[p] /\ readable[p] <= readable'[p]
      BY DEF PrintedSound, LogsGoOn
    <3> QED BY <3>2, <3>3
  <2>2. t.status \in StopsAt(t) => written'[t.phase] = written[t.phase]
    BY StoppedLogsAreClosed
  <2>3. StopsAt(t)' = StopsAt(t) BY DEF StopsAt, TERMINAL_STATUSES, DISCARDABLE_STATUSES, APPLY_STATUSES
  <2> QED BY <2>1, <2>2, <2>3 DEF PrintedSound
<1>3. OutcomeTrue(t) => OutcomeTrue(t)' BY DEF TERMINAL_STATUSES, OutcomeTrue, RunGoesOn
<1> QED BY <1>1, <1>2, <1>3

\* A terminal that stays, and does not confirm, is as sound after the step.
LEMMA TerminalStays ==
    ASSUME NEW c \in Terminals, NEW t \in TerminalRecord, StatusSound(t), PrintedSound(t), DecisionSound(t, c),
           TerraformTypeOK, NEW by, RunGoesOn(by), LogsGoOn, run'.confirmedBy = c => run.confirmedBy = c
    PROVE  StatusSound(t)' /\ PrintedSound(t)' /\ DecisionSound(t, c)' /\ (OutcomeTrue(t) => OutcomeTrue(t)')
<1>1. DecisionSound(t, c)'
  <2>1. PlanIsOver => PlanIsOver' /\ written'["plan"] = written["plan"]
    BY DEF RunGoesOn, LogsGoOn, PlanIsOver, Phases
  <2>2. NewTerminal' = NewTerminal BY DEF NewTerminal, Phases
  <2> QED BY <2>1, <2>2 DEF DecisionSound
<1> QED BY <1>1, ReadingStays

LEMMA SoundOfItsTerminal ==
    ASSUME NEW d, NEW y, terminal'[d] = y, TerminalSound(y, d)'
    PROVE  TerminalSound(terminal[d], d)'
<1>1. StatusSound(terminal[d])' BY DEF TerminalSound, StatusSound
<1>2. StopsAt(terminal[d])' = StopsAt(y)' BY DEF StopsAt
<1>3. PrintedSound(terminal[d])' BY <1>2 DEF TerminalSound, PrintedSound
<1>4. DecisionSound(terminal[d], d)' BY DEF TerminalSound, DecisionSound
<1>5. OutcomeTrue(terminal[d])' BY DEF TerminalSound, OutcomeTrue
<1> QED BY <1>1, <1>3, <1>4, <1>5 DEF TerminalSound

\* One terminal acts, on the run or on the logs.
LEMMA TerminalActs ==
    ASSUME TerraformInvariant, NEW c \in Terminals, NEW x \in TerminalRecord, terminal' = [terminal EXCEPT ![c] = x],
           RunGoesOn(c), LogsGoOn, RunSound', ~exposed', TerminalSound(x, c)',
           variable' \in [there : BOOLEAN, sensitive : BOOLEAN]
    PROVE  TerraformInvariant'
<1>1. terminal'[c] = x /\ terminal' \in [Terminals -> TerminalRecord] /\ \A d \in Terminals : d # c => terminal'[d] = terminal[d]
  BY DEF TerraformInvariant, TerraformTypeOK
<1>2. ASSUME NEW d \in Terminals PROVE TerminalSound(terminal[d], d)'
  <2>1. CASE d = c BY <1>1, <2>1, SoundOfItsTerminal
  <2>2. CASE d # c
    <3>1. PICK t : t = terminal[d] OBVIOUS
    <3>2. t \in TerminalRecord /\ TerminalSound(t, d) /\ TerraformTypeOK BY <3>1 DEF TerraformInvariant, TerraformTypeOK
    <3>3. TerminalSound(t, d)' BY <2>2, <3>2, TerminalStays DEF RunGoesOn, TerminalSound
    <3>4. terminal'[d] = t BY <1>1, <2>2, <3>1
    <3> QED BY <3>3, <3>4, SoundOfItsTerminal
  <2> QED BY <2>1, <2>2
<1>3. TerraformTypeOK' BY <1>1 DEF TerraformTypeOK, RunGoesOn, LogsGoOn
<1> QED BY <1>2, <1>3 DEF TerraformInvariant

\* One terminal goes on by itself.
LEMMA TerminalGoesOn ==
    ASSUME TerraformInvariant, NEW c \in Terminals, NEW x \in TerminalRecord, terminal' = [terminal EXCEPT ![c] = x],
           UNCHANGED <<run, written, readable>>, ~exposed', TerminalSound(x, c),
           variable' \in [there : BOOLEAN, sensitive : BOOLEAN]
    PROVE  TerraformInvariant'
<1>1. RunGoesOn(c) BY DEF TerraformInvariant, TerraformTypeOK, RunGoesOn, PlanIsOver
<1>2. LogsGoOn BY NoughtIsLeast DEF TerraformInvariant, TerraformTypeOK, LogsGoOn
<1>3. RunSound' BY DEF TerraformInvariant, RunSound, PlanIsOver
<1>4. TerminalSound(x, c)'
  BY DEF TerminalSound, StatusSound, PrintedSound, DecisionSound, OutcomeTrue, StopsAt, PlanIsOver, NewTerminal, Phases
<1> QED BY <1>1, <1>2, <1>3, <1>4, TerminalActs

LEMMA TerminalTyped ==
    ASSUME TerraformInvariant, NEW c \in Terminals, NEW t, t = terminal[c]
    PROVE  /\ t \in TerminalRecord /\ StatusSound(t) /\ PrintedSound(t) /\ DecisionSound(t, c) /\ OutcomeTrue(t)
           /\ variable \in [there : BOOLEAN, sensitive : BOOLEAN] /\ run \in PlaneRecord
  BY DEF TerraformInvariant, TerraformTypeOK, TerminalSound

\* A command that starts to follow a phase.
LEMMA FollowIsTyped ==
    ASSUME NEW t \in TerminalRecord, NEW p \in Phases, NEW n \in Int, n \in Nat, NEW x,
           x = [t EXCEPT !.at = "status", !.phase = p, !.after = n, !.heard = n]
    PROVE  /\ x \in TerminalRecord /\ x.at = "status" /\ x.phase = p /\ x.after = n /\ x.heard = n
           /\ x.cmd = t.cmd /\ x.auto = t.auto /\ x.status = t.status /\ x.printed = t.printed /\ x.empty = t.empty
           /\ x.answer = t.answer /\ x.outcome = t.outcome
<1>1. "status" \in TerminalStages BY DEF TerminalStages
<1>2. x \in TerminalRecord BY <1>1 DEF TerminalRecord
<1> QED BY <1>2 DEF TerminalRecord

\* A command that ends, whatever it says.
LEMMA ExitIsSound ==
    ASSUME TerraformInvariant, NEW c \in Terminals, NEW t, t = terminal[c], NEW x, x.at = "done",
           x.cmd = t.cmd, x.phase = t.phase, x.status = t.status, x.after = t.after, x.printed = t.printed,
           x.heard = t.heard, x.empty = t.empty, x.answer = t.answer
    PROVE  StatusSound(x) /\ PrintedSound(x) /\ DecisionSound(x, c)
<1>1. StatusSound(t) /\ PrintedSound(t) /\ DecisionSound(t, c) BY TerminalTyped
<1>2. StatusSound(x) BY <1>1 DEF StatusSound
<1>3. PrintedSound(x) BY <1>1 DEF PrintedSound
<1>4. DecisionSound(x, c) BY <1>1 DEF DecisionSound
<1> QED BY <1>2, <1>3, <1>4

\* A command that has just begun.
LEMMA BeginningIsSound ==
    ASSUME TerraformInvariant, NEW c \in Terminals, terminal[c].at = "idle", NEW x \in TerminalRecord,
           x.phase = "plan", x.status = "", x.after = 0, x.printed = [p \in Phases |-> 0], x.empty = 0,
           x.at \notin {"idle", "page", "ended", "prompt", "recheck"}, x.at = "confirm" => x.cmd # "apply",
           x.answer # "no", x.outcome \in {"", "error", "ok"}
    PROVE  TerminalSound(x, c) /\ run.confirmedBy # c
<1>1. terminal[c] = NewTerminal BY TerminalTyped DEF DecisionSound
<1>2. run.confirmedBy # c BY <1>1, TerminalTyped DEF DecisionSound, NewTerminal
<1>3. StatusSound(x) BY StatusesDiffer DEF StatusSound
<1>4. PrintedSound(x) BY NoughtIsLeast, StatusesDiffer DEF TerraformInvariant, TerraformTypeOK, PrintedSound
<1>5. DecisionSound(x, c) BY <1>2 DEF DecisionSound
<1>6. OutcomeTrue(x) BY DEF OutcomeTrue
<1> QED BY <1>2, <1>3, <1>4, <1>5, <1>6 DEF TerminalSound

LEMMA IdleIsNew ==
    ASSUME TerraformInvariant, NEW c \in Terminals, terminal[c].at = "idle"
    PROVE  /\ terminal[c] = NewTerminal /\ NewTerminal \in TerminalRecord
           /\ NewTerminal.phase = "plan" /\ NewTerminal.status = "" /\ NewTerminal.after = 0 /\ NewTerminal.empty = 0
           /\ NewTerminal.printed = [p \in Phases |-> 0] /\ NewTerminal.answer = "none" /\ NewTerminal.outcome = ""
  BY TerminalTyped DEF DecisionSound, NewTerminal

LEMMA RunStays ==
    ASSUME TerraformInvariant, UNCHANGED <<run, written, readable>>
    PROVE  (\A c \in Terminals : RunGoesOn(c)) /\ LogsGoOn /\ RunSound'
<1>1. \A c \in Terminals : RunGoesOn(c) BY DEF TerraformInvariant, TerraformTypeOK, RunGoesOn, PlanIsOver
<1>2. LogsGoOn BY NoughtIsLeast DEF TerraformInvariant, TerraformTypeOK, LogsGoOn
<1>3. RunSound' BY DEF TerraformInvariant, RunSound, PlanIsOver
<1> QED BY <1>1, <1>2, <1>3

LEMMA NameRunKeeps ==
    ASSUME TerraformInvariant, NEW c \in Terminals, NEW cmd \in {"confirm", "discard", "logs"}, NameRun(c, cmd)
    PROVE  TerraformInvariant'
<1> DEFINE t == terminal[c]
           u == IF cmd = "logs" THEN [t EXCEPT !.at = "status", !.phase = "plan", !.after = 0, !.heard = 0] ELSE t
           x == [u EXCEPT !.cmd = cmd, !.answer = IF cmd = "confirm" THEN "yes" ELSE "none",
                          !.at = IF cmd = "logs" THEN "status" ELSE cmd, !.tries = 1]
<1>1. t.at = "idle" /\ terminal' = [terminal EXCEPT ![c] = x] /\ UNCHANGED <<run, written, readable, variable, exposed>>
  BY DEF NameRun, Is, Shows, Follows, planeVars
<1>2. t = NewTerminal /\ t \in TerminalRecord BY <1>1, IdleIsNew
<1>3. t.phase = "plan" /\ t.status = "" /\ t.after = 0 /\ t.empty = 0 /\ t.printed = [p \in Phases |-> 0] /\ t.outcome = ""
  BY <1>1, IdleIsNew
<1>4. u \in TerminalRecord
  <2>1. PICK w \in TerminalRecord : w = t BY <1>2
  <2>2. "plan" \in Phases /\ 0 \in Int /\ 0 \in Nat BY DEF Phases
  <2>3. PICK y : y = [w EXCEPT !.at = "status", !.phase = "plan", !.after = 0, !.heard = 0] OBVIOUS
  <2>4. y \in TerminalRecord BY <2>2, <2>3, FollowIsTyped
  <2> QED BY <2>1, <2>3, <2>4
<1>5. u.phase = "plan" /\ u.status = "" /\ u.after = 0 /\ u.empty = 0 /\ u.printed = [p \in Phases |-> 0] /\ u.outcome = ""
  BY <1>2, <1>3 DEF TerminalRecord
<1> HIDE DEF t, u
<1>6. x \in TerminalRecord BY <1>4 DEF TerminalStages, TerminalCommands, TerminalRecord
<1>7. x.phase = "plan" /\ x.status = "" /\ x.after = 0 /\ x.empty = 0 /\ x.printed = [p \in Phases |-> 0] /\ x.outcome = ""
      /\ x.cmd = cmd /\ x.answer \in {"yes", "none"} /\ x.at \in {"status", "confirm", "discard"} /\ (x.at = "confirm" => cmd = "confirm")
  BY <1>4, <1>5 DEF TerminalRecord
<1> HIDE DEF x
<1>8. TerminalSound(x, c) BY <1>1, <1>6, <1>7, BeginningIsSound DEF t
<1> QED BY <1>1, <1>6, <1>8, TerminalGoesOn DEF TerraformInvariant, TerraformTypeOK

LEMMA ReadStatusKeeps ==
    ASSUME TerraformInvariant, NEW c \in Terminals, ReadStatus(c)
    PROVE  TerraformInvariant'
<1> DEFINE t == terminal[c]
           x == [t EXCEPT !.at = "page", !.status = run.status]
<1>1. t.at = "status" /\ terminal' = [terminal EXCEPT ![c] = x] /\ UNCHANGED <<run, written, readable, variable, exposed>>
  BY DEF ReadStatus, Is, Shows, planeVars
<1>2. t \in TerminalRecord /\ PrintedSound(t) /\ DecisionSound(t, c) /\ run \in PlaneRecord BY TerminalTyped
<1>3. run.status \in RunStatuses BY <1>2 DEF PlaneRecord
<1>4. x \in TerminalRecord BY <1>2, <1>3 DEF TerminalStages, TerminalRecord
<1>5. x.at = "page" /\ x.status = run.status /\ x.cmd = t.cmd /\ x.phase = t.phase /\ x.after = t.after /\ x.printed = t.printed
      /\ x.heard = t.heard /\ x.empty = t.empty /\ x.answer = t.answer
  BY <1>2 DEF TerminalRecord
<1> HIDE DEF t, x
<1>6. StatusSound(x) BY <1>5 DEF StatusSound, PlanIsOver
<1>7. PrintedSound(x) BY <1>1, <1>2, <1>5 DEF PrintedSound
<1>8. DecisionSound(x, c) BY <1>1, <1>2, <1>5 DEF DecisionSound
<1>9. OutcomeTrue(x) BY <1>5 DEF OutcomeTrue
<1> QED BY <1>1, <1>4, <1>6, <1>7, <1>8, <1>9, TerminalGoesOn DEF TerminalSound, TerraformInvariant, TerraformTypeOK

\* The plane, or a page of it, acts on the run or its logs.
LEMMA PlaneActs ==
    ASSUME TerraformInvariant, NEW by, by \notin Terminals, RunGoesOn(by), LogsGoOn, RunSound',
           UNCHANGED <<terminal, variable, exposed>>
    PROVE  TerraformInvariant'
<1>1. ASSUME NEW d \in Terminals PROVE TerminalSound(terminal[d], d)'
  <2>1. PICK t : t = terminal[d] OBVIOUS
  <2>2. t \in TerminalRecord /\ TerminalSound(t, d) /\ TerraformTypeOK BY <2>1 DEF TerraformInvariant, TerraformTypeOK
  <2>3. TerminalSound(t, d)' BY <2>2, TerminalStays DEF RunGoesOn, TerminalSound
  <2>4. terminal'[d] = t BY <2>1
  <2> QED BY <2>3, <2>4, SoundOfItsTerminal
<1>2. TerraformTypeOK' BY DEF TerraformInvariant, TerraformTypeOK, RunGoesOn, LogsGoOn
<1> QED BY <1>1, <1>2 DEF TerraformInvariant

\* The run moves to another status.
LEMMA RunMoves ==
    ASSUME TerraformInvariant, NEW s \in RunStatuses, run' = [run EXCEPT !.status = s], UNCHANGED <<written, readable>>,
           run.status \notin TERMINAL_STATUSES, s \notin {"none", "planning"},
           s \in APPLY_STATUSES => run.status \in APPLY_STATUSES,
           s \in {"planned", "awaiting_confirmation"} => ~run.planOnly
    PROVE  (\A by : RunGoesOn(by)) /\ RunSound' /\ LogsGoOn
<1>1. run \in PlaneRecord /\ RunSound BY DEF TerraformInvariant, TerraformTypeOK
<1>2. run' \in PlaneRecord BY <1>1 DEF PlaneRecord
<1>3. run'.status = s /\ run'.confirmedBy = run.confirmedBy /\ (run'.planOnly <=> run.planOnly) BY <1>1 DEF PlaneRecord
<1>4. \A by : RunGoesOn(by) BY <1>2, <1>3 DEF RunGoesOn, PlanIsOver
<1>5. RunSound' BY <1>1, <1>3 DEF RunSound, PlanIsOver
<1>6. LogsGoOn BY NoughtIsLeast DEF TerraformInvariant, TerraformTypeOK, LogsGoOn
<1> QED BY <1>4, <1>5, <1>6

\* A confirmed run applies, for the one that confirmed it.
LEMMA RunIsConfirmed ==
    ASSUME TerraformInvariant, NEW by \in Terminals \cup {Somebody}, MayConfirm, Confirmed(by), UNCHANGED <<written, readable>>
    PROVE  /\ RunGoesOn(by) /\ RunSound' /\ LogsGoOn
           /\ run'.status = "applying" /\ run'.confirmedBy = by /\ run.status = "awaiting_confirmation"
<1>1. run \in PlaneRecord /\ RunSound BY DEF TerraformInvariant, TerraformTypeOK
<1>2. run.status = "awaiting_confirmation" /\ run' = [run EXCEPT !.status = "applying", !.confirmedBy = by]
  BY DEF MayConfirm, CONFIRMABLE_STATUSES, Confirmed
<1>3. run' \in PlaneRecord BY <1>1, <1>2 DEF RunStatuses, PlaneRecord
<1>4. run'.status = "applying" /\ run'.confirmedBy = by /\ (run'.planOnly <=> run.planOnly) BY <1>1, <1>2 DEF PlaneRecord
<1>5. RunGoesOn(by) BY <1>2, <1>3, <1>4, StatusesDiffer DEF RunGoesOn, PlanIsOver
<1>6. RunSound' BY <1>1, <1>2, <1>4, DrainsTakeTwoPages DEF Unasked, Somebody, RunSound, PlanIsOver
<1>7. LogsGoOn BY NoughtIsLeast DEF TerraformInvariant, TerraformTypeOK, LogsGoOn
<1> QED BY <1>2, <1>4, <1>5, <1>6, <1>7

\* A request ends the run before it is applied.
LEMMA RunIsEnded ==
    ASSUME TerraformInvariant, (MayDiscard /\ Discarded) \/ (MayCancel /\ Cancelled), UNCHANGED <<written, readable>>
    PROVE  (\A by : RunGoesOn(by)) /\ RunSound' /\ LogsGoOn /\ run'.confirmedBy = run.confirmedBy
           /\ (Discarded => run'.status = "discarded")
<1>1. run \in PlaneRecord BY DEF TerraformInvariant, TerraformTypeOK
<1>2. PICK s \in {"discarded", "cancelled"} : run' = [run EXCEPT !.status = s] /\ run.status \notin TERMINAL_STATUSES
  BY StatusesDiffer DEF Discarded, Cancelled, MayDiscard, MayCancel, DISCARDABLE_STATUSES
<1>3. s \in RunStatuses /\ s \notin {"none", "planning", "planned", "awaiting_confirmation"} \cup APPLY_STATUSES
  BY DEF RunStatuses, TERMINAL_STATUSES, APPLY_STATUSES
<1>4. run'.confirmedBy = run.confirmedBy /\ (Discarded => run'.status = "discarded") BY <1>1, <1>2 DEF PlaneRecord, Discarded
<1> QED BY <1>2, <1>3, <1>4, RunMoves

LEMMA PlaneMovesKeeps == TerraformInvariant /\ PlaneMoves => TerraformInvariant'
<1> SUFFICES ASSUME TerraformInvariant, PlaneMoves PROVE TerraformInvariant' OBVIOUS
<1>1. UNCHANGED <<written, readable, terminal, variable, exposed>> BY DEF PlaneMoves
<1>2. run \in PlaneRecord /\ RunSound BY DEF TerraformInvariant, TerraformTypeOK
<1>3. Somebody \notin Terminals BY DrainsTakeTwoPages
<1>4. ASSUME NEW s \in RunStatuses, run' = [run EXCEPT !.status = s],
             \/ run.status = "planning" /\ s \in {"errored", "planned_and_finished"}
             \/ run.status = "planning" /\ ~run.planOnly /\ s \in {"planned", "awaiting_confirmation"}
             \/ run.status = "planned" /\ s = "awaiting_confirmation"
             \/ run.status = "applying" /\ s \in {"applied", "errored"}
      PROVE  TerraformInvariant'
  <2>1. run.status \notin TERMINAL_STATUSES BY <1>4, StatusesDiffer
  <2>2. s \notin {"none", "planning"} BY <1>4
  <2>3. s \in APPLY_STATUSES => run.status \in APPLY_STATUSES BY <1>4 DEF APPLY_STATUSES
  <2>4. s \in {"planned", "awaiting_confirmation"} => ~run.planOnly BY <1>2, <1>4 DEF RunSound
  <2>5. RunGoesOn(Somebody) /\ RunSound' /\ LogsGoOn BY <1>1, <1>4, <2>1, <2>2, <2>3, <2>4, RunMoves
  <2> QED BY <1>1, <1>3, <2>5, PlaneActs
<1>5. ASSUME run' = [run EXCEPT !.ready = TRUE] PROVE TerraformInvariant'
  <2>1. run' \in PlaneRecord BY <1>2, <1>5 DEF PlaneRecord
  <2>2. run'.status = run.status /\ run'.confirmedBy = run.confirmedBy /\ (run'.planOnly <=> run.planOnly)
    BY <1>2, <1>5 DEF PlaneRecord
  <2>3. RunGoesOn(Somebody) /\ RunSound' BY <1>1, <1>2, <2>1, <2>2 DEF RunGoesOn, RunSound, PlanIsOver
  <2>4. LogsGoOn BY <1>1, NoughtIsLeast DEF TerraformInvariant, TerraformTypeOK, LogsGoOn
  <2> QED BY <1>1, <1>3, <2>3, <2>4, PlaneActs
<1>6. \/ run' = [run EXCEPT !.ready = TRUE]
      \/ run.status = "planning" /\ \E s \in {"errored", "planned_and_finished"} : run' = [run EXCEPT !.status = s]
      \/ run.status = "planning" /\ ~run.planOnly
         /\ \E s \in {"planned_and_finished", "planned", "awaiting_confirmation"} : run' = [run EXCEPT !.status = s]
      \/ run.status = "planned" /\ run' = [run EXCEPT !.status = "awaiting_confirmation"]
      \/ run.status = "applying" /\ \E s \in {"applied", "errored"} : run' = [run EXCEPT !.status = s]
  BY DEF PlaneMoves, Moves
<1>7. {"errored", "planned_and_finished", "planned", "awaiting_confirmation", "applied"} \subseteq RunStatuses
  BY DEF RunStatuses, TERMINAL_STATUSES
<1>8. CASE \E s \in {"errored", "planned_and_finished"} : run.status = "planning" /\ run' = [run EXCEPT !.status = s]
  <2>1. PICK s \in {"errored", "planned_and_finished"} : run.status = "planning" /\ run' = [run EXCEPT !.status = s] BY <1>8
  <2>2. s \in RunStatuses BY <1>7, <2>1
  <2> QED BY <1>4, <2>1, <2>2
<1>9. CASE \E s \in {"planned_and_finished", "planned", "awaiting_confirmation"} :
             run.status = "planning" /\ ~run.planOnly /\ run' = [run EXCEPT !.status = s]
  <2>1. PICK s \in {"planned_and_finished", "planned", "awaiting_confirmation"} :
          run.status = "planning" /\ ~run.planOnly /\ run' = [run EXCEPT !.status = s]
    BY <1>9
  <2>2. s \in RunStatuses /\ (s \in {"errored", "planned_and_finished"} \/ s \in {"planned", "awaiting_confirmation"})
    BY <1>7, <2>1
  <2> QED BY <1>4, <2>1, <2>2
<1>10. CASE run.status = "planned" /\ run' = [run EXCEPT !.status = "awaiting_confirmation"] BY <1>4, <1>7, <1>10
<1>11. CASE \E s \in {"applied", "errored"} : run.status = "applying" /\ run' = [run EXCEPT !.status = s]
  <2>1. PICK s \in {"applied", "errored"} : run.status = "applying" /\ run' = [run EXCEPT !.status = s] BY <1>11
  <2>2. s \in RunStatuses BY <1>7, <2>1
  <2> QED BY <1>4, <2>1, <2>2
<1> QED BY <1>5, <1>6, <1>8, <1>9, <1>10, <1>11

LEMMA OtherPeopleKeeps == TerraformInvariant /\ OtherPeople => TerraformInvariant'
<1> SUFFICES ASSUME TerraformInvariant, OtherPeople PROVE TerraformInvariant' OBVIOUS
<1>1. UNCHANGED <<written, readable, terminal, variable, exposed>> BY DEF OtherPeople
<1>2. Somebody \notin Terminals BY DrainsTakeTwoPages
<1>3. CASE MayConfirm /\ Confirmed(Somebody) BY <1>1, <1>2, <1>3, RunIsConfirmed, PlaneActs
<1>4. CASE (MayDiscard /\ Discarded) \/ (MayCancel /\ Cancelled) BY <1>1, <1>2, <1>4, RunIsEnded, PlaneActs
<1> QED BY <1>3, <1>4 DEF OtherPeople

LEMMA PlaneWritesKeeps ==
    ASSUME TerraformInvariant, NEW p \in Phases, PlaneWrites(p)
    PROVE  TerraformInvariant'
<1>1. /\ run.status = (IF p = "plan" THEN "planning" ELSE "applying") /\ written' = [written EXCEPT ![p] = written[p] + 1]
      /\ UNCHANGED <<run, readable, terminal, variable, exposed>>
  BY DEF PlaneWrites
<1>2. \A q \in Phases : readable[q] \in Nat /\ written[q] \in Nat /\ readable[q] <= written[q]
  BY DEF TerraformInvariant, TerraformTypeOK, RunSound
<1>3. PICK n \in Nat : n = written[p] /\ written' = [written EXCEPT ![p] = n + 1] BY <1>1, <1>2
<1>4. n + 1 \in Nat /\ n <= n + 1 OBVIOUS
<1>5. written' \in [Phases -> Nat] /\ written'[p] = n + 1 /\ \A q \in Phases : q # p => written'[q] = written[q]
  BY <1>3, <1>4 DEF TerraformInvariant, TerraformTypeOK
<1>6. \A q \in Phases : written[q] <= written'[q] /\ readable[q] <= written'[q]
  BY <1>2, <1>3, <1>4, <1>5, NoughtIsLeast
<1>7. LogsGoOn BY <1>1, <1>2, <1>5, <1>6, NoughtIsLeast DEF LogsGoOn, TerraformInvariant, TerraformTypeOK
<1>8. RunGoesOn(Somebody) BY <1>1 DEF TerraformInvariant, TerraformTypeOK, RunGoesOn, PlanIsOver
<1>9. RunSound' BY <1>1, <1>6 DEF TerraformInvariant, RunSound, PlanIsOver
<1>10. Somebody \notin Terminals BY DrainsTakeTwoPages
<1> QED BY <1>1, <1>7, <1>8, <1>9, <1>10, PlaneActs

\* A command that ends with its own request, or with nothing asked.
LEMMA ActingExit ==
    ASSUME TerraformInvariant, NEW c \in Terminals,
           NEW outcome \in TerminalSayings,
           Exits(c, outcome), RunGoesOn(c), RunSound', UNCHANGED <<written, readable, variable, exposed>>,
           run'.confirmedBy = c => run.confirmedBy = c \/ (Is(c, "confirm") /\ PlanIsOver'),
           outcome = "applied" => run'.status = "applied", outcome = "discarded" => run'.status = "discarded",
           outcome = "no changes" => run'.status = "planned_and_finished"
    PROVE  TerraformInvariant'
<1>1. PICK t : t = terminal[c] OBVIOUS
<1>2. PICK x : x = [t EXCEPT !.at = "done", !.outcome = outcome] OBVIOUS
<1>3. terminal' = [terminal EXCEPT ![c] = x] BY <1>1, <1>2 DEF Exits, Shows
<1>4. x \in TerminalRecord /\ x.at = "done" /\ x.outcome = outcome /\ StatusSound(x) /\ PrintedSound(x) /\ DecisionSound(x, c)
  <2>1. t \in TerminalRecord BY <1>1, TerminalTyped
  <2>2. "done" \in TerminalStages BY DEF TerminalStages
  <2>3. x \in TerminalRecord BY <1>2, <2>1, <2>2 DEF TerminalRecord
  <2>4. /\ x.at = "done" /\ x.outcome = outcome /\ x.cmd = t.cmd /\ x.phase = t.phase /\ x.status = t.status
        /\ x.after = t.after /\ x.printed = t.printed /\ x.heard = t.heard /\ x.empty = t.empty /\ x.answer = t.answer
    BY <1>2, <2>1 DEF TerminalRecord
  <2>5. StatusSound(x) /\ PrintedSound(x) /\ DecisionSound(x, c) BY <1>1, <2>4, ExitIsSound
  <2> QED BY <2>3, <2>4, <2>5
<1>5. TerraformTypeOK /\ t \in TerminalRecord /\ DecisionSound(t, c) BY <1>1, TerminalTyped DEF TerraformInvariant
<1>6. LogsGoOn BY <1>5, NoughtIsLeast DEF TerraformTypeOK, LogsGoOn
<1>7. StatusSound(x)' /\ PrintedSound(x)' BY <1>4, <1>5, <1>6, ReadingStays
<1>8. DecisionSound(x, c)'
  <2>1. CASE run'.confirmedBy = c => run.confirmedBy = c BY <1>4, <1>5, <1>6, <2>1, TerminalStays
  <2>2. CASE Is(c, "confirm") /\ PlanIsOver'
    <3>1. t.at = "confirm" BY <1>1, <2>2 DEF Is
    <3>2. x.cmd = t.cmd /\ x.phase = t.phase /\ x.printed = t.printed /\ x.answer = t.answer BY <1>2, <1>5 DEF TerminalRecord
    <3>3. t.answer # "no" /\ (t.cmd = "apply" => t.printed["plan"] = written["plan"]) BY <1>5, <3>1 DEF DecisionSound
    <3>4. written' = written OBVIOUS
    <3> QED BY <1>4, <2>2, <3>2, <3>3, <3>4 DEF DecisionSound
  <2> QED BY <2>1, <2>2
<1>9. OutcomeTrue(x)' BY <1>4 DEF OutcomeTrue
<1>10. variable' \in [there : BOOLEAN, sensitive : BOOLEAN] /\ ~exposed' BY DEF TerraformInvariant, TerraformTypeOK
<1> QED BY <1>3, <1>4, <1>6, <1>7, <1>8, <1>9, <1>10, TerminalActs DEF TerminalSound

LEMMA QuietExit ==
    ASSUME TerraformInvariant, NEW c \in Terminals,
           NEW outcome \in TerminalSayings,
           Exits(c, outcome), UNCHANGED <<run, written, readable, variable, exposed>>,
           outcome = "applied" => run.status = "applied", outcome # "discarded",
           outcome = "no changes" => run.status = "planned_and_finished"
    PROVE  TerraformInvariant'
<1>1. RunGoesOn(c) /\ RunSound' BY RunStays
<1> QED BY <1>1, ActingExit

\* Both kinds of command start to follow the apply when it was confirmed.
LEMMA FollowsTheApply ==
    ASSUME TerraformInvariant, NEW c \in Terminals, NEW t, t = terminal[c], t.phase = "plan", t.at \in {"ended", "confirm"},
           Shows(c, [Follows(c, "apply") EXCEPT !.empty = 0]), RunGoesOn(c), RunSound', PlanIsOver',
           t.cmd = "apply" => t.printed["plan"] = written["plan"],
           UNCHANGED <<written, readable, variable, exposed>>
    PROVE  TerraformInvariant'
<1>1. t \in TerminalRecord /\ StatusSound(t) /\ PrintedSound(t) /\ DecisionSound(t, c) /\ TerraformTypeOK
  BY TerminalTyped DEF TerraformInvariant
<1>2. PICK f : f = [t EXCEPT !.at = "status", !.phase = "apply", !.after = 0, !.heard = 0] OBVIOUS
<1>3. PICK x : x = [f EXCEPT !.empty = 0] OBVIOUS
<1>4. terminal' = [terminal EXCEPT ![c] = x] BY <1>2, <1>3 DEF Shows, Follows
<1>5. PICK p \in Phases, n \in Int : p = "apply" /\ n = 0 /\ n \in Nat BY DEF Phases
<1>6. /\ f \in TerminalRecord /\ f.at = "status" /\ f.phase = "apply" /\ f.after = 0
      /\ f.cmd = t.cmd /\ f.status = t.status /\ f.printed = t.printed /\ f.answer = t.answer
  <2>1. f = [t EXCEPT !.at = "status", !.phase = p, !.after = n, !.heard = n] BY <1>2, <1>5
  <2>2. f \in TerminalRecord /\ f.at = "status" /\ f.phase = p /\ f.after = n
        /\ f.cmd = t.cmd /\ f.status = t.status /\ f.printed = t.printed /\ f.answer = t.answer
    <3>1. t \in TerminalRecord /\ n \in Nat BY <1>1, <1>5
    <3>2. "status" \in TerminalStages BY DEF TerminalStages
    <3>3. f \in TerminalRecord BY <2>1, <3>1, <3>2 DEF TerminalRecord
    <3>4. f.at = "status" /\ f.phase = p /\ f.after = n BY <2>1, <3>1 DEF TerminalRecord
    <3>5. f.cmd = t.cmd /\ f.status = t.status BY <2>1, <3>1 DEF TerminalRecord
    <3>6. f.printed = t.printed /\ f.answer = t.answer BY <2>1, <3>1 DEF TerminalRecord
    <3> QED BY <3>3, <3>4, <3>5, <3>6
  <2> QED BY <1>5, <2>2
<1>7. x \in TerminalRecord BY <1>3, <1>5, <1>6 DEF TerminalRecord
<1>8. /\ x.at = "status" /\ x.phase = "apply" /\ x.after = 0 /\ x.empty = 0
      /\ x.cmd = t.cmd /\ x.status = t.status /\ x.printed = t.printed /\ x.answer = t.answer
  BY <1>3, <1>6 DEF TerminalRecord
<1>9. LogsGoOn BY <1>1, NoughtIsLeast DEF TerraformTypeOK, LogsGoOn
<1>10. StatusSound(x)' BY <1>1, <1>8, <1>9, ReadingStays DEF StatusSound
<1>11. PrintedSound(x)' BY <1>1, <1>8 DEF PrintedSound
<1>12. DecisionSound(x, c)' BY <1>1, <1>8 DEF DecisionSound
<1>13. OutcomeTrue(x)' BY <1>8 DEF OutcomeTrue
<1>14. variable' \in [there : BOOLEAN, sensitive : BOOLEAN] /\ ~exposed' BY DEF TerraformInvariant, TerraformTypeOK
<1> QED BY <1>4, <1>7, <1>9, <1>10, <1>11, <1>12, <1>13, <1>14, TerminalActs DEF TerminalSound

\* A command goes on to another step of the same phase, none of which reads.
LEMMA StepsOn ==
    ASSUME TerraformInvariant, NEW c \in Terminals, NEW t, t = terminal[c], t.phase = "plan",
           NEW x \in TerminalRecord, terminal' = [terminal EXCEPT ![c] = x],
           UNCHANGED <<run, written, readable, variable, exposed>>,
           x.cmd = t.cmd, x.phase = t.phase, x.status = t.status, x.after = t.after, x.printed = t.printed,
           x.at \in {"prompt", "confirm", "recheck", "discard", "cancel"},
           t.at \notin {"idle", "done"},
           x.at # "cancel" /\ t.cmd = "apply" => t.printed["plan"] = written["plan"] /\ PlanIsOver,
           x.answer = "no" => x.at = "discard"
    PROVE  TerraformInvariant'
<1>1. StatusSound(t) /\ PrintedSound(t) /\ DecisionSound(t, c) BY TerminalTyped
<1>2. StatusSound(x) BY <1>1 DEF StatusSound
<1>3. PrintedSound(x) BY <1>1 DEF PrintedSound
<1>4. run.confirmedBy # c BY <1>1 DEF DecisionSound
<1>5. DecisionSound(x, c) BY <1>4 DEF DecisionSound
<1>6. OutcomeTrue(x) BY DEF OutcomeTrue
<1>7. variable' \in [there : BOOLEAN, sensitive : BOOLEAN] /\ ~exposed' BY DEF TerraformInvariant, TerraformTypeOK
<1> QED BY <1>2, <1>3, <1>5, <1>6, <1>7, TerminalGoesOn DEF TerminalSound

LEMMA FollowEndsKeeps ==
    ASSUME TerraformInvariant, NEW c \in Terminals, FollowEnds(c)
    PROVE  TerraformInvariant'
<1>1. PICK t : t = terminal[c] OBVIOUS
<1>2. t.at = "ended" /\ UNCHANGED <<run, written, readable, variable, exposed>> BY <1>1 DEF FollowEnds, Is, planeVars
<1>3. t \in TerminalRecord /\ StatusSound(t) /\ PrintedSound(t) /\ DecisionSound(t, c) BY <1>1, TerminalTyped
<1>4. t.status \in StopsAt(t) /\ t.printed[t.phase] = written[t.phase] BY <1>2, <1>3 DEF PrintedSound
<1>5. ASSUME NEW outcome \in {"applied", "failed", "ok", "no changes"}, Exits(c, outcome),
             outcome = "applied" => t.status = "applied", outcome = "no changes" => t.status = "planned_and_finished"
      PROVE  TerraformInvariant'
  BY <1>2, <1>3, <1>5, QuietExit DEF TerminalSayings, TERMINAL_STATUSES, StatusSound
<1>6. CASE t.phase = "apply" /\ Exits(c, IF t.status = "applied" THEN "applied" ELSE "failed") BY <1>5, <1>6
<1>7. CASE Exits(c, "ok") \/ Exits(c, "failed") BY <1>5, <1>7
<1>8. ASSUME t.phase = "plan", t.cmd = "apply",
             Shows(c, CASE t.status = "planned_and_finished" -> [t EXCEPT !.at = "done", !.outcome = "no changes"]
                        [] t.status \in APPLY_STATUSES -> [Follows(c, "apply") EXCEPT !.empty = 0]
                        [] t.status \in CONFIRMABLE_STATUSES -> [t EXCEPT !.at = IF t.auto THEN "confirm" ELSE "prompt", !.tries = 1, !.empty = 0]
                        [] OTHER -> [t EXCEPT !.at = "done", !.outcome = "failed"])
      PROVE  TerraformInvariant'
  <2>1. PlanIsOver /\ t.printed["plan"] = written["plan"] /\ t.answer # "no"
    BY <1>2, <1>3, <1>4, <1>8, StatusesDiffer DEF DecisionSound, StatusSound
  <2>2. CASE t.status = "planned_and_finished"
    BY <1>1, <1>5, <1>8, <2>2 DEF APPLY_STATUSES, CONFIRMABLE_STATUSES, Exits
  <2>3. CASE t.status \in APPLY_STATUSES
    <3>1. t.status # "planned_and_finished" BY <2>3 DEF APPLY_STATUSES
    <3>2. Shows(c, [Follows(c, "apply") EXCEPT !.empty = 0]) BY <1>8, <2>3, <3>1 DEF APPLY_STATUSES, CONFIRMABLE_STATUSES
    <3>3. RunGoesOn(c) /\ RunSound' BY <1>2, RunStays
    <3>4. PlanIsOver' BY <1>2, <2>1 DEF PlanIsOver
    <3> QED BY <1>1, <1>2, <1>8, <2>1, <3>2, <3>3, <3>4, FollowsTheApply
  <2>4. CASE t.status \in CONFIRMABLE_STATUSES
    <3>1. PICK place \in {"confirm", "prompt"} : place = IF t.auto THEN "confirm" ELSE "prompt" OBVIOUS
    <3>2. PICK x : x = [t EXCEPT !.at = place, !.tries = 1, !.empty = 0] OBVIOUS
    <3>3. terminal' = [terminal EXCEPT ![c] = x]
      BY <1>8, <2>4, <3>1, <3>2 DEF Shows, APPLY_STATUSES, CONFIRMABLE_STATUSES
    <3>4. place \in TerminalStages /\ 1 \in Nat /\ 0 \in Nat BY DEF TerminalStages
    <3>5. x \in TerminalRecord BY <1>3, <3>2, <3>4 DEF TerminalRecord
    <3>6. x.at = place /\ x.cmd = t.cmd /\ x.phase = t.phase /\ x.status = t.status /\ x.after = t.after /\ x.printed = t.printed
          /\ x.answer = t.answer
      BY <1>3, <3>2, <3>5 DEF TerminalRecord
    <3> QED BY <1>1, <1>2, <1>8, <2>1, <3>3, <3>5, <3>6, StepsOn
  <2>5. CASE t.status \notin {"planned_and_finished"} \cup APPLY_STATUSES \cup CONFIRMABLE_STATUSES
    <3>1. Exits(c, "failed") BY <1>1, <1>8, <2>5 DEF Exits
    <3> QED BY <1>5, <3>1
  <2> QED BY <2>2, <2>3, <2>4, <2>5
<1>9. \/ t.phase = "apply" /\ Exits(c, IF t.status = "applied" THEN "applied" ELSE "failed")
      \/ Exits(c, "ok") \/ Exits(c, "failed")
      \/ /\ t.phase = "plan" /\ t.cmd = "apply"
         /\ Shows(c, CASE t.status = "planned_and_finished" -> [t EXCEPT !.at = "done", !.outcome = "no changes"]
                       [] t.status \in APPLY_STATUSES -> [Follows(c, "apply") EXCEPT !.empty = 0]
                       [] t.status \in CONFIRMABLE_STATUSES -> [t EXCEPT !.at = IF t.auto THEN "confirm" ELSE "prompt", !.tries = 1, !.empty = 0]
                       [] OTHER -> [t EXCEPT !.at = "done", !.outcome = "failed"])
  BY <1>1 DEF FollowEnds
<1> QED BY <1>6, <1>7, <1>8, <1>9

LEMMA PromptKeeps ==
    ASSUME TerraformInvariant, NEW c \in Terminals, Prompt(c)
    PROVE  TerraformInvariant'
<1>1. PICK t : t = terminal[c] OBVIOUS
<1>2. PICK yes \in BOOLEAN :
        terminal' = [terminal EXCEPT ![c] = [t EXCEPT !.answer = IF yes THEN "yes" ELSE "no", !.at = IF yes THEN "confirm" ELSE "discard"]]
  BY <1>1 DEF Prompt, Shows
<1>3. PICK answer \in {"yes", "no"}, place \in {"confirm", "discard"} :
        /\ answer = (IF yes THEN "yes" ELSE "no") /\ place = (IF yes THEN "confirm" ELSE "discard")
        /\ answer = "no" => place = "discard"
  OBVIOUS
<1>4. PICK x : x = [t EXCEPT !.answer = answer, !.at = place] OBVIOUS
<1>5. terminal' = [terminal EXCEPT ![c] = x] BY <1>2, <1>3, <1>4
<1>6. t \in TerminalRecord /\ PrintedSound(t) /\ DecisionSound(t, c) BY <1>1, TerminalTyped
<1>7. t.at = "prompt" /\ UNCHANGED <<run, written, readable, variable, exposed>> BY <1>1 DEF Prompt, Is, planeVars
<1>8. t.phase = "plan" /\ (t.cmd = "apply" => t.printed["plan"] = written["plan"] /\ PlanIsOver)
  BY <1>6, <1>7 DEF PrintedSound, DecisionSound
<1>9. place \in TerminalStages BY DEF TerminalStages
<1>10. x \in TerminalRecord BY <1>4, <1>6, <1>9 DEF TerminalRecord
<1>11. x.at = place /\ x.answer = answer /\ x.cmd = t.cmd /\ x.phase = t.phase /\ x.status = t.status /\ x.after = t.after
       /\ x.printed = t.printed
  BY <1>4, <1>6 DEF TerminalRecord
<1> QED BY <1>1, <1>3, <1>5, <1>7, <1>8, <1>10, <1>11, StepsOn

LEMMA StillConfirmableKeeps ==
    ASSUME TerraformInvariant, NEW c \in Terminals, StillConfirmable(c)
    PROVE  TerraformInvariant'
<1>1. PICK t : t = terminal[c] OBVIOUS
<1>2. t \in TerminalRecord /\ PrintedSound(t) /\ DecisionSound(t, c) BY <1>1, TerminalTyped
<1>3. t.at = "recheck" /\ UNCHANGED <<run, written, readable, variable, exposed>> BY <1>1 DEF StillConfirmable, Is, planeVars
<1>4. CASE run.status \in CONFIRMABLE_STATUSES
  <2>1. PICK n \in Nat : n = t.tries BY <1>2 DEF TerminalRecord
  <2>2. PICK m \in Nat : m = n + 1 BY Counting
  <2>3. PICK x : x = [t EXCEPT !.at = "confirm", !.tries = m] OBVIOUS
  <2>4. terminal' = [terminal EXCEPT ![c] = x]
    BY <1>1, <1>4, <2>1, <2>2, <2>3 DEF StillConfirmable, Shows
  <2>5. "confirm" \in TerminalStages BY DEF TerminalStages
  <2>6. x \in TerminalRecord BY <1>2, <2>3, <2>5 DEF TerminalRecord
  <2>7. x.at = "confirm" /\ x.answer = t.answer /\ x.cmd = t.cmd /\ x.phase = t.phase /\ x.status = t.status /\ x.after = t.after
        /\ x.printed = t.printed
    BY <1>2, <2>3 DEF TerminalRecord
  <2>8. t.phase = "plan" /\ t.answer # "no" /\ (t.cmd = "apply" => t.printed["plan"] = written["plan"] /\ PlanIsOver)
    BY <1>2, <1>3 DEF PrintedSound, DecisionSound
  <2> QED BY <1>1, <1>3, <2>4, <2>6, <2>7, <2>8, StepsOn
<1>5. CASE run.status \notin CONFIRMABLE_STATUSES BY <1>3, <1>5, QuietExit DEF StillConfirmable, TerminalSayings
<1> QED BY <1>4, <1>5

LEMMA InterruptKeeps ==
    ASSUME TerraformInvariant, NEW c \in Terminals, Interrupt(c)
    PROVE  TerraformInvariant'
<1>1. PICK t : t = terminal[c] OBVIOUS
<1>2. t \in TerminalRecord /\ PrintedSound(t) /\ DecisionSound(t, c) BY <1>1, TerminalTyped
<1>3. t.at \in {"status", "page"} /\ UNCHANGED <<run, written, readable, variable, exposed>> BY <1>1 DEF Interrupt, planeVars
<1>4. CASE t.phase = "plan" /\ t.cmd \in {"plan", "apply"}
  <2>1. PICK x : x = [t EXCEPT !.at = "cancel"] OBVIOUS
  <2>2. terminal' = [terminal EXCEPT ![c] = x] BY <1>1, <1>4, <2>1 DEF Interrupt, Shows
  <2>3. "cancel" \in TerminalStages BY DEF TerminalStages
  <2>4. x \in TerminalRecord BY <1>2, <2>1, <2>3 DEF TerminalRecord
  <2>5. x.at = "cancel" /\ x.answer = t.answer /\ x.cmd = t.cmd /\ x.phase = t.phase /\ x.status = t.status /\ x.after = t.after
        /\ x.printed = t.printed
    BY <1>2, <2>1 DEF TerminalRecord
  <2>6. t.answer # "no" BY <1>2, <1>3 DEF DecisionSound
  <2> QED BY <1>1, <1>3, <1>4, <2>2, <2>4, <2>5, <2>6, StepsOn
<1>5. CASE ~(t.phase = "plan" /\ t.cmd \in {"plan", "apply"})
  BY <1>1, <1>3, <1>5, QuietExit DEF Interrupt, TerminalSayings
<1> QED BY <1>4, <1>5

LEMMA ConfirmKeeps ==
    ASSUME TerraformInvariant, NEW c \in Terminals, Confirm(c)
    PROVE  TerraformInvariant'
<1>1. PICK t : t = terminal[c] OBVIOUS
<1>2. t \in TerminalRecord /\ PrintedSound(t) /\ DecisionSound(t, c) BY <1>1, TerminalTyped
<1>3. t.at = "confirm" /\ UNCHANGED <<written, readable, variable, exposed>> BY <1>1 DEF Confirm, Is
<1>4. t.phase = "plan" /\ t.answer # "no" /\ (t.cmd = "apply" => t.printed["plan"] = written["plan"] /\ PlanIsOver)
  BY <1>2, <1>3 DEF PrintedSound, DecisionSound
<1>5. "error" \in TerminalSayings BY DEF TerminalSayings
<1>6. ASSUME MayConfirm, Confirmed(c)
      PROVE  RunGoesOn(c) /\ RunSound' /\ PlanIsOver'
  BY <1>3, <1>6, RunIsConfirmed DEF PlanIsOver
<1>7. CASE MayConfirm /\ Confirmed(c) /\ Shows(c, [Follows(c, "apply") EXCEPT !.empty = 0])
  BY <1>1, <1>3, <1>4, <1>6, <1>7, FollowsTheApply
<1>8. CASE MayConfirm /\ Confirmed(c) /\ Exits(c, "error") BY <1>3, <1>5, <1>6, <1>8, ActingExit DEF Confirm
<1>9. CASE UNCHANGED run /\ Exits(c, "error") BY <1>3, <1>5, <1>9, QuietExit
<1>10. CASE Shows(c, [t EXCEPT !.at = "recheck"]) /\ UNCHANGED run
  <2>1. PICK x : x = [t EXCEPT !.at = "recheck"] OBVIOUS
  <2>2. terminal' = [terminal EXCEPT ![c] = x] BY <1>10, <2>1 DEF Shows
  <2>3. "recheck" \in TerminalStages BY DEF TerminalStages
  <2>4. x \in TerminalRecord BY <1>2, <2>1, <2>3 DEF TerminalRecord
  <2>5. x.at = "recheck" /\ x.answer = t.answer /\ x.cmd = t.cmd /\ x.phase = t.phase /\ x.status = t.status /\ x.after = t.after
        /\ x.printed = t.printed
    BY <1>2, <2>1 DEF TerminalRecord
  <2> QED BY <1>1, <1>3, <1>4, <1>10, <2>2, <2>4, <2>5, StepsOn
<1> QED BY <1>1, <1>7, <1>8, <1>9, <1>10 DEF Confirm

LEMMA DiscardKeeps ==
    ASSUME TerraformInvariant, NEW c \in Terminals, Discard(c)
    PROVE  TerraformInvariant'
<1>1. UNCHANGED <<written, readable, variable, exposed>> BY DEF Discard
<1>2. PICK outcome \in {"discarded", "error"} :
        /\ Exits(c, outcome) /\ (outcome = "discarded" => MayDiscard)
        /\ IF MayDiscard THEN Discarded ELSE UNCHANGED run
  <2>1. PICK heard \in BOOLEAN : /\ IF MayDiscard THEN Discarded ELSE UNCHANGED run
                                 /\ Exits(c, IF MayDiscard /\ heard THEN "discarded" ELSE "error")
    BY DEF Discard, SaysDiscarded
  <2>2. CASE MayDiscard /\ heard BY <2>1, <2>2
  <2>3. CASE ~(MayDiscard /\ heard) BY <2>1, <2>3
  <2> QED BY <2>2, <2>3
<1>3. outcome \in TerminalSayings /\ outcome \notin {"applied", "no changes"} BY DEF TerminalSayings
<1>4. CASE MayDiscard BY <1>1, <1>2, <1>3, <1>4, RunIsEnded, ActingExit
<1>5. CASE ~MayDiscard BY <1>1, <1>2, <1>3, <1>5, QuietExit
<1> QED BY <1>4, <1>5

LEMMA CancelKeeps ==
    ASSUME TerraformInvariant, NEW c \in Terminals, CancelAfterInterrupt(c)
    PROVE  TerraformInvariant'
<1>1. Exits(c, "cancelled") /\ UNCHANGED <<written, readable, variable, exposed>> /\ ((MayCancel /\ Cancelled) \/ UNCHANGED run)
  BY DEF CancelAfterInterrupt
<1>2. "cancelled" \in TerminalSayings BY DEF TerminalSayings
<1>3. CASE MayCancel /\ Cancelled BY <1>1, <1>2, <1>3, RunIsEnded, ActingExit
<1>4. CASE UNCHANGED run BY <1>1, <1>2, <1>4, QuietExit
<1> QED BY <1>1, <1>3, <1>4

\* The commands on a variable touch no run.
LEMMA VariableKeeps ==
    ASSUME TerraformInvariant, NEW c \in Terminals,
           PutVariable(c) \/ UnsetVariable(c) \/ \E sensitive \in BOOLEAN : ReadVariable(c, sensitive)
    PROVE  TerraformInvariant'
<1>1. UNCHANGED <<run, written, readable>> BY DEF PutVariable, UnsetVariable, ReadVariable, planeVars
<1>2. PICK t : t = terminal[c] OBVIOUS
<1>3. t \in TerminalRecord /\ variable \in [there : BOOLEAN, sensitive : BOOLEAN] BY <1>2, TerminalTyped
<1>4. ~exposed BY DEF TerraformInvariant
<1>5. CASE PutVariable(c)
  <2>1. PICK x : x = [t EXCEPT !.at = "done", !.outcome = "ok"] OBVIOUS
  <2>2. terminal' = [terminal EXCEPT ![c] = x] BY <1>2, <1>5, <2>1 DEF PutVariable, Exits, Shows
  <2>3. "done" \in TerminalStages /\ "ok" \in TerminalSayings BY DEF TerminalStages, TerminalSayings
  <2>4. x \in TerminalRecord BY <1>3, <2>1, <2>3 DEF TerminalRecord
  <2>5. /\ x.at = "done" /\ x.outcome = "ok" /\ x.cmd = t.cmd /\ x.phase = t.phase /\ x.status = t.status
        /\ x.after = t.after /\ x.printed = t.printed /\ x.heard = t.heard /\ x.empty = t.empty /\ x.answer = t.answer
    BY <1>3, <2>1 DEF TerminalRecord
  <2>6. StatusSound(x) /\ PrintedSound(x) /\ DecisionSound(x, c) BY <1>2, <2>5, ExitIsSound
  <2>7. OutcomeTrue(x) BY <2>5 DEF OutcomeTrue
  <2>8. variable' \in [there : BOOLEAN, sensitive : BOOLEAN]
    BY <1>2, <1>3, <1>5 DEF TerminalRecord, PutVariable, KeptSensitive
  <2>9. ~exposed'
    <3>1. exposed' <=> exposed \/ (t.sensitive /\ ~t.sensitive) BY <1>2, <1>5, Zenon DEF PutVariable, KeptSensitive
    <3> QED BY <1>4, <3>1
  <2> QED BY <1>1, <2>2, <2>4, <2>6, <2>7, <2>8, <2>9, TerminalGoesOn DEF TerminalSound
<1>6. CASE UnsetVariable(c)
  <2>1. PICK outcome \in {"ok", "error"} : outcome = IF variable.there THEN "ok" ELSE "error" OBVIOUS
  <2>2. PICK x : x = [t EXCEPT !.cmd = "unset", !.at = "done", !.outcome = outcome] OBVIOUS
  <2>3. terminal' = [terminal EXCEPT ![c] = x] BY <1>2, <1>6, <2>1, <2>2 DEF UnsetVariable, Shows
  <2>4. t.at = "idle" BY <1>2, <1>6 DEF UnsetVariable, Is
  <2>5. /\ t.phase = "plan" /\ t.status = "" /\ t.after = 0 /\ t.empty = 0
        /\ t.printed = [p \in Phases |-> 0] /\ t.answer = "none"
    BY <1>2, <2>4, IdleIsNew
  <2>6. "done" \in TerminalStages /\ outcome \in TerminalSayings /\ "unset" \in TerminalCommands
    BY DEF TerminalStages, TerminalSayings, TerminalCommands
  <2>7. x \in TerminalRecord BY <1>3, <2>2, <2>6 DEF TerminalRecord
  <2>8. /\ x.at = "done" /\ x.outcome = outcome /\ x.phase = t.phase /\ x.status = t.status
        /\ x.after = t.after /\ x.printed = t.printed /\ x.empty = t.empty /\ x.answer = t.answer
    BY <1>3, <2>2 DEF TerminalRecord
  <2>9. TerminalSound(x, c) BY <1>2, <2>4, <2>5, <2>7, <2>8, BeginningIsSound
  <2>10. variable' \in [there : BOOLEAN, sensitive : BOOLEAN] /\ ~exposed' BY <1>4, <1>6 DEF UnsetVariable
  <2> QED BY <1>1, <2>3, <2>7, <2>9, <2>10, TerminalGoesOn
<1>7. ASSUME NEW sensitive \in BOOLEAN, ReadVariable(c, sensitive) PROVE TerraformInvariant'
  <2>1. PICK kept \in BOOLEAN : kept = (sensitive \/ variable.sensitive) OBVIOUS
  <2>2. PICK x : x = [t EXCEPT !.at = "put", !.cmd = "set", !.sensitive = kept] OBVIOUS
  <2>3. terminal' = [terminal EXCEPT ![c] = x] BY <1>2, <1>7, <2>1, <2>2, Zenon DEF ReadVariable, Shows
  <2>4. t.at = "idle" /\ UNCHANGED <<variable, exposed>> BY <1>2, <1>7 DEF ReadVariable, Is
  <2>5. /\ t.phase = "plan" /\ t.status = "" /\ t.after = 0 /\ t.empty = 0
        /\ t.printed = [p \in Phases |-> 0] /\ t.answer = "none" /\ t.outcome = ""
    BY <1>2, <2>4, IdleIsNew
  <2>6. "put" \in TerminalStages /\ "set" \in TerminalCommands BY DEF TerminalStages, TerminalCommands
  <2>7. x \in TerminalRecord BY <1>3, <2>2, <2>6 DEF TerminalRecord
  <2>8. /\ x.at = "put" /\ x.outcome = t.outcome /\ x.phase = t.phase /\ x.status = t.status
        /\ x.after = t.after /\ x.printed = t.printed /\ x.empty = t.empty /\ x.answer = t.answer
    BY <1>3, <2>2 DEF TerminalRecord
  <2>9. TerminalSound(x, c) BY <1>2, <2>4, <2>5, <2>7, <2>8, BeginningIsSound
  <2> QED BY <1>1, <1>3, <1>4, <2>3, <2>4, <2>7, <2>9, TerminalGoesOn
<1> QED BY <1>5, <1>6, <1>7

LEMMA StartRunKeeps ==
    ASSUME TerraformInvariant, NEW c \in Terminals, NEW cmd \in {"plan", "apply"}, StartRun(c, cmd)
    PROVE  TerraformInvariant'
<1>1. PICK t : t = terminal[c] OBVIOUS
<1>2. run = NoRun /\ t.at = "idle" /\ UNCHANGED <<written, readable, variable, exposed>> BY <1>1 DEF StartRun, Is
<1>3. PICK created \in BOOLEAN, heard \in BOOLEAN, auto \in {FALSE, cmd = "apply"} :
        /\ run' = IF created THEN [NoRun EXCEPT !.status = "planning", !.planOnly = (cmd = "plan")] ELSE run
        /\ terminal' = [terminal EXCEPT ![c] =
             IF created /\ heard
             THEN [[t EXCEPT !.at = "status", !.phase = "plan", !.after = 0, !.heard = 0] EXCEPT !.cmd = cmd, !.auto = auto]
             ELSE [t EXCEPT !.at = "done", !.cmd = cmd, !.outcome = "error"]]
  BY <1>1 DEF StartRun, Shows, Follows
<1>4. TerraformTypeOK /\ run \in PlaneRecord /\ RunSound BY DEF TerraformInvariant, TerraformTypeOK
<1>5. run.status = "none" /\ run.confirmedBy = Unasked BY <1>2 DEF NoRun
<1>6. run' \in PlaneRecord /\ run'.confirmedBy = Unasked /\ run'.status \in {"none", "planning"}
  <2>1. CASE created
    <3>1. PICK only \in BOOLEAN : only = (cmd = "plan") OBVIOUS
    <3>2. run' = [status |-> "planning", planOnly |-> only, ready |-> FALSE, confirmedBy |-> Unasked]
      BY <1>3, <2>1, <3>1, Zenon DEF NoRun
    <3>3. "planning" \in RunStatuses BY DEF RunStatuses
    <3> QED BY <3>2, <3>3 DEF PlaneRecord
  <2>2. CASE ~created BY <1>3, <1>4, <1>5, <2>2
  <2> QED BY <2>1, <2>2
<1>7. RunGoesOn(c) BY <1>5, <1>6, StatusesDiffer DEF PlanIsOver, RunGoesOn
<1>8. RunSound' BY <1>2, <1>4, <1>6 DEF APPLY_STATUSES, RunSound
<1>9. LogsGoOn BY <1>2, <1>4, NoughtIsLeast DEF TerraformTypeOK, LogsGoOn
<1>10. t \in TerminalRecord /\ variable \in [there : BOOLEAN, sensitive : BOOLEAN] BY <1>1, TerminalTyped
<1>11. /\ t.phase = "plan" /\ t.status = "" /\ t.after = 0 /\ t.empty = 0
       /\ t.printed = [p \in Phases |-> 0] /\ t.answer = "none" /\ t.outcome = ""
  BY <1>1, <1>2, IdleIsNew
<1>12. ASSUME NEW x \in TerminalRecord, terminal' = [terminal EXCEPT ![c] = x], x.phase = "plan", x.status = t.status, x.after = 0,
              x.printed = t.printed, x.empty = t.empty, x.answer = t.answer, x.at \in {"status", "done"}, x.outcome \in {"", "error"}
       PROVE  TerraformInvariant'
  <2>1. TerminalSound(x, c) /\ run.confirmedBy # c
    <3>1. terminal[c].at = "idle" BY <1>1, <1>2
    <3>2. x.status = "" /\ x.printed = [p \in Phases |-> 0] /\ x.empty = 0 /\ x.answer # "no" BY <1>11, <1>12
    <3>3. x.at \notin {"idle", "page", "ended", "prompt", "recheck"} /\ x.at # "confirm" /\ x.outcome \in {"", "error", "ok"}
      BY <1>12
    <3> QED BY <1>12, <3>1, <3>2, <3>3, BeginningIsSound
  <2>2. run'.confirmedBy = c => run.confirmedBy = c BY <1>5, <1>6
  <2>3. TerminalSound(x, c)' BY <1>4, <1>7, <1>9, <2>1, <2>2, TerminalStays DEF TerminalSound
  <2>4. ~exposed' /\ variable' \in [there : BOOLEAN, sensitive : BOOLEAN] BY <1>2, <1>10 DEF TerraformInvariant
  <2> QED BY <1>7, <1>8, <1>9, <1>12, <2>3, <2>4, TerminalActs
<1>13. cmd \in TerminalCommands BY DEF TerminalCommands
<1>14. CASE created /\ heard
  <2>1. PICK f : f = [t EXCEPT !.at = "status", !.phase = "plan", !.after = 0, !.heard = 0] OBVIOUS
  <2>2. PICK x : x = [f EXCEPT !.cmd = cmd, !.auto = auto] OBVIOUS
  <2>3. terminal' = [terminal EXCEPT ![c] = x] BY <1>3, <1>14, <2>1, <2>2, Zenon
  <2>4. PICK p \in Phases, n \in Int : p = "plan" /\ n = 0 /\ n \in Nat BY DEF Phases
  <2>6. f = [t EXCEPT !.at = "status", !.phase = p, !.after = n, !.heard = n] BY <2>1, <2>4
  <2>7. f \in TerminalRecord BY <1>10, <2>4, <2>6 DEF TerminalStages, TerminalRecord
  <2>8. /\ f.at = "status" /\ f.phase = "plan" /\ f.after = 0 /\ f.status = t.status /\ f.printed = t.printed
        /\ f.empty = t.empty /\ f.answer = t.answer /\ f.outcome = t.outcome
    <3>1. t \in TerminalRecord BY <1>10
    <3>2. f.at = "status" /\ f.phase = p /\ f.after = n BY <2>6, <3>1 DEF TerminalRecord
    <3>3. f.status = t.status /\ f.printed = t.printed BY <2>6, <3>1 DEF TerminalRecord
    <3>4. f.empty = t.empty /\ f.answer = t.answer /\ f.outcome = t.outcome BY <2>6, <3>1 DEF TerminalRecord
    <3> QED BY <2>4, <3>2, <3>3, <3>4
  <2>9. auto \in BOOLEAN OBVIOUS
  <2>10. x \in TerminalRecord BY <1>13, <2>2, <2>7, <2>9 DEF TerminalRecord
  <2>11. /\ x.at = f.at /\ x.phase = f.phase /\ x.after = f.after /\ x.status = f.status /\ x.printed = f.printed
         /\ x.empty = f.empty /\ x.answer = f.answer /\ x.outcome = f.outcome
    BY <2>2, <2>7 DEF TerminalRecord
  <2> QED BY <1>11, <1>12, <2>3, <2>8, <2>10, <2>11
<1>15. CASE ~(created /\ heard)
  <2>1. PICK x : x = [t EXCEPT !.at = "done", !.cmd = cmd, !.outcome = "error"] OBVIOUS
  <2>2. terminal' = [terminal EXCEPT ![c] = x] BY <1>3, <1>15, <2>1, Zenon
  <2>3. "done" \in TerminalStages /\ "error" \in TerminalSayings BY DEF TerminalStages, TerminalSayings
  <2>4. x \in TerminalRecord BY <1>10, <1>13, <2>1, <2>3 DEF TerminalRecord
  <2>5. /\ x.at = "done" /\ x.phase = t.phase /\ x.after = t.after /\ x.status = t.status /\ x.printed = t.printed
        /\ x.empty = t.empty /\ x.answer = t.answer /\ x.outcome = "error"
    BY <1>10, <2>1 DEF TerminalRecord
  <2> QED BY <1>11, <1>12, <2>2, <2>4, <2>5
<1> QED BY <1>14, <1>15

\* A page goes on from the cursor, never past what is seen; one that is empty has
\* reached it.
LEMMA PagesGoOn ==
    ASSUME NEW after \in Int, NEW seen \in Int, NEW lines \in Nat \ {0}, after <= seen, NEW n,
           n = IF seen - after > lines THEN lines ELSE seen - after
    PROVE  n \in Nat /\ after + n \in Int /\ after <= after + n /\ after + n <= seen /\ (~(n > 0) => after + n = seen)
<1>1. CASE seen - after > lines BY <1>1
<1>2. CASE ~(seen - after > lines) BY <1>2
<1> QED BY <1>1, <1>2

LEMMA DrainsAgain ==
    ASSUME NEW empty \in Nat
    PROVE  empty + 1 \in Nat /\ (empty + 1 >= DrainEmptyPages => empty > 0) /\ ~(0 >= DrainEmptyPages)
<1>1. DrainEmptyPages \in Nat /\ DrainEmptyPages # 0 /\ DrainEmptyPages # 1 BY DrainsTakeTwoPages
<1> QED BY <1>1

LEMMA ReadPageKeeps ==
    ASSUME TerraformInvariant, NEW c \in Terminals, ReadPage(c)
    PROVE  TerraformInvariant'
<1>1. PICK t : t = terminal[c] OBVIOUS
<1>2. t \in TerminalRecord /\ StatusSound(t) /\ PrintedSound(t) /\ DecisionSound(t, c) BY <1>1, TerminalTyped
<1>3. t.at = "page" /\ UNCHANGED <<run, written, variable, exposed>> BY <1>1 DEF ReadPage, Is, planeVars
<1>4. TerraformTypeOK /\ RunSound BY DEF TerraformInvariant
<1>5. PICK p \in Phases : p = t.phase BY <1>2 DEF TerminalRecord
<1>6. PICK after \in Int, printed \in [Phases -> Int], most \in Nat, low \in Nat, empty \in Nat :
        after = t.after /\ printed = t.printed /\ most = written[p] /\ low = readable[p] /\ empty = t.empty
  BY <1>2, <1>4 DEF TerminalRecord, TerraformTypeOK
<1>7. printed[p] = after /\ after <= low /\ 0 <= after BY <1>2, <1>5, <1>6 DEF PrintedSound
<1>8. PICK ended \in BOOLEAN : ended <=> t.status \in StopsAt(t) OBVIOUS
<1> DEFINE r == terminal[c]
           taken(at) == IF at - r.after > PageLines THEN PageLines ELSE at - r.after
           drained(at) == IF taken(at) > 0 THEN 0 ELSE r.empty + 1
           stops == r.status \in Until(c)
           page(at) == [r EXCEPT !.after = r.after + taken(at), !.printed[r.phase] = r.printed[r.phase] + taken(at),
                                 !.heard = written[r.phase], !.empty = IF stops THEN drained(at) ELSE 0]
           screen(at) == [page(at) EXCEPT !.at = IF ~stops THEN "status" ELSE IF drained(at) >= DrainEmptyPages THEN "ended" ELSE "page"]
<1>0. PICK seen \in readable[r.phase] .. written[r.phase] :
        /\ seen >= r.heard /\ readable' = [readable EXCEPT ![r.phase] = seen]
        /\ terminal' = [terminal EXCEPT ![c] = screen(seen)]
  BY Zenon DEF ReadPage, Shows, Cursor, Enough
<1> PICK n : n = IF seen - after > PageLines THEN PageLines ELSE seen - after OBVIOUS
<1> PICK got : got = IF n > 0 THEN 0 ELSE empty + 1 OBVIOUS
<1> PICK x : x = screen(seen) OBVIOUS
<1> PICK y : y = page(seen) OBVIOUS
<1>01. r = t /\ r.phase = p /\ r.after = after /\ r.printed = printed /\ written[r.phase] = most /\ readable[r.phase] = low
       /\ r.empty = empty /\ r.heard = t.heard
  BY <1>1, <1>5, <1>6
<1>02. taken(seen) = n /\ drained(seen) = got BY <1>01
<1>03. stops <=> ended
  <2>1. Until(c) = StopsAt(t) BY <1>1 DEF Until, StopsAt
  <2> QED BY <1>8, <1>01, <2>1, Zenon
<1> HIDE DEF r, taken, drained, stops
<1>04. y = [t EXCEPT !.after = after + n, !.printed[p] = printed[p] + n, !.heard = most, !.empty = IF stops THEN got ELSE 0]
  BY <1>01, <1>02, Zenon
<1>05. x = [y EXCEPT !.at = IF ~stops THEN "status" ELSE IF got >= DrainEmptyPages THEN "ended" ELSE "page"]
  BY <1>02, Zenon
<1> HIDE DEF page, screen
<1>9. /\ seen \in low .. most /\ seen >= t.heard /\ readable' = [readable EXCEPT ![p] = seen]
      /\ terminal' = [terminal EXCEPT ![c] = x]
  BY <1>0, <1>01, Zenon
<1>10. seen \in Nat /\ low <= seen /\ seen <= most /\ after <= seen BY <1>6, <1>7, <1>9
<1>11. n \in Nat /\ after + n \in Int /\ after <= after + n /\ after + n <= seen /\ (~(n > 0) => after + n = seen)
  BY <1>10, PagesGoOn, DrainsTakeTwoPages
<1>12. got \in Nat /\ (got >= DrainEmptyPages => ~(n > 0) /\ empty > 0)
  <2>1. CASE n > 0 BY <2>1, DrainsAgain
  <2>2. CASE ~(n > 0) BY <1>6, <2>2, DrainsAgain
  <2> QED BY <2>1, <2>2
<1>13. PICK place \in {"status", "ended", "page"}, count \in Nat :
         /\ place = IF ~ended THEN "status" ELSE IF got >= DrainEmptyPages THEN "ended" ELSE "page"
         /\ count = IF ended THEN got ELSE 0
  <2>1. (IF ended THEN got ELSE 0) \in Nat BY <1>12
  <2> QED BY <2>1
<1>14. PICK cursor \in Int, lines \in [Phases -> Int] :
         /\ cursor = after + n /\ lines = [printed EXCEPT ![p] = cursor]
  <2>1. after + n \in Int BY <1>11
  <2> QED BY <1>6, <2>1
<1>15. y = [t EXCEPT !.after = cursor, !.printed = lines, !.heard = most, !.empty = count] /\ x = [y EXCEPT !.at = place]
  <2>1. printed[p] + n = cursor /\ after + n = cursor BY <1>7, <1>14
  <2>2. count = (IF stops THEN got ELSE 0) BY <1>03, <1>13
  <2>3. place = (IF ~stops THEN "status" ELSE IF got >= DrainEmptyPages THEN "ended" ELSE "page") BY <1>03, <1>13
  <2>4. y = [t EXCEPT !.after = cursor, !.printed[p] = cursor, !.heard = most, !.empty = count] BY <1>04, <2>1, <2>2, Zenon
  <2>5. lines = [t.printed EXCEPT ![p] = cursor] BY <1>6, <1>14
  <2>6. y = [t EXCEPT !.after = cursor, !.printed = lines, !.heard = most, !.empty = count] BY <1>2, <2>4, <2>5 DEF TerminalRecord
  <2>7. x = [y EXCEPT !.at = place] BY <1>05, <2>3, Zenon
  <2> QED BY <2>6, <2>7
<1>16. place \in TerminalStages BY DEF TerminalStages
<1>17. y \in TerminalRecord /\ x \in TerminalRecord
  <2>1. y \in TerminalRecord BY <1>2, <1>15 DEF TerminalRecord
  <2> QED BY <1>15, <1>16, <2>1 DEF TerminalRecord
<1>18. /\ x.at = place /\ x.cmd = t.cmd /\ x.phase = t.phase /\ x.status = t.status /\ x.after = cursor /\ x.printed = lines
       /\ x.heard = most /\ x.empty = count /\ x.answer = t.answer
  <2>1. /\ y.cmd = t.cmd /\ y.phase = t.phase /\ y.status = t.status /\ y.after = cursor /\ y.printed = lines
        /\ y.heard = most /\ y.empty = count /\ y.answer = t.answer
    BY <1>2, <1>15 DEF TerminalRecord
  <2> QED BY <1>15, <1>17, <2>1 DEF TerminalRecord
<1>19. readable' \in [Phases -> Nat] /\ readable'[p] = seen /\ \A q \in Phases : q # p => readable'[q] = readable[q]
  BY <1>4, <1>9, <1>10 DEF TerraformTypeOK
<1>20. LogsGoOn BY <1>3, <1>4, <1>6, <1>10, <1>19, NoughtIsLeast DEF TerraformTypeOK, LogsGoOn
<1>21. RunGoesOn(c) BY <1>3, <1>4 DEF TerraformTypeOK, RunGoesOn, PlanIsOver
<1>22. RunSound' BY <1>3, <1>4, <1>6, <1>10, <1>19 DEF RunSound, PlanIsOver
<1>23. StatusSound(x)' BY <1>2, <1>3, <1>18 DEF StatusSound, PlanIsOver
<1>24. lines[p] = cursor /\ \A q \in Phases : q # p => lines[q] = printed[q] BY <1>14
<1>25. PrintedSound(x)'
  <2>1. x.printed[x.phase] = x.after /\ (x.phase = "plan" => x.printed["apply"] = 0)
    BY <1>2, <1>5, <1>6, <1>18, <1>24 DEF PrintedSound, Phases
  <2>2. \A q \in Phases : 0 <= x.printed[q] /\ x.printed[q] <= readable'[q]
    <3>1. ASSUME NEW q \in Phases, q # p PROVE 0 <= x.printed[q] /\ x.printed[q] <= readable'[q]
      BY <1>2, <1>6, <1>18, <1>19, <1>24, <3>1 DEF PrintedSound
    <3>2. 0 <= cursor /\ cursor <= seen BY <1>7, <1>10, <1>11, <1>14
    <3> QED BY <1>18, <1>19, <1>24, <3>1, <3>2
  <2>3. StopsAt(x)' = StopsAt(t) BY <1>18 DEF StopsAt
  <2>4. place # "status" => ended BY <1>13
  <2>5. place = "status" => count = 0 BY <1>13
  <2>6. place = "ended" => lines[p] = most
    <3>1. SUFFICES ASSUME place = "ended" PROVE cursor = most BY <1>24
    <3>2. got >= DrainEmptyPages BY <1>13, <3>1
    <3>3. ~(n > 0) /\ empty > 0 BY <1>12, <3>2
    <3>4. t.heard = most BY <1>2, <1>3, <1>5, <1>6, <3>3 DEF PrintedSound
    <3>5. seen = most BY <1>6, <1>9, <1>10, <3>4
    <3> QED BY <1>11, <1>14, <3>3, <3>5
  <2>7. written'[x.phase] = most /\ x.phase = p BY <1>3, <1>5, <1>6, <1>18
  <2>8. x.status \in StopsAt(x)' <=> ended BY <1>8, <1>18, <2>3
  <2>9. x.at = "status" => x.empty = 0 BY <1>18, <2>5
  <2>10. x.at = "page" /\ x.empty > 0 => x.status \in StopsAt(x)' /\ x.heard = written'[x.phase] BY <1>18, <2>4, <2>7, <2>8
  <2>11. x.at = "ended" => x.status \in StopsAt(x)' /\ x.printed[x.phase] = written'[x.phase] BY <1>18, <2>4, <2>6, <2>7, <2>8
  <2>12. x.at \notin {"prompt", "confirm", "recheck"} BY <1>18
  <2> QED BY <2>1, <2>2, <2>9, <2>10, <2>11, <2>12 DEF PrintedSound
<1>26. DecisionSound(x, c)'
  <2>1. t.printed["plan"] = written["plan"] /\ t.cmd = "apply" /\ t.phase = "apply" => lines["plan"] = written["plan"]
    BY <1>5, <1>6, <1>24 DEF Phases
  <2>2. run.confirmedBy = c => t.phase = "apply" BY <1>2, <1>3 DEF DecisionSound
  <2>3. t.answer # "no" BY <1>2, <1>3 DEF DecisionSound
  <2>4. x.at \notin {"prompt", "confirm", "recheck", "idle"} BY <1>18
  <2>5. t.cmd = "apply" /\ t.phase = "apply" => t.printed["plan"] = written["plan"] /\ PlanIsOver BY <1>2 DEF DecisionSound
  <2> QED BY <1>3, <1>18, <2>1, <2>2, <2>3, <2>4, <2>5 DEF DecisionSound, PlanIsOver
<1>27. OutcomeTrue(x)' BY <1>18 DEF OutcomeTrue
<1>28. variable' \in [there : BOOLEAN, sensitive : BOOLEAN] /\ ~exposed' BY <1>3, <1>4 DEF TerraformInvariant, TerraformTypeOK
<1> QED BY <1>9, <1>17, <1>20, <1>21, <1>22, <1>23, <1>25, <1>26, <1>27, <1>28, TerminalActs DEF TerminalSound

LEMMA TerraformStart == TerraformInit => TerraformInvariant
<1> SUFFICES ASSUME TerraformInit PROVE TerraformInvariant OBVIOUS
<1>1. PICK n \in Nat, m \in Int : n = 0 /\ m = 0 OBVIOUS
<1>2. PICK none : none = [p \in Phases |-> 0] OBVIOUS
<1>3. none \in [Phases -> Nat] /\ none \in [Phases -> Int] /\ \A p \in Phases : none[p] = 0 BY <1>2
<1>4. run = NoRun /\ written = none /\ readable = none /\ ~exposed /\ \A c \in Terminals : terminal[c] = NewTerminal
  BY <1>2 DEF TerraformInit
<1>5. NewTerminal = [at |-> "idle", cmd |-> "", auto |-> FALSE, phase |-> "plan", status |-> "", after |-> m, printed |-> none,
                     heard |-> n, empty |-> n, tries |-> n, answer |-> "none", outcome |-> "", sensitive |-> FALSE]
  BY <1>1, <1>2 DEF NewTerminal
<1>6. NewTerminal \in TerminalRecord
  <2>1. "idle" \in TerminalStages /\ "" \in TerminalCommands /\ "" \in TerminalSayings /\ "plan" \in Phases
    BY DEF TerminalStages, TerminalCommands, TerminalSayings, Phases
  <2> QED BY <1>3, <1>5, <2>1 DEF TerminalRecord
<1>7. terminal \in [Terminals -> TerminalRecord] BY <1>6 DEF TerraformInit
<1>8. run \in PlaneRecord BY <1>4 DEF RunStatuses, NoRun, PlaneRecord
<1>9. variable \in [there : BOOLEAN, sensitive : BOOLEAN] BY DEF TerraformInit
<1>10. TerraformTypeOK BY <1>3, <1>4, <1>7, <1>8, <1>9 DEF TerraformTypeOK
<1>11. RunSound BY <1>3, <1>4, NoughtIsLeast DEF NoRun, RunSound, APPLY_STATUSES
<1>12. ASSUME NEW c \in Terminals PROVE TerminalSound(terminal[c], c)
  <2>1. PICK t : t = NewTerminal OBVIOUS
  <2>2. /\ t.at = "idle" /\ t.phase = "plan" /\ t.status = "" /\ t.after = 0 /\ t.printed = none /\ t.empty = 0
        /\ t.cmd = "" /\ t.answer = "none"
    BY <1>1, <1>5, <2>1
  <2>3. StatusSound(t) BY <2>2, StatusesDiffer DEF StatusSound
  <2>4. PrintedSound(t) BY <1>3, <1>4, <2>2, NoughtIsLeast, StatusesDiffer DEF PrintedSound
  <2>5. run.confirmedBy # c BY <1>4, DrainsTakeTwoPages DEF NoRun
  <2>6. DecisionSound(t, c) BY <2>1, <2>2, <2>5 DEF DecisionSound
  <2>7. OutcomeTrue(t) BY <2>2 DEF OutcomeTrue
  <2>8. terminal[c] = t BY <1>4, <2>1
  <2> QED BY <2>3, <2>4, <2>6, <2>7, <2>8 DEF TerminalSound
<1> QED BY <1>4, <1>10, <1>11, <1>12 DEF TerraformInvariant

LEMMA TerraformKeep == TerraformInvariant /\ [TerraformNext]_terraformVars => TerraformInvariant'
<1> SUFFICES ASSUME TerraformInvariant, [TerraformNext]_terraformVars PROVE TerraformInvariant'
  OBVIOUS
<1>1. CASE UNCHANGED terraformVars
  <2>1. UNCHANGED <<run, written, readable, terminal, variable, exposed>> BY <1>1 DEF terraformVars
  <2>2. RunGoesOn(Somebody) /\ LogsGoOn /\ RunSound'
    BY <2>1, RunStays DEF TerraformInvariant, TerraformTypeOK, RunGoesOn, PlanIsOver
  <2>3. Somebody \notin Terminals BY DrainsTakeTwoPages
  <2> QED BY <2>1, <2>2, <2>3, PlaneActs
<1>2. CASE PlaneMoves BY <1>2, PlaneMovesKeeps
<1>3. CASE OtherPeople BY <1>3, OtherPeopleKeeps
<1>4. ASSUME NEW p \in Phases, PlaneWrites(p) PROVE TerraformInvariant' BY <1>4, PlaneWritesKeeps
<1>5. ASSUME NEW c \in Terminals,
             \/ \E cmd \in {"plan", "apply"} : StartRun(c, cmd)
             \/ \E cmd \in {"confirm", "discard", "logs"} : NameRun(c, cmd)
      PROVE  TerraformInvariant'
  BY <1>5, StartRunKeeps, NameRunKeeps
<1>6. ASSUME NEW c \in Terminals, ReadStatus(c) \/ ReadPage(c) \/ FollowEnds(c) \/ Interrupt(c) PROVE TerraformInvariant'
  BY <1>6, ReadStatusKeeps, ReadPageKeeps, FollowEndsKeeps, InterruptKeeps
<1>7. ASSUME NEW c \in Terminals, Prompt(c) \/ Confirm(c) \/ StillConfirmable(c) \/ Discard(c) \/ CancelAfterInterrupt(c)
      PROVE  TerraformInvariant'
  BY <1>7, PromptKeeps, ConfirmKeeps, StillConfirmableKeeps, DiscardKeeps, CancelKeeps
<1>8. ASSUME NEW c \in Terminals, PutVariable(c) \/ UnsetVariable(c) \/ \E sensitive \in BOOLEAN : ReadVariable(c, sensitive)
      PROVE  TerraformInvariant'
  BY <1>8, VariableKeeps
<1> QED BY <1>1, <1>2, <1>3, <1>4, <1>5, <1>6, <1>7, <1>8, Zenon DEF TerraformNext

LEMMA SoundRunsAreFollowed ==
    ASSUME TerraformInvariant PROVE RunsAreFollowed
<1>1. \A c \in Terminals : TerminalSound(terminal[c], c) BY DEF TerraformInvariant
<1>2. EndsAreTrue BY <1>1 DEF TerminalSound, OutcomeTrue, EndsAreTrue, Says, Is
<1>3. NothingIsAppliedUnasked
  <2>1. run.status \in APPLY_STATUSES => run.confirmedBy # Unasked /\ ~run.planOnly BY DEF TerraformInvariant, RunSound
  <2>2. ASSUME NEW c \in Terminals, run.confirmedBy = c
        PROVE  terminal[c].answer # "no" /\ (terminal[c].cmd = "apply" => terminal[c].printed["plan"] = written["plan"])
    BY <1>1, <2>2 DEF TerminalSound, DecisionSound
  <2> QED BY <2>1, <2>2 DEF NothingIsAppliedUnasked
<1>4. LogsAreWhole
  <2>1. ASSUME NEW c \in Terminals PROVE \A p \in Phases : terminal[c].printed[p] <= written[p]
    <3>1. PICK t \in TerminalRecord : t = terminal[c] BY DEF TerraformInvariant, TerraformTypeOK
    <3>2. ASSUME NEW p \in Phases PROVE t.printed[p] <= written[p]
      <4>1. t.printed[p] \in Int /\ readable[p] \in Nat /\ written[p] \in Nat
        BY DEF TerminalRecord, TerraformInvariant, TerraformTypeOK
      <4>2. t.printed[p] <= readable[p] BY <1>1, <3>1 DEF TerminalSound, PrintedSound
      <4>3. readable[p] <= written[p] BY DEF TerraformInvariant, RunSound
      <4> QED BY <4>1, <4>2, <4>3
    <3> QED BY <3>1, <3>2
  <2>2. ASSUME NEW c \in Terminals, Is(c, "ended")
        PROVE  terminal[c].printed[terminal[c].phase] = written[terminal[c].phase]
    BY <1>1, <2>2 DEF TerminalSound, PrintedSound, Is
  <2> QED BY <2>1, <2>2 DEF LogsAreWhole
<1> QED BY <1>2, <1>3, <1>4 DEF RunsAreFollowed, TerraformInvariant

\* The operators' commands and wp-tf, each with its own table and control plane.
ToolsSpec == OpsInit /\ [][OpsNext]_opsVars /\ TerraformInit /\ [][TerraformNext]_terraformVars

\* The secret holds every key as it was last changed, and the parameter every key no
\* other command changed between the check and the write; a command that ends in a
\* conflict changed nothing, and an administrator's row names who was told so.  What
\* wp-tf says in the end is so, nothing is applied that nobody confirmed or by a
\* command that has not shown its plan to the end, and a followed log is whole,
\* however the plane, its pages and other terminals act between two requests.
THEOREM ToolsAreTrue == ToolsSpec => []ToolsDoWhatTheyShow
<1>1. OpsInvariant /\ TerraformInvariant => ToolsDoWhatTheyShow
  BY SoundOperatorsDoNotCross, SoundRunsAreFollowed DEF ToolsDoWhatTheyShow
<1>2. OpsInvariant /\ [OpsNext]_opsVars => OpsInvariant' BY OpsKeep
<1>3. TerraformInvariant /\ [TerraformNext]_terraformVars => TerraformInvariant' BY TerraformKeep
<1> QED BY OpsStart, TerraformStart, <1>1, <1>2, <1>3, PTL DEF ToolsSpec

-----------------------------------------------------------------------------
(* Spans, and the process they leave.                                      *)

TracedRequest ==
    [at : {"idle", "running", "flushing", "answered"}, trace : Traces \cup {Nowhere}, started : 0 .. SpansPerRequest,
     open : SUBSET (1 .. SpansPerRequest)]
Exporters == TracedRequests \cup {Closer}

SamplerTypes ==
    /\ chance \in [sampled : SUBSET Traces, onOverflow : {"export", "drop"}]
    /\ buffers \in [Traces -> SUBSET Spans] /\ order \in SUBSET (Traces \X Traces) /\ aged \subseteq Traces
    /\ openSpans \in [Traces -> Nat] /\ marked \subseteq Traces
    /\ request \in [TracedRequests -> TracedRequest]
    /\ closing \in {"no", "flush", "flag", "down"} /\ late \subseteq Spans
    /\ outgoing \in [Exporters -> SUBSET SUBSET Spans] /\ streams \subseteq SUBSET Spans
    /\ errors \subseteq Spans /\ exported \in [Spans -> Nat] /\ judgedOut \subseteq Spans /\ dropped \subseteq Spans
    /\ cut \subseteq Traces /\ astride \subseteq Traces

\* The keys are in one order.
InLine(line) ==
    /\ line \subseteq Keys(line) \X Keys(line) /\ IsFiniteSet(Keys(line))
    /\ \A a, b \in Keys(line) : <<a, b>> \in line \/ <<b, a>> \in line
    /\ \A a, b \in Keys(line) : <<a, b>> \in line /\ <<b, a>> \in line => a = b
    /\ \A a, b, c \in Keys(line) : <<a, b>> \in line /\ <<b, c>> \in line => <<a, c>> \in line

\* A request has spans once it has a trace, and a batch once it flushes.
TracedSound(q) ==
    /\ request[q].at = "idle" => request[q].started = 0 /\ request[q].open = {} /\ request[q].trace = Nowhere
    /\ request[q].at # "idle" => request[q].trace \in Traces
    /\ request[q].open \subseteq 1 .. request[q].started
    /\ request[q].at \in {"idle", "running"} => outgoing[q] = {}

\* Where a span may be.
Over(s) == s[2] \in 1 .. request[s[1]].started /\ s[2] \notin request[s[1]].open
Held(s) == \E t \in Traces : s \in buffers[t]
Streamed(s) == \E batch \in streams : s \in batch
Sent(s, who) == \E batch \in outgoing[who] : s \in batch
Away(s) == Streamed(s) \/ \E who \in Exporters : Sent(s, who)
Lost(s) == ~Held(s) /\ ~Away(s) /\ exported[s] = 0 /\ s \notin judgedOut /\ s \notin dropped

\* Each span that ended is in one place, and no other is anywhere.
SpanSound(s) ==
    /\ exported[s] \in {0, 1}
    /\ \A t \in Traces : s \in buffers[t] => t = TraceOf(s)
    /\ Held(s) => ~Away(s) /\ exported[s] = 0 /\ s \notin judgedOut /\ s \notin dropped
    /\ Away(s) => exported[s] = 0 /\ s \notin judgedOut /\ s \notin dropped
    /\ exported[s] = 1 => s \notin judgedOut /\ s \notin dropped
    /\ s \in judgedOut => s \notin dropped
    /\ Streamed(s) => \A who \in Exporters : ~Sent(s, who)
    /\ \A who, other \in Exporters : Sent(s, who) /\ Sent(s, other) => who = other
    /\ \A one, two \in streams : s \in one /\ s \in two => one = two
    /\ \A who \in Exporters : \A one, two \in outgoing[who] : s \in one /\ s \in two => one = two
    /\ ~Over(s) => Lost(s)
    /\ Over(s) /\ Lost(s) => closing = "down" /\ TraceOf(s) \in astride

\* What the buffers hold, and what the shutdown leaves there.
BuffersSound ==
    /\ \A t \in Traces : IsFiniteSet(buffers[t]) /\ Cardinality(buffers[t]) <= MaxSpansPerTrace
    /\ marked \cap Buffered = {}
    /\ closing = "no" /\ Cardinality(Buffered) > MaxBufferedTraces => Complete(openSpans) = {}
    /\ closing \in {"no", "flush"} => outgoing[Closer] = {}
    /\ closing = "flush" => \A t \in Traces : openSpans[t] # 0 => t \in astride
    /\ closing \in {"flag", "down"} => Buffered \subseteq astride

\* Until the shutdown a trace's count is of its open spans, and a verdict is on all
\* spans of a request.
OpenOf(t) == {s \in Spans : request[s[1]].trace = t /\ s[2] \in request[s[1]].open}
Taken(s) == exported[s] # 0 \/ Away(s)
Undecided(q) == \A s \in SpansOf(q) : ~Taken(s) /\ s \notin judgedOut
Whole(q) ==
    \/ Undecided(q)
    \/ \A s \in SpansOf(q) : Taken(s)
    \/ \A s \in SpansOf(q) : s \in judgedOut /\ s \notin errors
JudgedSound ==
    closing = "no" =>
        /\ \A t \in Traces : IsFiniteSet(OpenOf(t)) /\ openSpans[t] = Cardinality(OpenOf(t))
        /\ marked \subseteq cut
        /\ \A s \in dropped : TraceOf(s) \in cut
        /\ \A q \in TracedRequests : request[q].trace \notin cut => Whole(q)

\* The chain of handlers, and what the process has heard.
Alone == {<<"default">>, <<"hook", "default">>}
Beside == {<<"server">>, <<"hook", "server">>}
Serving == {"starting", "up", "stopping", "flushing", "stopped"}
LifeRecord ==
    [configured : BOOLEAN, processor : BOOLEAN, net : BOOLEAN, handler : Alone \cup Beside,
     hook : {<<>>, <<"hook", "default">>, <<"hook", "server">>}, signalled : BOOLEAN,
     server : Serving \cup {"none", "over"}, restores : {<<>>} \cup Alone, wrapped : BOOLEAN, captured : BOOLEAN,
     exit : {"no", "normal", "sigterm"}, shutdowns : {0, 1}, failed : BOOLEAN, loud : BOOLEAN, unheard : BOOLEAN]
Tried(l) == l.configured \/ l.shutdowns = 1
LifeSound(l) ==
    /\ l \in LifeRecord
    /\ l.server \in Serving => /\ l.restores \in Alone /\ l.handler \in Beside
                               /\ l.handler = <<"hook", "server">> => l.hook = l.handler
                               /\ l.restores = <<"hook", "default">> => Tried(l)
    /\ l.server \notin Serving => l.handler \in Alone /\ (l.handler = <<"hook", "default">> => Tried(l))
    /\ l.server = "none" => ~l.captured
    /\ l.captured /\ l.server = "over" => l.exit = "sigterm"
    /\ l.captured /\ ~l.signalled /\ l.server # "over" => l.unheard
    /\ l.loud /\ l.wrapped => l.unheard
    /\ l.processor => l.net
    /\ l.shutdowns = 1 => ~l.processor /\ ~l.configured
    /\ l.exit = "normal" /\ l.processor => l.failed

SamplerInvariant ==
    /\ SamplerTypes /\ InLine(order) /\ BuffersSound /\ JudgedSound
    /\ aged \subseteq Buffered
    /\ \A q \in TracedRequests : TracedSound(q)
    /\ \A s \in Spans : SpanSound(s)

\* Where the keys stand in line: no two in the same place, so that as many leave as
\* are asked for.
LEMMA OldestAreMany ==
    ASSUME NEW line, InLine(line), NEW keys \in SUBSET Keys(line), NEW n \in Nat, n <= Cardinality(keys)
    PROVE  /\ IsFiniteSet(Oldest(line, keys, n)) /\ Oldest(line, keys, n) \subseteq keys
           /\ Cardinality(Oldest(line, keys, n)) >= n
<1> DEFINE Before(t) == {u \in keys : <<u, t>> \in line}
           rest == keys \ Oldest(line, keys, n)
<1>1. IsFiniteSet(keys) /\ Cardinality(keys) \in Nat BY FS_Subset, FS_CardinalityType DEF InLine
<1>2. ASSUME NEW t \in keys
      PROVE  IsFiniteSet(Before(t)) /\ Cardinality(Before(t)) \in Nat /\ Cardinality(Before(t)) <= Cardinality(keys)
  BY <1>1, FS_Subset, FS_CardinalityType
<1>3. ASSUME NEW a \in keys, NEW b \in keys, a # b, <<a, b>> \in line
      PROVE  Cardinality(Before(a)) # Cardinality(Before(b))
  <2>1. Before(a) \in SUBSET Before(b)
    <3>1. ASSUME NEW u \in keys, <<u, a>> \in line PROVE <<u, b>> \in line BY <1>3, <3>1 DEF InLine
    <3> QED BY <3>1
  <2>2. b \in Before(b) BY DEF Keys
  <2>3. b \notin Before(a) BY <1>3 DEF InLine
  <2>4. Before(a) # Before(b) BY <2>2, <2>3
  <2> QED BY <1>2, <2>1, <2>4, FS_Subset
<1>4. ASSUME NEW a \in keys, NEW b \in keys, Cardinality(Before(a)) = Cardinality(Before(b)) PROVE a = b
  <2>1. <<a, b>> \in line \/ <<b, a>> \in line BY DEF InLine
  <2> QED BY <1>3, <1>4, <2>1
<1>5. PICK most \in Nat : most = Cardinality(keys) /\ n <= most BY <1>1
<1>6. rest \in SUBSET keys /\ IsFiniteSet(rest) /\ Cardinality(rest) \in Nat BY <1>1, FS_Subset, FS_CardinalityType
<1> DEFINE place == [t \in rest |-> Cardinality(Before(t))]
<1>7. ASSUME NEW t \in rest PROVE Cardinality(Before(t)) \in n + 1 .. most BY <1>2, <1>5 DEF Oldest
<1>8. place \in Injection(rest, n + 1 .. most) BY <1>4, <1>7 DEF Injection, IsInjective
<1>9. Cardinality(rest) <= most - n
  <2>1. IsFiniteSet(n + 1 .. most) /\ Cardinality(n + 1 .. most) = most - n
    <3>1. IsFiniteSet(n + 1 .. most) /\ Cardinality(n + 1 .. most) = IF n + 1 > most THEN 0 ELSE most - (n + 1) + 1
      BY FS_Interval
    <3> QED BY <1>5, <3>1
  <2>2. Cardinality(rest) <= Cardinality(n + 1 .. most) BY <1>8, <2>1, FS_Injection
  <2> QED BY <2>1, <2>2
<1> DEFINE oldest == Oldest(line, keys, n)
<1>10. oldest \subseteq keys BY DEF Oldest
<1>11. IsFiniteSet(oldest) /\ Cardinality(oldest) = most - Cardinality(rest)
  <2>1. oldest = keys \ rest BY <1>10
  <2>2. keys \cap rest = rest OBVIOUS
  <2>3. IsFiniteSet(keys \ rest) /\ Cardinality(keys \ rest) = Cardinality(keys) - Cardinality(keys \cap rest) BY <1>1, FS_Difference
  <2> QED BY <1>5, <2>1, <2>2, <2>3
<1>12. Cardinality(oldest) >= n
  <2>1. PICK r \in Nat : r = Cardinality(rest) /\ r <= most - n BY <1>6, <1>9
  <2>2. most - r >= n BY <1>5, <2>1
  <2> QED BY <1>11, <2>1, <2>2
<1> QED BY <1>10, <1>11, <1>12

\* When more stay than the ceiling allows, none of them is complete.
LEMMA EvictionBounds ==
    ASSUME NEW line, InLine(line), NEW young \in SUBSET Keys(line), NEW whole \in SUBSET young,
           NEW stay, stay = young \ Oldest(line, whole, Cardinality(young) - MaxBufferedTraces),
           Cardinality(stay) > MaxBufferedTraces
    PROVE  stay \cap whole = {}
<1>1. young \in SUBSET Keys(line) /\ whole \in SUBSET young /\ whole \in SUBSET Keys(line) OBVIOUS
<1>2. IsFiniteSet(young) /\ IsFiniteSet(whole) BY <1>1, FS_Subset DEF InLine
<1>3. PICK y \in Nat, w \in Nat : y = Cardinality(young) /\ w = Cardinality(whole) BY <1>2, FS_CardinalityType
<1>4. PICK over \in Int : over = y - MaxBufferedTraces BY SamplerAssumption
<1> DEFINE gone == Oldest(line, whole, over)
<1>5. stay = young \ gone BY <1>3, <1>4
<1>6. gone \subseteq whole BY DEF Oldest
<1>7. IsFiniteSet(stay) /\ IsFiniteSet(gone) /\ Cardinality(stay) = y - Cardinality(gone) /\ Cardinality(gone) \in Nat
  <2>1. gone \in SUBSET whole BY <1>6
  <2>2. IsFiniteSet(gone) BY <1>2, <2>1, FS_Subset
  <2>3. Cardinality(gone) \in Nat BY <2>2, FS_CardinalityType
  <2>4. young \cap gone = gone BY <1>1, <1>6
  <2>5. IsFiniteSet(young \ gone) /\ Cardinality(young \ gone) = Cardinality(young) - Cardinality(young \cap gone) BY <1>2, FS_Difference
  <2> QED BY <1>3, <1>5, <2>2, <2>3, <2>4, <2>5
<1>8. PICK g \in Nat : g = Cardinality(gone) BY <1>7
<1>9. y - g > MaxBufferedTraces BY <1>7, <1>8
<1>10. over \in Nat BY <1>4, <1>9, SamplerAssumption
<1>11. ~(over <= w)
  <2>1. SUFFICES ASSUME over <= w PROVE FALSE OBVIOUS
  <2>2. Cardinality(gone) >= over BY <1>1, <1>3, <1>10, <2>1, OldestAreMany
  <2>3. g >= over BY <1>8, <2>2
  <2> QED BY <1>4, <1>9, <2>3, SamplerAssumption
<1>12. gone = whole
  <2>1. ASSUME NEW t \in whole PROVE t \in gone
    <3>1. {u \in whole : <<u, t>> \in line} \in SUBSET whole OBVIOUS
    <3>2. Cardinality({u \in whole : <<u, t>> \in line}) <= w BY <1>2, <1>3, <3>1, FS_Subset
    <3>3. IsFiniteSet({u \in whole : <<u, t>> \in line}) BY <1>2, <3>1, FS_Subset
    <3>4. Cardinality({u \in whole : <<u, t>> \in line}) \in Nat BY <3>3, FS_CardinalityType
    <3>5. Cardinality({u \in whole : <<u, t>> \in line}) <= over BY <1>10, <1>11, <3>2, <3>4
    <3> QED BY <3>5 DEF Oldest
  <2> QED BY <1>6, <2>1
<1> QED BY <1>5, <1>12

LEMMA LeavingTheLine ==
    ASSUME NEW line, InLine(line), NEW gone
    PROVE  Keys(Without(line, gone)) = Keys(line) \ gone /\ InLine(Without(line, gone))
<1> DEFINE fewer == Without(line, gone)
<1>1. \A a, b : <<a, b>> \in fewer <=> <<a, b>> \in line /\ a \notin gone /\ b \notin gone BY DEF Without
<1>2. Keys(fewer) = Keys(line) \ gone BY <1>1 DEF Keys
<1>3. fewer \subseteq Keys(fewer) \X Keys(fewer)
  <2>1. fewer \subseteq line BY DEF Without
  <2>2. SUFFICES ASSUME NEW pair \in fewer PROVE pair \in Keys(fewer) \X Keys(fewer) OBVIOUS
  <2>3. PICK a \in Keys(line), b \in Keys(line) : pair = <<a, b>> BY <2>1, <2>2 DEF InLine
  <2> QED BY <1>1, <1>2, <2>2, <2>3
<1>4. IsFiniteSet(Keys(fewer)) BY <1>2, FS_Subset DEF InLine
<1>5. \A a, b \in Keys(fewer) : <<a, b>> \in fewer \/ <<b, a>> \in fewer BY <1>1, <1>2 DEF InLine
<1>6. \A a, b \in Keys(fewer) : <<a, b>> \in fewer /\ <<b, a>> \in fewer => a = b BY <1>1, <1>2 DEF InLine
<1>7. \A a, b, c \in Keys(fewer) : <<a, b>> \in fewer /\ <<b, c>> \in fewer => <<a, c>> \in fewer
  BY <1>1, <1>2 DEF InLine
<1> QED BY <1>2, <1>3, <1>4, <1>5, <1>6, <1>7 DEF InLine

LEMMA JoiningTheLine ==
    ASSUME NEW line, InLine(line), NEW t \in Traces, t \notin Keys(line)
    PROVE  Keys(Joined(line, t)) = Keys(line) \cup {t} /\ InLine(Joined(line, t))
<1> DEFINE longer == Joined(line, t)
<1>1. \A a, b : <<a, b>> \in line => a \in Keys(line) /\ b \in Keys(line) BY DEF InLine
<1>2. \A a, b : <<a, b>> \in longer <=> <<a, b>> \in line \/ (b = t /\ (a \in Keys(line) \/ a = t)) BY DEF Joined
<1>3. Keys(longer) = Keys(line) \cup {t} BY <1>2 DEF Keys
<1>4. longer \subseteq Keys(longer) \X Keys(longer) BY <1>3 DEF InLine, Joined
<1>5. IsFiniteSet(Keys(longer)) BY <1>3, FS_AddElement DEF InLine
<1>6. \A a, b \in Keys(line) : <<a, b>> \in longer <=> <<a, b>> \in line BY <1>2
<1>7. \A a \in Keys(longer) : <<a, t>> \in longer /\ (<<t, a>> \in longer => a = t) BY <1>1, <1>2, <1>3
<1>8. \A a, b \in Keys(longer) : <<a, b>> \in longer \/ <<b, a>> \in longer BY <1>3, <1>6, <1>7 DEF InLine
<1>9. \A a, b \in Keys(longer) : <<a, b>> \in longer /\ <<b, a>> \in longer => a = b BY <1>3, <1>6, <1>7 DEF InLine
<1>10. \A a, b, c \in Keys(longer) : <<a, b>> \in longer /\ <<b, c>> \in longer => <<a, c>> \in longer
  <2>1. SUFFICES ASSUME NEW a \in Keys(longer), NEW b \in Keys(longer), NEW c \in Keys(longer),
                        <<a, b>> \in longer, <<b, c>> \in longer
                 PROVE  <<a, c>> \in longer
    OBVIOUS
  <2>2. CASE c = t BY <1>7, <2>2
  <2>3. CASE c # t
    <3>1. b # t BY <1>7, <2>1, <2>3
    <3>2. a # t BY <1>7, <2>1, <3>1
    <3>3. a \in Keys(line) /\ b \in Keys(line) /\ c \in Keys(line) BY <1>3, <2>3, <3>1, <3>2
    <3>4. <<a, b>> \in line /\ <<b, c>> \in line BY <1>6, <2>1, <3>3
    <3> QED BY <1>6, <3>3, <3>4 DEF InLine
  <2> QED BY <2>2, <2>3
<1> QED BY <1>3, <1>4, <1>5, <1>8, <1>9, <1>10 DEF InLine

\* A span that nothing moves.
LEMMA SpanStays ==
    ASSUME NEW s \in Spans, SpanSound(s), exported'[s] = exported[s],
           s \in judgedOut' <=> s \in judgedOut, s \in dropped' <=> s \in dropped,
           \A t \in Traces : s \in buffers'[t] <=> s \in buffers[t],
           \A batch : s \in batch => (batch \in streams' <=> batch \in streams),
           \A who \in Exporters : \A batch : s \in batch => (batch \in outgoing'[who] <=> batch \in outgoing[who]),
           Over(s)' <=> Over(s), Over(s) => TraceOf(s)' = TraceOf(s),
           closing = "down" => closing' = "down", astride \subseteq astride'
    PROVE  SpanSound(s)' /\ (Held(s)' <=> Held(s)) /\ (Taken(s)' <=> Taken(s))
<1>1. Held(s)' <=> Held(s) BY DEF Held
<1>2. Streamed(s)' <=> Streamed(s) BY DEF Streamed
<1>3. \A who \in Exporters : Sent(s, who)' <=> Sent(s, who) BY DEF Sent
<1>4. Away(s)' <=> Away(s) BY <1>2, <1>3 DEF Away
<1>5. Lost(s)' <=> Lost(s) BY <1>1, <1>4 DEF Lost
<1>6. Taken(s)' <=> Taken(s) BY <1>4 DEF Taken
<1>7. \A t \in Traces : s \in buffers'[t] => t = TraceOf(s)'
  <2>1. SUFFICES ASSUME NEW t \in Traces, s \in buffers'[t] PROVE t = TraceOf(s)' OBVIOUS
  <2>2. s \in buffers[t] BY <2>1
  <2>3. t = TraceOf(s) BY <2>2 DEF SpanSound
  <2>4. Over(s) BY <2>2 DEF Lost, Held, SpanSound
  <2> QED BY <2>3, <2>4
<1>8. exported'[s] \in {0, 1} BY DEF SpanSound
<1>9. Held(s)' => ~Away(s)' /\ exported'[s] = 0 /\ s \notin judgedOut' /\ s \notin dropped' BY <1>1, <1>4 DEF SpanSound
<1>10. Away(s)' => exported'[s] = 0 /\ s \notin judgedOut' /\ s \notin dropped' BY <1>4 DEF SpanSound
<1>11. /\ exported'[s] = 1 => s \notin judgedOut' /\ s \notin dropped'
       /\ s \in judgedOut' => s \notin dropped'
  BY DEF SpanSound
<1>12. Streamed(s)' => \A who \in Exporters : ~Sent(s, who)' BY <1>2, <1>3 DEF SpanSound
<1>13. \A who, other \in Exporters : Sent(s, who)' /\ Sent(s, other)' => who = other BY <1>3 DEF SpanSound
<1>14. \A one, two \in streams' : s \in one /\ s \in two => one = two BY DEF SpanSound
<1>15. \A who \in Exporters : \A one, two \in outgoing'[who] : s \in one /\ s \in two => one = two BY DEF SpanSound
<1>16. ~Over(s)' => Lost(s)' BY <1>5 DEF SpanSound
<1>17. Over(s)' /\ Lost(s)' => closing' = "down" /\ TraceOf(s)' \in astride' BY <1>5 DEF SpanSound
<1>18. SpanSound(s)' BY <1>7, <1>8, <1>9, <1>10, <1>11, <1>12, <1>13, <1>14, <1>15, <1>16, <1>17 DEF SpanSound
<1> QED BY <1>1, <1>6, <1>18

\* A span that comes to its last place.
LEMMA SpanSettles ==
    ASSUME NEW s \in Spans, Over(s)', \A t \in Traces : s \notin buffers'[t],
           \A batch \in streams' : s \notin batch,
           \A who \in Exporters : \A batch \in outgoing'[who] : s \notin batch,
           \/ exported'[s] = 1 /\ s \notin judgedOut' /\ s \notin dropped'
           \/ exported'[s] = 0 /\ s \in judgedOut' /\ s \notin dropped'
           \/ exported'[s] = 0 /\ s \notin judgedOut' /\ s \in dropped'
    PROVE  SpanSound(s)' /\ (Taken(s)' <=> exported'[s] = 1)
<1>1. ~Held(s)' BY DEF Held
<1>2. ~Streamed(s)' BY DEF Streamed
<1>3. \A who \in Exporters : ~Sent(s, who)' BY DEF Sent
<1>4. ~Away(s)' BY <1>2, <1>3 DEF Away
<1>5. ~Lost(s)' BY DEF Lost
<1>6. Taken(s)' <=> exported'[s] = 1 BY <1>4 DEF Taken
<1> QED BY <1>1, <1>2, <1>3, <1>4, <1>5, <1>6 DEF SpanSound

\* A span that comes to its trace's buffer.
LEMMA SpanWaits ==
    ASSUME NEW s \in Spans, Over(s)', NEW t \in Traces, t = TraceOf(s)', s \in buffers'[t],
           \A u \in Traces : s \in buffers'[u] => u = t,
           \A batch \in streams' : s \notin batch,
           \A who \in Exporters : \A batch \in outgoing'[who] : s \notin batch,
           exported'[s] = 0, s \notin judgedOut', s \notin dropped'
    PROVE  SpanSound(s)' /\ ~Taken(s)'
<1>1. Held(s)' BY DEF Held
<1>2. ~Streamed(s)' BY DEF Streamed
<1>3. \A who \in Exporters : ~Sent(s, who)' BY DEF Sent
<1>4. ~Away(s)' BY <1>2, <1>3 DEF Away
<1>5. ~Lost(s)' BY <1>1 DEF Lost
<1>6. ~Taken(s)' BY <1>4 DEF Taken
<1> QED BY <1>1, <1>2, <1>3, <1>4, <1>5, <1>6 DEF SpanSound

\* A span that leaves for the exporter.
LEMMA SpanLeaves ==
    ASSUME NEW s \in Spans, Over(s)', \A t \in Traces : s \notin buffers'[t],
           exported'[s] = 0, s \notin judgedOut', s \notin dropped', NEW parcel, s \in parcel,
           \/ /\ parcel \in streams' /\ \A batch \in streams' : s \in batch => batch = parcel
              /\ \A who \in Exporters : \A batch \in outgoing'[who] : s \notin batch
           \/ /\ \A batch \in streams' : s \notin batch
              /\ \E me \in Exporters : /\ parcel \in outgoing'[me]
                                       /\ \A who \in Exporters : \A batch \in outgoing'[who] :
                                            s \in batch => who = me /\ batch = parcel
    PROVE  SpanSound(s)' /\ Taken(s)'
<1>1. ~Held(s)' BY DEF Held
<1>2. Away(s)' BY DEF Away, Streamed, Sent
<1>3. Streamed(s)' => \A who \in Exporters : ~Sent(s, who)' BY DEF Streamed, Sent
<1>4. \A who, other \in Exporters : Sent(s, who)' /\ Sent(s, other)' => who = other BY DEF Sent
<1>5. \A one, two \in streams' : s \in one /\ s \in two => one = two OBVIOUS
<1>6. \A who \in Exporters : \A one, two \in outgoing'[who] : s \in one /\ s \in two => one = two OBVIOUS
<1>7. ~Lost(s)' BY <1>2 DEF Lost
<1>8. Taken(s)' BY <1>2 DEF Taken
<1> QED BY <1>1, <1>2, <1>3, <1>4, <1>5, <1>6, <1>7, <1>8 DEF SpanSound

\* A request's verdict that nothing touches.
LEMMA VerdictStands ==
    ASSUME NEW q \in TracedRequests, Whole(q), SpansOf(q)' = SpansOf(q),
           \A s \in SpansOf(q) : /\ Taken(s)' <=> Taken(s)
                                 /\ s \in judgedOut' <=> s \in judgedOut
                                 /\ s \in judgedOut /\ s \in errors' => s \in errors
    PROVE  Whole(q)'
<1>1. CASE Undecided(q) BY <1>1 DEF Undecided, Whole
<1>2. CASE \A s \in SpansOf(q) : Taken(s) BY <1>2 DEF Whole
<1>3. CASE \A s \in SpansOf(q) : s \in judgedOut /\ s \notin errors BY <1>3 DEF Whole
<1> QED BY <1>1, <1>2, <1>3 DEF Whole

\* What has a place has ended.
LEMMA PlacesAreOfEnded ==
    ASSUME NEW s \in Spans, SpanSound(s), ~Over(s)
    PROVE  /\ \A t \in Traces : s \notin buffers[t]
           /\ \A batch \in streams : s \notin batch
           /\ \A who \in Exporters : \A batch \in outgoing[who] : s \notin batch
           /\ exported[s] = 0 /\ s \notin judgedOut /\ s \notin dropped /\ ~Taken(s)
<1>1. Lost(s) BY DEF SpanSound
<1>2. ~Held(s) /\ ~Away(s) /\ exported[s] = 0 /\ s \notin judgedOut /\ s \notin dropped BY <1>1 DEF Lost
<1> QED BY <1>2 DEF Held, Away, Streamed, Sent, Taken

\* What is in a buffer is nowhere else, and has ended.
LEMMA PlacesOfTheBuffered ==
    ASSUME NEW s \in Spans, SpanSound(s), NEW t \in Traces, s \in buffers[t]
    PROVE  /\ Over(s) /\ t = TraceOf(s) /\ \A u \in Traces : s \in buffers[u] => u = t
           /\ \A batch \in streams : s \notin batch
           /\ \A who \in Exporters : \A batch \in outgoing[who] : s \notin batch
           /\ exported[s] = 0 /\ s \notin judgedOut /\ s \notin dropped /\ ~Taken(s)
<1>1. Held(s) BY DEF Held
<1>2. ~Lost(s) BY <1>1 DEF Lost
<1>3. ~Away(s) /\ exported[s] = 0 /\ s \notin judgedOut /\ s \notin dropped BY <1>1 DEF SpanSound
<1>4. Over(s) /\ t = TraceOf(s) /\ \A u \in Traces : s \in buffers[u] => u = t BY <1>2 DEF SpanSound
<1> QED BY <1>3, <1>4 DEF Away, Streamed, Sent, Taken

\* A span of a request whose trace is not decided waits in that trace's buffer, once
\* it has ended.
LEMMA TheUndecidedWait ==
    ASSUME NEW q \in TracedRequests, request[q].trace \in Traces, request[q].trace \notin cut, Undecided(q),
           NEW s \in SpansOf(q), s \in Spans, SpanSound(s), Over(s), closing # "down",
           s \in dropped => TraceOf(s) \in cut
    PROVE  s \in buffers[request[q].trace]
<1>1. TraceOf(s) = request[q].trace BY DEF SpansOf, TraceOf
<1>2. ~Lost(s) BY DEF SpanSound
<1>3. ~Away(s) /\ exported[s] = 0 /\ s \notin judgedOut BY DEF Undecided, Taken
<1>4. s \notin dropped BY <1>1
<1>5. Held(s) BY <1>2, <1>3, <1>4 DEF Lost
<1> QED BY <1>1, <1>5 DEF Held, SpanSound

\* A request takes up a trace with its root, or opens a child in it: the new span is
\* open, and every other is where it was.
LEMMA StartSpanKeeps ==
    ASSUME SamplerInvariant, NEW q \in TracedRequests, NEW t \in Traces, StartSpan(q, t)
    PROVE  SamplerInvariant'
<1>1. PICK was \in TracedRequest : was = request[q] BY DEF SamplerInvariant, SamplerTypes
<1>2. PICK n \in 1 .. SpansPerRequest : n = was.started + 1
  <2>1. was.started \in 0 .. SpansPerRequest BY DEF TracedRequest
  <2>2. was.started < SpansPerRequest BY <1>1 DEF StartSpan
  <2> QED BY <2>1, <2>2, SamplerAssumption
<1>3. was.started \in Nat /\ was.open \subseteq 1 .. was.started /\ n \notin was.open /\ n \notin 1 .. was.started
  BY <1>1, <1>2, SamplerAssumption DEF TracedRequest, SamplerInvariant, TracedSound
<1>4. was.at = "idle" => was.started = 0 /\ was.open = {} BY <1>1 DEF SamplerInvariant, TracedSound
<1>5. was.at # "idle" => t = was.trace /\ was.open # {} BY <1>1 DEF StartSpan
<1>6. PICK now \in TracedRequest : /\ now.trace = t /\ now.started = n /\ now.open = was.open \cup {n}
                                   /\ now.at = IF was.at = "idle" THEN "running" ELSE was.at
                                   /\ request' = [request EXCEPT ![q] = now]
  <2> DEFINE it == [at |-> IF was.at = "idle" THEN "running" ELSE was.at, trace |-> t, started |-> n, open |-> was.open \cup {n}]
  <2>1. request' = [request EXCEPT ![q] = it] BY <1>1, <1>2 DEF StartSpan
  <2>2. was.at \in {"idle", "running", "flushing", "answered"} /\ was.open \subseteq 1 .. SpansPerRequest BY DEF TracedRequest
  <2>3. n \in 0 .. SpansPerRequest BY <1>2, SamplerAssumption
  <2>4. it \in TracedRequest BY <2>2, <2>3 DEF TracedRequest
  <2> QED BY <2>1, <2>4
<1>7. request'[q] = now /\ \A r \in TracedRequests \ {q} : request'[r] = request[r] BY <1>6 DEF SamplerInvariant, SamplerTypes
<1>8. openSpans' = [openSpans EXCEPT ![t] = @ + 1] /\ (closing = "no" => astride' = astride)
      /\ (closing # "no" => astride' = astride \cup {t})
  BY DEF StartSpan
<1>9. UNCHANGED <<chance, buffers, order, aged, marked, closing, late, outgoing, streams, errors, exported, judgedOut, dropped, cut>>
  BY DEF StartSpan, verdicts
<1>10. openSpans'[t] = openSpans[t] + 1 /\ \A u \in Traces \ {t} : openSpans'[u] = openSpans[u]
  BY <1>8 DEF SamplerInvariant, SamplerTypes
<1>11. openSpans[t] \in Nat BY DEF SamplerInvariant, SamplerTypes
<1>12. SamplerTypes' BY <1>6, <1>8, <1>9, <1>11 DEF SamplerInvariant, SamplerTypes
<1> DEFINE new == <<q, n>>
<1>13. new \in Spans BY DEF Spans
<1>14. ASSUME NEW s \in Spans, s # new PROVE (Over(s)' <=> Over(s)) /\ (Over(s) => TraceOf(s)' = TraceOf(s))
  <2>1. PICK r \in TracedRequests, m \in 1 .. SpansPerRequest : s = <<r, m>> BY DEF Spans
  <2>2. CASE r # q BY <1>7, <2>1, <2>2 DEF Over, TraceOf
  <2>3. CASE r = q
    <3>1. m # n BY <1>14, <2>1, <2>3
    <3>2. m \in 1 .. n <=> m \in 1 .. was.started BY <1>2, <1>3, <3>1
    <3>3. m \in now.open <=> m \in was.open BY <1>6, <3>1
    <3>4. Over(s)' <=> Over(s) BY <1>1, <1>6, <1>7, <2>1, <2>3, <3>2, <3>3 DEF Over
    <3>5. Over(s) => was.started # 0 BY <1>1, <2>1, <2>3 DEF Over
    <3>6. Over(s) => TraceOf(s)' = TraceOf(s) BY <1>1, <1>4, <1>5, <1>6, <1>7, <2>1, <2>3, <3>5 DEF TraceOf
    <3> QED BY <3>4, <3>6
  <2> QED BY <2>2, <2>3
<1>15. ~Over(new) /\ ~Over(new)' BY <1>1, <1>3, <1>6, <1>7 DEF Over
<1>16. ASSUME NEW s \in Spans PROVE SpanSound(s)' /\ (Taken(s)' <=> Taken(s))
  BY <1>8, <1>9, <1>14, <1>15, SpanStays DEF SamplerInvariant
<1>17. \A r \in TracedRequests : TracedSound(r)'
  <2>1. ASSUME NEW r \in TracedRequests PROVE TracedSound(r)'
    <3>1. CASE r # q BY <1>7, <1>9, <3>1 DEF SamplerInvariant, TracedSound
    <3>2. CASE r = q
      <4>1. now.at # "idle" BY <1>6
      <4>2. now.open \subseteq 1 .. n BY <1>2, <1>3, <1>6
      <4>3. now.at \in {"idle", "running"} => was.at \in {"idle", "running"} BY <1>6
      <4>4. now.at \in {"idle", "running"} => outgoing[q] = {} BY <1>1, <4>3 DEF SamplerInvariant, TracedSound
      <4> QED BY <1>6, <1>7, <1>9, <3>2, <4>1, <4>2, <4>4 DEF TracedSound
    <3> QED BY <3>1, <3>2
  <2> QED BY <2>1
<1>18. BuffersSound'
  <2>1. Buffered' = Buffered BY <1>9 DEF Buffered
  <2>2. Complete(openSpans)' \subseteq Complete(openSpans)
    <3>1. SUFFICES ASSUME NEW u \in Buffered', openSpans'[u] = 0 PROVE u \in Buffered /\ openSpans[u] = 0 BY DEF Complete
    <3>2. u \in Traces BY DEF Buffered, Keys
    <3> QED BY <1>10, <1>11, <2>1, <3>1, <3>2
  <2>3. closing = "no" /\ Cardinality(Buffered') > MaxBufferedTraces => Complete(openSpans)' = {}
    BY <2>1, <2>2 DEF SamplerInvariant, BuffersSound
  <2>4. closing = "flush" => \A u \in Traces : openSpans'[u] # 0 => u \in astride'
    BY <1>8, <1>10 DEF SamplerInvariant, BuffersSound
  <2>5. closing \in {"flag", "down"} => Buffered' \subseteq astride' BY <1>8, <2>1 DEF SamplerInvariant, BuffersSound
  <2> QED BY <1>9, <2>1, <2>3, <2>4, <2>5 DEF SamplerInvariant, BuffersSound
<1>19. JudgedSound'
  <2>1. SUFFICES ASSUME closing = "no"
                 PROVE  /\ \A u \in Traces : IsFiniteSet(OpenOf(u)') /\ openSpans'[u] = Cardinality(OpenOf(u)')
                        /\ marked' \subseteq cut' /\ \A s \in dropped' : TraceOf(s)' \in cut'
                        /\ \A r \in TracedRequests : request'[r].trace \notin cut' => Whole(r)'
    BY <1>9 DEF JudgedSound
  <2>2. JudgedSound /\ SamplerTypes BY DEF SamplerInvariant
  <2>3. ASSUME NEW s \in Spans, NEW u \in Traces PROVE s \in OpenOf(u)' <=> s \in OpenOf(u) \/ (s = new /\ u = t)
    <3>1. PICK r \in TracedRequests, m \in 1 .. SpansPerRequest : s = <<r, m>> BY DEF Spans
    <3>2. CASE r # q BY <1>7, <3>1, <3>2 DEF OpenOf
    <3>3. CASE r = q
      <4>1. s \in OpenOf(u)' <=> t = u /\ m \in now.open BY <1>6, <1>7, <3>1, <3>3 DEF OpenOf
      <4>2. s \in OpenOf(u) <=> was.trace = u /\ m \in was.open BY <1>1, <3>1, <3>3 DEF OpenOf
      <4>3. m \in was.open => was.trace = t BY <1>4, <1>5
      <4>4. m \in now.open <=> m \in was.open \/ m = n BY <1>6
      <4>5. s = new <=> m = n BY <3>1, <3>3
      <4> QED BY <4>1, <4>2, <4>3, <4>4, <4>5
    <3> QED BY <3>2, <3>3
  <2>4. \A u \in Traces : OpenOf(u)' = IF u = t THEN OpenOf(u) \cup {new} ELSE OpenOf(u) BY <1>13, <2>3 DEF OpenOf
  <2>5. \A u \in Traces : IsFiniteSet(OpenOf(u)') /\ openSpans'[u] = Cardinality(OpenOf(u)')
    <3>1. SUFFICES ASSUME NEW u \in Traces PROVE IsFiniteSet(OpenOf(u)') /\ openSpans'[u] = Cardinality(OpenOf(u)') OBVIOUS
    <3>2. IsFiniteSet(OpenOf(u)) /\ openSpans[u] = Cardinality(OpenOf(u)) BY <2>1, <2>2 DEF JudgedSound
    <3>3. CASE u # t BY <1>10, <2>4, <3>2, <3>3
    <3>4. CASE u = t
      <4>1. new \notin OpenOf(t) BY <1>1, <1>3 DEF OpenOf
      <4>2. IsFiniteSet(OpenOf(t) \cup {new}) /\ Cardinality(OpenOf(t) \cup {new}) = Cardinality(OpenOf(t)) + 1
        BY <3>2, <3>4, <4>1, FS_AddElement
      <4>3. OpenOf(t)' = OpenOf(t) \cup {new} BY <2>4
      <4> QED BY <1>10, <3>2, <3>4, <4>2, <4>3
    <3> QED BY <3>3, <3>4
  <2>6. \A s \in dropped' : TraceOf(s)' \in cut'
    <3>1. SUFFICES ASSUME NEW s \in dropped PROVE TraceOf(s)' \in cut BY <1>9
    <3>2. s \in Spans BY <2>2 DEF SamplerTypes
    <3>3. SpanSound(s) BY <3>2 DEF SamplerInvariant
    <3>4. Over(s) BY <3>2, <3>3, PlacesAreOfEnded
    <3>5. TraceOf(s)' = TraceOf(s) BY <1>14, <1>15, <3>2, <3>4
    <3> QED BY <2>1, <2>2, <3>5 DEF JudgedSound
  <2>7. ASSUME NEW r \in TracedRequests, request'[r].trace \notin cut' PROVE Whole(r)'
    <3>1. CASE r # q
      <4>1. SpansOf(r)' = SpansOf(r) BY <1>7, <3>1 DEF SpansOf
      <4>2. SpansOf(r) \subseteq Spans BY <2>2, SamplerAssumption DEF SamplerTypes, TracedRequest, SpansOf, Spans
      <4>3. Whole(r) BY <1>7, <1>9, <2>1, <2>2, <2>7, <3>1 DEF JudgedSound
      <4>4. \A s \in SpansOf(r) : /\ Taken(s)' <=> Taken(s)
                                  /\ s \in judgedOut' <=> s \in judgedOut
                                  /\ s \in judgedOut /\ s \in errors' => s \in errors
        BY <1>9, <1>16, <4>2
      <4> QED BY <4>1, <4>3, <4>4, VerdictStands
    <3>2. CASE r = q
      <4>1. SpansOf(q) \subseteq Spans BY <1>1, SamplerAssumption DEF TracedRequest, SpansOf, Spans
      <4>2. SpansOf(q)' = SpansOf(q) \cup {new} BY <1>1, <1>2, <1>3, <1>6, <1>7 DEF SpansOf
      <4>3. ~Taken(new)' /\ new \notin judgedOut' BY <1>9, <1>13, <1>15, <1>16, PlacesAreOfEnded DEF SamplerInvariant
      <4>4. Undecided(q)
        <5>1. CASE was.at = "idle" BY <1>1, <1>4, <5>1 DEF Undecided, SpansOf
        <5>2. CASE was.at # "idle"
          <6>1. PICK m \in was.open : TRUE BY <1>5, <5>2
          <6>2. <<q, m>> \in SpansOf(q) /\ <<q, m>> \in Spans BY <1>1, <1>3, <4>1, <6>1 DEF SpansOf
          <6>3. ~Over(<<q, m>>) BY <1>1, <6>1 DEF Over
          <6>4. SpanSound(<<q, m>>) BY <6>2 DEF SamplerInvariant
          <6>5. ~Taken(<<q, m>>) /\ <<q, m>> \notin judgedOut BY <6>2, <6>3, <6>4, PlacesAreOfEnded
          <6>6. request[q].trace \notin cut BY <1>1, <1>5, <1>6, <1>7, <1>9, <2>7, <3>2, <5>2
          <6>7. Whole(q) BY <2>1, <2>2, <6>6 DEF JudgedSound
          <6> QED BY <6>2, <6>5, <6>7 DEF Whole
        <5> QED BY <5>1, <5>2
      <4>5. \A s \in SpansOf(q) : ~Taken(s)' /\ s \notin judgedOut' BY <1>9, <1>16, <4>1, <4>4 DEF Undecided
      <4>6. Undecided(q)' BY <4>2, <4>3, <4>5 DEF Undecided
      <4> QED BY <3>2, <4>6 DEF Whole
    <3> QED BY <3>1, <3>2
  <2>8. marked' \subseteq cut' BY <1>9, <2>1, <2>2 DEF JudgedSound
  <2> QED BY <2>5, <2>6, <2>7, <2>8
<1>20. InLine(order)' BY <1>9 DEF SamplerInvariant, InLine, Keys
<1>21. (aged \subseteq Buffered)' BY <1>9 DEF SamplerInvariant, Buffered
<1> QED BY <1>12, <1>16, <1>17, <1>18, <1>19, <1>20, <1>21 DEF SamplerInvariant

\* The end of a span, before its trace's buffer is looked at.
EndedThere(q, t, ended) ==
    /\ t \in Traces /\ ended \in Spans /\ TraceOf(ended) = t /\ ~Over(ended) /\ Over(ended)'
    /\ \A s \in Spans : TraceOf(s)' = TraceOf(s) /\ (s # ended => (Over(s)' <=> Over(s)))
    /\ \A r \in TracedRequests :
         /\ SpansOf(r)' = SpansOf(r) /\ SpansOf(r) \subseteq Spans
         /\ request'[r].trace = request[r].trace /\ TracedSound(r)'
         /\ \A s \in SpansOf(r) : /\ TraceOf(s) = request[r].trace
                                  /\ ~Over(s)' /\ request[r].trace \in Traces => s \in OpenOf(request[r].trace)'
    /\ ended \in SpansOf(q)
    /\ request' \in [TracedRequests -> TracedRequest] /\ UNCHANGED <<chance, closing, late, outgoing>>
    /\ astride' \subseteq Traces /\ astride \subseteq astride' /\ (closing # "no" => t \in astride')
    /\ errors \subseteq errors' /\ errors' \subseteq errors \cup {ended}

LEMMA EndingASpan ==
    ASSUME SamplerInvariant, NEW q \in TracedRequests, NEW n \in 1 .. SpansPerRequest, EndSpan(q, n)
    PROVE  /\ EndedThere(q, request[q].trace, <<q, n>>)
           /\ \A u \in Traces : OpenOf(u)' = OpenOf(u) \ {<<q, n>>}
           /\ <<q, n>> \in OpenOf(request[q].trace)
<1> DEFINE ended == <<q, n>>
<1>1. PICK was \in TracedRequest : was = request[q] BY DEF SamplerInvariant, SamplerTypes
<1>2. n \in was.open /\ was.open \subseteq 1 .. was.started /\ was.started \in 0 .. SpansPerRequest
  BY <1>1 DEF EndSpan, SamplerInvariant, TracedSound, TracedRequest
<1>3. PICK t \in Traces : t = was.trace
  <2>1. was.at # "idle" BY <1>1, <1>2 DEF SamplerInvariant, TracedSound
  <2> QED BY <1>1, <2>1 DEF SamplerInvariant, TracedSound
<1>4. PICK now \in TracedRequest : /\ now.trace = t /\ now.started = was.started /\ now.open = was.open \ {n} /\ now.at = was.at
                                   /\ request' = [request EXCEPT ![q] = now]
  <2> DEFINE it == [was EXCEPT !.open = was.open \ {n}]
  <2>1. request' = [request EXCEPT ![q] = it] BY <1>1 DEF EndSpan
  <2>2. it \in TracedRequest BY DEF TracedRequest
  <2>3. it.trace = was.trace /\ it.started = was.started /\ it.open = was.open \ {n} /\ it.at = was.at BY DEF TracedRequest
  <2> QED BY <1>3, <2>1, <2>2, <2>3
<1>5. request'[q] = now /\ \A r \in TracedRequests \ {q} : request'[r] = request[r] BY <1>4 DEF SamplerInvariant, SamplerTypes
<1>6. ended \in Spans BY DEF Spans
<1>7. TraceOf(ended) = t /\ ~Over(ended) /\ Over(ended)' BY <1>1, <1>2, <1>3, <1>4, <1>5 DEF TraceOf, Over
<1>8. ASSUME NEW s \in Spans PROVE TraceOf(s)' = TraceOf(s) /\ (s # ended => (Over(s)' <=> Over(s)))
  <2>1. PICK r \in TracedRequests, m \in 1 .. SpansPerRequest : s = <<r, m>> BY DEF Spans
  <2>2. CASE r # q BY <1>5, <2>1, <2>2 DEF Over, TraceOf
  <2>3. CASE r = q BY <1>1, <1>3, <1>4, <1>5, <2>1, <2>3 DEF Over, TraceOf
  <2> QED BY <2>2, <2>3
<1>9. ASSUME NEW r \in TracedRequests
      PROVE  /\ SpansOf(r)' = SpansOf(r) /\ SpansOf(r) \subseteq Spans
             /\ request'[r].trace = request[r].trace /\ TracedSound(r)'
             /\ \A s \in SpansOf(r) : /\ TraceOf(s) = request[r].trace
                                      /\ ~Over(s)' /\ request[r].trace \in Traces => s \in OpenOf(request[r].trace)'
  <2>1. request'[r].started = request[r].started /\ request'[r].trace = request[r].trace BY <1>1, <1>3, <1>4, <1>5
  <2>2. SpansOf(r)' = SpansOf(r) BY <2>1 DEF SpansOf
  <2>3. SpansOf(r) \subseteq Spans
    <3>1. request[r].started \in 0 .. SpansPerRequest BY DEF SamplerInvariant, SamplerTypes, TracedRequest
    <3>2. 1 .. request[r].started \subseteq 1 .. SpansPerRequest BY <3>1, SamplerAssumption
    <3> QED BY <3>2 DEF SpansOf, Spans
  <2>4. TracedSound(r)'
    <3>1. outgoing' = outgoing BY DEF EndSpan
    <3>2. TracedSound(r) BY DEF SamplerInvariant
    <3>3. CASE r # q BY <1>5, <3>1, <3>2, <3>3 DEF TracedSound
    <3>4. CASE r = q BY <1>1, <1>2, <1>4, <1>5, <3>1, <3>2, <3>4 DEF TracedSound
    <3> QED BY <3>3, <3>4
  <2>5. ASSUME NEW s \in SpansOf(r)
        PROVE  /\ TraceOf(s) = request[r].trace
               /\ ~Over(s)' /\ request[r].trace \in Traces => s \in OpenOf(request[r].trace)'
    <3>1. PICK m \in 1 .. request[r].started : s = <<r, m>> BY DEF SpansOf
    <3>2. TraceOf(s) = request[r].trace BY <3>1 DEF TraceOf
    <3>3. ~Over(s)' => m \in request'[r].open BY <2>1, <3>1 DEF Over
    <3>4. s \in Spans BY <2>3
    <3> QED BY <2>1, <3>1, <3>2, <3>3, <3>4 DEF OpenOf
  <2> QED BY <2>1, <2>2, <2>3, <2>4, <2>5
<1>10. request' \in [TracedRequests -> TracedRequest] BY <1>4 DEF SamplerInvariant, SamplerTypes
<1>11. UNCHANGED <<chance, closing, late, outgoing>> BY DEF EndSpan
<1>12. astride' \subseteq Traces /\ astride \subseteq astride' /\ (closing # "no" => t \in astride')
  BY <1>1, <1>3 DEF EndSpan, SamplerInvariant, SamplerTypes
<1>13. errors \subseteq errors' /\ errors' \subseteq errors \cup {ended} BY DEF EndSpan
<1>14. ended \in SpansOf(q) BY <1>1, <1>2 DEF SpansOf
<1>15. EndedThere(q, t, ended) BY <1>6, <1>7, <1>8, <1>9, <1>10, <1>11, <1>12, <1>13, <1>14 DEF EndedThere
<1>16. \A u \in Traces : OpenOf(u)' = OpenOf(u) \ {ended}
  <2>1. SUFFICES ASSUME NEW u \in Traces, NEW s \in Spans PROVE s \in OpenOf(u)' <=> s \in OpenOf(u) /\ s # ended
    BY DEF OpenOf
  <2>2. PICK r \in TracedRequests, m \in 1 .. SpansPerRequest : s = <<r, m>> BY DEF Spans
  <2>3. CASE r # q BY <1>5, <2>2, <2>3 DEF OpenOf
  <2>4. CASE r = q BY <1>1, <1>3, <1>4, <1>5, <2>2, <2>4 DEF OpenOf
  <2> QED BY <2>3, <2>4
<1>17. ended \in OpenOf(t) BY <1>1, <1>2, <1>3, <1>6 DEF OpenOf
<1>18. t = request[q].trace BY <1>1, <1>3
<1> QED BY <1>15, <1>16, <1>17, <1>18

\* The count of a trace goes down with its open spans.
LEMMA CountingDown ==
    ASSUME SamplerInvariant, NEW t \in Traces, NEW ended \in OpenOf(t), openSpans' = [openSpans EXCEPT ![t] = StillOpen(t)],
           \A u \in Traces : OpenOf(u)' = OpenOf(u) \ {ended}
    PROVE  /\ openSpans' \in [Traces -> Nat] /\ \A u \in Traces \ {t} : openSpans'[u] = openSpans[u]
           /\ openSpans'[t] # 0 => openSpans[t] # 0
           /\ closing = "no" => \A u \in Traces : IsFiniteSet(OpenOf(u)') /\ openSpans'[u] = Cardinality(OpenOf(u)')
<1>1. openSpans \in [Traces -> Nat] BY DEF SamplerInvariant, SamplerTypes
<1>2. StillOpen(t) \in Nat /\ (StillOpen(t) # 0 => openSpans[t] # 0) BY <1>1 DEF StillOpen
<1>3. /\ openSpans' \in [Traces -> Nat] /\ openSpans'[t] = StillOpen(t)
      /\ \A u \in Traces \ {t} : openSpans'[u] = openSpans[u]
  BY <1>1, <1>2
<1>4. ASSUME closing = "no", NEW u \in Traces PROVE IsFiniteSet(OpenOf(u)') /\ openSpans'[u] = Cardinality(OpenOf(u)')
  <2>1. IsFiniteSet(OpenOf(u)) /\ openSpans[u] = Cardinality(OpenOf(u)) BY <1>4 DEF SamplerInvariant, JudgedSound
  <2>2. CASE u = t
    <3>1. IsFiniteSet(OpenOf(u) \ {ended}) /\ Cardinality(OpenOf(u) \ {ended}) = Cardinality(OpenOf(u)) - 1
      BY <2>1, <2>2, FS_RemoveElement
    <3>2. Cardinality(OpenOf(u)) # 0 BY <2>1, <2>2, FS_EmptySet
    <3>3. StillOpen(t) = openSpans[t] - 1 BY <2>1, <2>2, <3>2 DEF StillOpen
    <3>4. OpenOf(u)' = OpenOf(u) \ {ended} OBVIOUS
    <3> QED BY <1>3, <2>1, <2>2, <3>1, <3>3, <3>4
  <2>3. CASE u # t BY <1>3, <2>1, <2>3 DEF OpenOf
  <2> QED BY <2>2, <2>3
<1> QED BY <1>2, <1>3, <1>4

\* What leaves with a span whose trace overflowed.
CountsDown(t) ==
    /\ openSpans' \in [Traces -> Nat] /\ \A u \in Traces \ {t} : openSpans'[u] = openSpans[u]
    /\ openSpans'[t] # 0 => openSpans[t] # 0
    /\ closing = "no" => \A u \in Traces : IsFiniteSet(OpenOf(u)') /\ openSpans'[u] = Cardinality(OpenOf(u)')
Discards(t, ended, taken) ==
    /\ CountsDown(t)
    /\ ended \in taken /\ taken \subseteq buffers[t] \cup {ended}
    /\ buffers' = [buffers EXCEPT ![t] = @ \ taken]
    /\ order' \in SUBSET (Traces \X Traces) /\ InLine(order') /\ Keys(order') \subseteq Keys(order) \ {t} /\ aged' \subseteq Keys(order')
    /\ marked' \subseteq marked \cup {t} /\ cut' \in SUBSET Traces /\ cut \subseteq cut' /\ (closing = "no" => t \in cut')
    /\ exported' = exported /\ judgedOut' = judgedOut
    /\ \/ dropped' = dropped \cup taken /\ streams' = streams
       \/ streams' = streams \cup {taken} /\ dropped' = dropped

\* A trace that overflowed: the span, and what the buffer held of it, leaves whole.
LEMMA DiscardingKeeps ==
    ASSUME SamplerInvariant, NEW q \in TracedRequests, NEW t, NEW ended, EndedThere(q, t, ended),
           NEW taken \in SUBSET Spans, Discards(t, ended, taken)
    PROVE  SamplerInvariant'
<1>0. /\ openSpans' \in [Traces -> Nat] /\ \A u \in Traces \ {t} : openSpans'[u] = openSpans[u]
      /\ openSpans'[t] # 0 => openSpans[t] # 0
      /\ closing = "no" => \A u \in Traces : IsFiniteSet(OpenOf(u)') /\ openSpans'[u] = Cardinality(OpenOf(u)')
      /\ ended \in taken /\ taken \subseteq buffers[t] \cup {ended}
      /\ buffers' = [buffers EXCEPT ![t] = @ \ taken]
      /\ order' \in SUBSET (Traces \X Traces) /\ InLine(order') /\ Keys(order') \subseteq Keys(order) \ {t} /\ aged' \subseteq Keys(order')
      /\ marked' \subseteq marked \cup {t} /\ cut' \in SUBSET Traces /\ cut \subseteq cut' /\ (closing = "no" => t \in cut')
      /\ exported' = exported /\ judgedOut' = judgedOut
      /\ \/ dropped' = dropped \cup taken /\ streams' = streams
         \/ streams' = streams \cup {taken} /\ dropped' = dropped
  BY DEF Discards, CountsDown
<1> USE <1>0
<1>1. SamplerTypes /\ \A s \in Spans : SpanSound(s) BY DEF SamplerInvariant
<1>2. t \in Traces /\ ended \in Spans /\ TraceOf(ended) = t /\ ~Over(ended) /\ Over(ended)' /\ ended \in SpansOf(q)
      /\ UNCHANGED <<chance, closing, late, outgoing>>
  BY DEF EndedThere
<1>3. marked' \subseteq Traces BY <1>1, <1>2 DEF SamplerTypes
<1>4. SamplerTypes'
  <2>1. buffers' \in [Traces -> SUBSET Spans] BY <1>1 DEF SamplerTypes
  <2>2. dropped' \subseteq Spans /\ streams' \subseteq SUBSET Spans BY <1>1 DEF SamplerTypes
  <2>3. errors' \subseteq Spans BY <1>1, <1>2 DEF SamplerTypes, EndedThere
  <2>4. request' \in [TracedRequests -> TracedRequest] /\ astride' \subseteq Traces BY DEF EndedThere
  <2>5. aged' \subseteq Traces BY DEF Keys
  <2> QED BY <1>1, <1>2, <1>3, <2>1, <2>2, <2>3, <2>4, <2>5 DEF SamplerTypes
<1>5. ASSUME NEW s \in taken
      PROVE  /\ TraceOf(s) = t /\ Over(s)' /\ \A u \in Traces : s \notin buffers'[u]
             /\ \A batch \in streams : s \notin batch
             /\ \A who \in Exporters : \A batch \in outgoing[who] : s \notin batch
             /\ exported[s] = 0 /\ s \notin judgedOut /\ s \notin dropped /\ ~Taken(s)
  <2>1. CASE s = ended BY <1>1, <1>2, <2>1, PlacesAreOfEnded DEF SamplerTypes
  <2>2. CASE s \in buffers[t] BY <1>1, <1>2, <2>2, PlacesOfTheBuffered DEF EndedThere, SamplerTypes
  <2> QED BY <2>1, <2>2
<1>6. ASSUME NEW s \in taken PROVE SpanSound(s)'
  <2>1. exported'[s] = 0 /\ s \notin judgedOut' BY <1>5
  <2>2. \A who \in Exporters : \A batch \in outgoing'[who] : s \notin batch BY <1>2, <1>5
  <2>3. CASE dropped' = dropped \cup taken /\ streams' = streams BY <1>5, <2>1, <2>2, <2>3, SpanSettles
  <2>4. CASE streams' = streams \cup {taken} /\ dropped' = dropped BY <1>5, <2>1, <2>2, <2>4, SpanLeaves
  <2> QED BY <2>3, <2>4
<1>7. ASSUME NEW s \in Spans \ taken PROVE SpanSound(s)' /\ (Taken(s)' <=> Taken(s))
  <2>1. s \in dropped' <=> s \in dropped OBVIOUS
  <2>2. \A u \in Traces : s \in buffers'[u] <=> s \in buffers[u] BY <1>1, <1>2 DEF SamplerTypes
  <2>3. \A batch : s \in batch => (batch \in streams' <=> batch \in streams) OBVIOUS
  <2>4. (Over(s)' <=> Over(s)) /\ TraceOf(s)' = TraceOf(s) /\ astride \subseteq astride' BY DEF EndedThere
  <2>5. SpanSound(s) /\ s \in Spans BY <1>1
  <2> QED BY <1>2, <2>1, <2>2, <2>3, <2>4, <2>5, SpanStays
<1>8. BuffersSound'
  <2>1. BuffersSound BY DEF SamplerInvariant
  <2>2. \A u \in Traces : IsFiniteSet(buffers'[u]) /\ Cardinality(buffers'[u]) <= MaxSpansPerTrace
    <3>1. SUFFICES ASSUME NEW u \in Traces PROVE IsFiniteSet(buffers'[u]) /\ Cardinality(buffers'[u]) <= MaxSpansPerTrace OBVIOUS
    <3>2. buffers'[u] \in SUBSET buffers[u] BY <1>1, <1>2 DEF SamplerTypes
    <3>3. IsFiniteSet(buffers[u]) /\ Cardinality(buffers[u]) <= MaxSpansPerTrace BY <2>1 DEF BuffersSound
    <3>4. IsFiniteSet(buffers'[u]) /\ Cardinality(buffers'[u]) <= Cardinality(buffers[u]) BY <3>2, <3>3, FS_Subset
    <3>5. Cardinality(buffers'[u]) \in Nat /\ Cardinality(buffers[u]) \in Nat BY <3>3, <3>4, FS_CardinalityType
    <3> QED BY <3>3, <3>4, <3>5, SamplerAssumption
  <2>3. Buffered' = Keys(order') /\ Buffered = Keys(order) BY DEF Buffered
  <2>4. marked' \cap Buffered' = {} BY <2>1, <2>3 DEF BuffersSound
  <2>5. closing = "no" /\ Cardinality(Buffered') > MaxBufferedTraces => Complete(openSpans)' = {}
    <3>1. SUFFICES ASSUME closing = "no", Cardinality(Buffered') > MaxBufferedTraces PROVE Complete(openSpans)' = {} OBVIOUS
    <3>2. IsFiniteSet(Buffered) BY <2>3 DEF SamplerInvariant, InLine
    <3>3. Buffered' \in SUBSET Buffered BY <2>3
    <3>4. IsFiniteSet(Buffered') /\ Cardinality(Buffered') <= Cardinality(Buffered) BY <3>2, <3>3, FS_Subset
    <3>5. Cardinality(Buffered') \in Nat /\ Cardinality(Buffered) \in Nat BY <3>2, <3>4, FS_CardinalityType
    <3>6. Cardinality(Buffered) > MaxBufferedTraces BY <3>1, <3>4, <3>5, SamplerAssumption
    <3>7. Complete(openSpans) = {} BY <2>1, <3>1, <3>6 DEF BuffersSound
    <3>8. \A u \in Buffered' : openSpans'[u] # 0
      <4>1. SUFFICES ASSUME NEW u \in Buffered' PROVE openSpans'[u] # 0 OBVIOUS
      <4>2. u \in Traces \ {t} /\ u \in Buffered BY <2>3, <4>1 DEF Keys
      <4>3. openSpans[u] # 0 BY <3>7, <4>2 DEF Complete
      <4> QED BY <4>2, <4>3
    <3> QED BY <3>8 DEF Complete
  <2>6. closing = "flush" => \A u \in Traces : openSpans'[u] # 0 => u \in astride'
    <3>1. SUFFICES ASSUME closing = "flush", NEW u \in Traces, openSpans'[u] # 0 PROVE u \in astride' OBVIOUS
    <3>2. openSpans[u] # 0 BY <3>1
    <3>3. u \in astride BY <2>1, <3>1, <3>2 DEF BuffersSound
    <3> QED BY <3>3 DEF EndedThere
  <2>7. closing \in {"flag", "down"} => Buffered' \subseteq astride' BY <2>1, <2>3 DEF EndedThere, BuffersSound
  <2>8. closing \in {"no", "flush"} => outgoing[Closer] = {} BY <2>1 DEF BuffersSound
  <2> QED BY <1>2, <2>2, <2>4, <2>5, <2>6, <2>7, <2>8 DEF BuffersSound
<1>9. JudgedSound'
  <2>1. SUFFICES ASSUME closing = "no"
                 PROVE  /\ marked' \subseteq cut' /\ \A s \in dropped' : TraceOf(s)' \in cut'
                        /\ \A r \in TracedRequests : request'[r].trace \notin cut' => Whole(r)'
    BY <1>2 DEF JudgedSound
  <2>2. JudgedSound BY DEF SamplerInvariant
  <2>3. marked' \subseteq cut' BY <2>1, <2>2 DEF JudgedSound
  <2>4. ASSUME NEW s \in dropped' PROVE TraceOf(s)' \in cut'
    <3>1. s \in Spans BY <1>4 DEF SamplerTypes
    <3>2. TraceOf(s)' = TraceOf(s) BY <3>1 DEF EndedThere
    <3>3. CASE s \in taken BY <1>5, <2>1, <3>2, <3>3
    <3>4. CASE s \in dropped BY <2>1, <2>2, <3>2, <3>4 DEF JudgedSound
    <3> QED BY <3>3, <3>4
  <2>5. ASSUME NEW r \in TracedRequests, request'[r].trace \notin cut' PROVE Whole(r)'
    <3>1. SpansOf(r)' = SpansOf(r) /\ SpansOf(r) \subseteq Spans /\ request'[r].trace = request[r].trace
          /\ \A s \in SpansOf(r) : TraceOf(s) = request[r].trace
      BY DEF EndedThere
    <3>2. Whole(r) BY <2>1, <2>2, <2>5, <3>1 DEF JudgedSound
    <3>3. \A s \in SpansOf(r) : s \in Spans \ taken BY <1>5, <2>1, <2>5, <3>1
    <3>4. \A s \in SpansOf(r) : s # ended /\ (s \in errors' => s \in errors) BY <3>3 DEF EndedThere
    <3>5. \A s \in SpansOf(r) : /\ Taken(s)' <=> Taken(s)
                                /\ s \in judgedOut' <=> s \in judgedOut
                                /\ s \in judgedOut /\ s \in errors' => s \in errors
      BY <1>7, <3>3, <3>4
    <3> QED BY <3>1, <3>2, <3>5, VerdictStands
  <2> QED BY <2>3, <2>4, <2>5
<1>10. \A s \in Spans : SpanSound(s)' BY <1>6, <1>7
<1>11. \A r \in TracedRequests : TracedSound(r)' BY DEF EndedThere
<1>12. InLine(order)' BY DEF InLine, Keys
<1>13. (aged \subseteq Buffered)' BY DEF Buffered
<1> QED BY <1>4, <1>8, <1>9, <1>10, <1>11, <1>12, <1>13 DEF SamplerInvariant

\* A span that comes to the buffer of its trace, and the traces that leave for it.
LEMMA BufferKeeps ==
    ASSUME SamplerInvariant, NEW q \in TracedRequests, NEW t, NEW ended, EndedThere(q, t, ended),
           openSpans' = [openSpans EXCEPT ![t] = StillOpen(t)],
           CountsDown(t), t \notin marked, Cardinality(buffers[t]) < MaxSpansPerTrace, Buffer(ended, t, errors')
    PROVE  SamplerInvariant'
<1>1. SamplerTypes /\ BuffersSound /\ JudgedSound /\ aged \subseteq Buffered /\ \A s \in Spans : SpanSound(s) BY DEF SamplerInvariant
<1>2. t \in Traces /\ ended \in Spans /\ TraceOf(ended) = t /\ ~Over(ended) /\ Over(ended)' /\ ended \in SpansOf(q)
      /\ UNCHANGED <<chance, closing, late, outgoing>>
  BY DEF EndedThere
<1>3. PICK line \in SUBSET (Traces \X Traces) :
        /\ line = IF t \in Buffered THEN order ELSE Joined(order, t)
        /\ InLine(line) /\ Keys(line) = Buffered \cup {t}
  <2>1. InLine(order) /\ Keys(order) = Buffered /\ order \in SUBSET (Traces \X Traces) BY <1>1 DEF SamplerInvariant, Buffered, SamplerTypes
  <2>2. CASE t \in Buffered BY <2>1, <2>2
  <2>3. CASE t \notin Buffered
    <3>1. Keys(Joined(order, t)) = Keys(order) \cup {t} /\ InLine(Joined(order, t)) BY <1>2, <2>1, <2>3, JoiningTheLine
    <3>2. Joined(order, t) \in SUBSET (Traces \X Traces) BY <1>2, <2>1 DEF Joined, Keys
    <3> QED BY <2>1, <2>3, <3>1, <3>2
  <2> QED BY <2>2, <2>3
<1>4. PICK filled \in [Traces -> SUBSET Spans] : filled = [buffers EXCEPT ![t] = @ \cup {ended}]
  BY <1>1, <1>2 DEF SamplerTypes
<1>5. PICK count \in [Traces -> Nat] : /\ count = openSpans' /\ \A u \in Traces : count[u] # 0 => openSpans[u] # 0
                                       /\ closing = "no" => \A u \in Traces : IsFiniteSet(OpenOf(u)') /\ count[u] = Cardinality(OpenOf(u)')
  BY <1>2 DEF CountsDown
<1>6. PICK young \in SUBSET Keys(line), whole \in SUBSET Keys(line) :
        young = Keys(line) \ aged /\ whole = {g \in young : count[g] = 0}
  <2> DEFINE fresh == Keys(line) \ aged
  <2>1. fresh \in SUBSET Keys(line) /\ {g \in fresh : count[g] = 0} \in SUBSET Keys(line) OBVIOUS
  <2> QED BY <2>1
<1>7. PICK gone \in SUBSET Keys(line) :
        /\ gone = Evicted(line, count)
        /\ gone = (Keys(line) \cap aged) \cup Oldest(line, whole, Cardinality(young) - MaxBufferedTraces)
  <2>1. Evicted(line, count) = (Keys(line) \cap aged) \cup Oldest(line, whole, Cardinality(young) - MaxBufferedTraces)
    BY <1>6 DEF Evicted
  <2>2. Oldest(line, whole, Cardinality(young) - MaxBufferedTraces) \subseteq whole BY DEF Oldest
  <2> QED BY <2>1, <2>2
<1>8. PICK kept \in SUBSET gone : kept = {g \in gone : ShouldKeep(g, filled[g], errors')} OBVIOUS
<1>9. /\ order' = Without(line, gone) /\ aged' = aged \ gone
      /\ buffers' = [k \in Traces |-> IF k \in gone THEN {} ELSE filled[k]]
      /\ exported' = [s \in Spans |-> exported[s] + IF s \in UNION {filled[g] : g \in kept} THEN 1 ELSE 0]
      /\ judgedOut' = judgedOut \cup UNION {filled[g] : g \in gone \ kept}
      /\ cut' = cut \cup {g \in gone \cap aged : count[g] # 0}
      /\ marked' = marked /\ streams' = streams /\ dropped' = dropped
  <2>1. count = [openSpans EXCEPT ![t] = StillOpen(t)] BY <1>5
  <2>2. /\ order' = Without(line, Evicted(line, count)) /\ aged' = aged \ Evicted(line, count)
        /\ buffers' = [k \in Traces |-> IF k \in Evicted(line, count) THEN {} ELSE filled[k]]
        /\ exported' = [s \in Spans |-> exported[s] + IF s \in UNION {filled[g] : g \in {g \in Evicted(line, count) : ShouldKeep(g, filled[g], errors')}}
                                                     THEN 1 ELSE 0]
        /\ judgedOut' = judgedOut \cup UNION {filled[g] : g \in Evicted(line, count) \ {g \in Evicted(line, count) : ShouldKeep(g, filled[g], errors')}}
        /\ cut' = cut \cup {g \in Evicted(line, count) \cap aged : count[g] # 0}
        /\ marked' = marked /\ streams' = streams /\ dropped' = dropped
    BY <1>3, <1>4, <2>1 DEF Buffer, ToExporter
  <2> QED BY <1>7, <1>8, <2>2
<1>10. gone \subseteq Traces /\ kept \subseteq Traces BY DEF Keys
<1>11. ASSUME NEW s \in Spans, NEW g \in Traces, s \in filled[g]
       PROVE  /\ TraceOf(s) = g /\ Over(s)' /\ \A u \in Traces : s \in filled[u] => u = g
              /\ \A batch \in streams : s \notin batch
              /\ \A who \in Exporters : \A batch \in outgoing[who] : s \notin batch
              /\ exported[s] = 0 /\ s \notin judgedOut /\ s \notin dropped /\ ~Taken(s)
  <2>1. CASE s = ended BY <1>1, <1>2, <1>4, <1>11, <2>1, PlacesAreOfEnded DEF SamplerTypes
  <2>2. CASE s # ended
    <3>1. \A u \in Traces : s \in filled[u] <=> s \in buffers[u] BY <1>1, <1>4, <2>2 DEF SamplerTypes
    <3>2. s \in buffers[g] BY <1>11, <3>1
    <3>3. /\ Over(s) /\ g = TraceOf(s) /\ \A u \in Traces : s \in buffers[u] => u = g
          /\ \A batch \in streams : s \notin batch
          /\ \A who \in Exporters : \A batch \in outgoing[who] : s \notin batch
          /\ exported[s] = 0 /\ s \notin judgedOut /\ s \notin dropped /\ ~Taken(s)
      BY <1>1, <3>2, PlacesOfTheBuffered
    <3>4. Over(s)' BY <2>2, <3>3 DEF EndedThere
    <3> QED BY <3>1, <3>3, <3>4
  <2> QED BY <2>1, <2>2
<1>12. ASSUME NEW s \in Spans, NEW g \in kept, s \in filled[g] PROVE SpanSound(s)' /\ Taken(s)'
  <2>1. g \in Traces /\ g \in gone BY <1>10
  <2>2. \A u \in Traces : s \notin buffers'[u] BY <1>9, <1>11, <1>12, <2>1
  <2>3. exported'[s] = 1 BY <1>9, <1>11, <1>12, <2>1
  <2>4. s \notin judgedOut' BY <1>9, <1>10, <1>11, <1>12, <2>1
  <2>5. s \notin dropped' /\ Over(s)' BY <1>9, <1>11, <1>12, <2>1
  <2>6. \A batch \in streams' : s \notin batch BY <1>9, <1>11, <1>12, <2>1
  <2>7. \A who \in Exporters : \A batch \in outgoing'[who] : s \notin batch BY <1>2, <1>11, <1>12, <2>1
  <2> QED BY <2>2, <2>3, <2>4, <2>5, <2>6, <2>7, SpanSettles
<1>13. ASSUME NEW s \in Spans, NEW g \in gone \ kept, s \in filled[g]
       PROVE  SpanSound(s)' /\ ~Taken(s)' /\ s \in judgedOut' /\ s \notin errors'
  <2>1. g \in Traces BY <1>10
  <2>2. \A u \in Traces : s \notin buffers'[u] BY <1>9, <1>11, <1>13, <2>1
  <2>3. exported'[s] = 0 BY <1>9, <1>10, <1>11, <1>13, <2>1
  <2>4. s \in judgedOut' BY <1>9, <1>13
  <2>5. s \notin dropped' /\ Over(s)' BY <1>9, <1>11, <1>13, <2>1
  <2>6. \A batch \in streams' : s \notin batch BY <1>9, <1>11, <1>13, <2>1
  <2>7. \A who \in Exporters : \A batch \in outgoing'[who] : s \notin batch BY <1>2, <1>11, <1>13, <2>1
  <2>8. SpanSound(s)' /\ (Taken(s)' <=> exported'[s] = 1) BY <2>2, <2>3, <2>4, <2>5, <2>6, <2>7, SpanSettles
  <2>9. s \notin errors' BY <1>8, <1>13 DEF ShouldKeep
  <2> QED BY <2>3, <2>4, <2>8, <2>9
<1>14. ASSUME NEW s \in Spans, NEW g \in Traces \ gone, s \in filled[g]
       PROVE  SpanSound(s)' /\ ~Taken(s)' /\ s \notin judgedOut' /\ ~Taken(s) /\ s \notin judgedOut
  <2>1. s \in buffers'[g] /\ \A u \in Traces : s \in buffers'[u] => u = g BY <1>9, <1>11, <1>14
  <2>2. exported'[s] = 0 BY <1>9, <1>10, <1>11, <1>14
  <2>3. s \notin judgedOut' BY <1>9, <1>10, <1>11, <1>14
  <2>4. s \notin dropped' /\ Over(s)' BY <1>9, <1>11, <1>14
  <2>5. \A batch \in streams' : s \notin batch BY <1>9, <1>11, <1>14
  <2>6. \A who \in Exporters : \A batch \in outgoing'[who] : s \notin batch BY <1>2, <1>11, <1>14
  <2>7. g = TraceOf(s)' BY <1>11, <1>14 DEF EndedThere
  <2>8. SpanSound(s)' /\ ~Taken(s)' BY <2>1, <2>2, <2>3, <2>4, <2>5, <2>6, <2>7, SpanWaits
  <2> QED BY <1>11, <1>14, <2>3, <2>8
<1>15. ASSUME NEW s \in Spans, \A g \in Traces : s \notin filled[g]
       PROVE  SpanSound(s)' /\ (Taken(s)' <=> Taken(s)) /\ (s \in judgedOut' <=> s \in judgedOut) /\ s # ended
  <2>1. s # ended BY <1>1, <1>2, <1>4, <1>15 DEF SamplerTypes
  <2>2. \A u \in Traces : s \notin buffers[u] BY <1>1, <1>4, <1>15 DEF SamplerTypes
  <2>3. \A u \in Traces : s \notin buffers'[u] BY <1>9, <1>15
  <2>4. exported'[s] = exported[s] BY <1>1, <1>9, <1>10, <1>15 DEF SamplerTypes
  <2>5. s \in judgedOut' <=> s \in judgedOut BY <1>9, <1>10, <1>15
  <2>6. (Over(s)' <=> Over(s)) /\ TraceOf(s)' = TraceOf(s) /\ astride \subseteq astride' BY <2>1 DEF EndedThere
  <2>7. s \in dropped' <=> s \in dropped BY <1>9
  <2>8. \A batch : s \in batch => (batch \in streams' <=> batch \in streams) BY <1>9
  <2>9. \A who \in Exporters : \A batch : s \in batch => (batch \in outgoing'[who] <=> batch \in outgoing[who]) BY <1>2
  <2>10. SpanSound(s)' /\ (Taken(s)' <=> Taken(s))
    BY <1>1, <1>2, <2>2, <2>3, <2>4, <2>5, <2>6, <2>7, <2>8, <2>9, SpanStays
  <2> QED BY <2>1, <2>5, <2>10
<1>16. \A s \in Spans : SpanSound(s)'
  <2>1. SUFFICES ASSUME NEW s \in Spans PROVE SpanSound(s)' OBVIOUS
  <2>2. CASE \E g \in Traces : s \in filled[g]
    <3>1. PICK g \in Traces : s \in filled[g] BY <2>2
    <3> QED BY <1>12, <1>13, <1>14, <3>1
  <2> QED BY <1>15, <2>2
<1>17. SamplerTypes'
  <2>1. buffers' \in [Traces -> SUBSET Spans] BY <1>9
  <2>2. order' \in SUBSET (Traces \X Traces) BY <1>9 DEF Without
  <2>3. exported' \in [Spans -> Nat] BY <1>1, <1>9 DEF SamplerTypes
  <2>4. judgedOut' \subseteq Spans BY <1>1, <1>9, <1>10 DEF SamplerTypes
  <2>5. cut' \subseteq Traces /\ aged' \subseteq Traces BY <1>1, <1>9 DEF SamplerTypes
  <2>6. request' \in [TracedRequests -> TracedRequest] /\ astride' \subseteq Traces BY DEF EndedThere
  <2>7. errors' \subseteq Spans BY <1>1, <1>2 DEF SamplerTypes, EndedThere
  <2> QED BY <1>1, <1>2, <1>5, <1>9, <2>1, <2>2, <2>3, <2>4, <2>5, <2>6, <2>7 DEF SamplerTypes
<1>18. Keys(order') = Keys(line) \ gone /\ InLine(order') BY <1>3, <1>9, LeavingTheLine
<1>19. Buffered' = Keys(line) \ gone BY <1>18 DEF Buffered
<1>20. BuffersSound'
  <2>1. \A u \in Traces : IsFiniteSet(buffers'[u]) /\ Cardinality(buffers'[u]) <= MaxSpansPerTrace
    <3>1. SUFFICES ASSUME NEW u \in Traces PROVE IsFiniteSet(buffers'[u]) /\ Cardinality(buffers'[u]) <= MaxSpansPerTrace OBVIOUS
    <3>2. IsFiniteSet(buffers[u]) /\ Cardinality(buffers[u]) <= MaxSpansPerTrace BY <1>1 DEF BuffersSound
    <3>3. CASE u \in gone BY <1>9, <3>3, FS_EmptySet, SamplerAssumption
    <3>4. CASE u \notin gone /\ u # t BY <1>1, <1>4, <1>9, <3>2, <3>4 DEF SamplerTypes
    <3>5. CASE u \notin gone /\ u = t
      <4>1. buffers'[u] = buffers[u] \cup {ended} BY <1>1, <1>4, <1>9, <3>5 DEF SamplerTypes
      <4>2. IsFiniteSet(buffers[u] \cup {ended}) /\ Cardinality(buffers[u] \cup {ended})
              = IF ended \in buffers[u] THEN Cardinality(buffers[u]) ELSE Cardinality(buffers[u]) + 1
        BY <3>2, FS_AddElement
      <4>3. PICK size \in Nat : size = Cardinality(buffers[u]) BY <3>2, FS_CardinalityType
      <4>4. size < MaxSpansPerTrace BY <3>5, <4>3
      <4> QED BY <4>1, <4>2, <4>3, <4>4, SamplerAssumption
    <3> QED BY <3>3, <3>4, <3>5
  <2>2. marked' \cap Buffered' = {} BY <1>1, <1>3, <1>9, <1>19 DEF BuffersSound
  <2>3. closing = "no" /\ Cardinality(Buffered') > MaxBufferedTraces => Complete(openSpans)' = {}
    <3>1. SUFFICES ASSUME Cardinality(Buffered') > MaxBufferedTraces PROVE Complete(openSpans)' = {} OBVIOUS
    <3>2. PICK stay : stay = Keys(line) \ gone OBVIOUS
    <3>3. stay = young \ Oldest(line, whole, Cardinality(young) - MaxBufferedTraces) BY <1>6, <1>7, <3>2
    <3>4. Cardinality(stay) > MaxBufferedTraces BY <1>19, <3>1, <3>2
    <3>5. {g \in stay : count[g] = 0} = {}
      <4>1. InLine(line) BY <1>3
      <4>2. young \in SUBSET Keys(line) /\ whole \in SUBSET young BY <1>6
      <4>3. stay \cap whole = {} BY <3>3, <3>4, <4>1, <4>2, EvictionBounds
      <4>4. stay \subseteq young BY <3>3
      <4> QED BY <1>6, <4>3, <4>4
    <3> QED BY <1>5, <1>19, <3>2, <3>5 DEF Complete
  <2>4. closing = "flush" => \A u \in Traces : openSpans'[u] # 0 => u \in astride'
    <3>1. SUFFICES ASSUME closing = "flush", NEW u \in Traces, openSpans'[u] # 0 PROVE u \in astride' OBVIOUS
    <3>2. openSpans[u] # 0 BY <1>5, <3>1
    <3>3. u \in astride BY <1>1, <3>1, <3>2 DEF BuffersSound
    <3> QED BY <3>3 DEF EndedThere
  <2>5. closing \in {"flag", "down"} => Buffered' \subseteq astride'
    <3>1. SUFFICES ASSUME closing \in {"flag", "down"} PROVE Buffered' \subseteq astride' OBVIOUS
    <3>2. astride \subseteq astride' /\ t \in astride' BY <3>1 DEF EndedThere
    <3>3. Buffered \subseteq astride BY <1>1, <3>1 DEF BuffersSound
    <3> QED BY <1>3, <1>19, <3>2, <3>3
  <2>6. closing \in {"no", "flush"} => outgoing[Closer] = {} BY <1>1 DEF BuffersSound
  <2> QED BY <1>2, <2>1, <2>2, <2>3, <2>4, <2>5, <2>6 DEF BuffersSound
<1>21. JudgedSound'
  <2>1. SUFFICES ASSUME closing = "no"
                 PROVE  /\ marked' \subseteq cut' /\ \A s \in dropped' : TraceOf(s)' \in cut'
                        /\ \A r \in TracedRequests : request'[r].trace \notin cut' => Whole(r)'
    BY <1>2, <1>5 DEF JudgedSound
  <2>2. marked' \subseteq cut' BY <1>1, <1>9, <2>1 DEF JudgedSound
  <2>3. ASSUME NEW s \in dropped' PROVE TraceOf(s)' \in cut'
    BY <1>1, <1>9, <2>1 DEF SamplerTypes, EndedThere, JudgedSound
  <2>4. ASSUME NEW r \in TracedRequests, request'[r].trace \notin cut' PROVE Whole(r)'
    <3>1. SpansOf(r)' = SpansOf(r) /\ SpansOf(r) \subseteq Spans /\ request'[r].trace = request[r].trace
          /\ \A s \in SpansOf(r) : TraceOf(s) = request[r].trace
      BY DEF EndedThere
    <3>2. request[r].trace \notin cut /\ Whole(r) BY <1>1, <1>9, <2>1, <2>4, <3>1 DEF JudgedSound
    <3>3. CASE \A s \in SpansOf(r) : \A g \in gone : s \notin filled[g]
      <4>1. ASSUME NEW s \in SpansOf(r)
            PROVE  /\ Taken(s)' <=> Taken(s)
                   /\ s \in judgedOut' <=> s \in judgedOut
                   /\ s \in judgedOut /\ s \in errors' => s \in errors
        <5>1. s \in Spans BY <3>1
        <5>2. CASE \E g \in Traces : s \in filled[g]
          <6>1. PICK g \in Traces : s \in filled[g] BY <5>2
          <6>2. g \in Traces \ gone BY <3>3, <6>1
          <6> QED BY <1>14, <5>1, <6>1, <6>2
        <5>3. CASE \A g \in Traces : s \notin filled[g] BY <1>15, <5>1, <5>3 DEF EndedThere
        <5> QED BY <5>2, <5>3
      <4> QED BY <3>1, <3>2, <4>1, VerdictStands
    <3>4. CASE \E s \in SpansOf(r) : \E g \in gone : s \in filled[g]
      <4>1. PICK some \in SpansOf(r), g \in gone : some \in filled[g] BY <3>4
      <4>2. g = request[r].trace /\ g \in Traces /\ ~Taken(some) /\ some \notin judgedOut BY <1>10, <1>11, <3>1, <4>1
      <4>3. Undecided(r) BY <3>2, <4>1, <4>2 DEF Whole
      <4>4. count[g] = 0
        <5>1. SUFFICES ASSUME count[g] # 0 PROVE FALSE OBVIOUS
        <5>2. g \notin whole BY <1>6, <5>1
        <5>3. g \in aged BY <1>7, <4>1, <5>2 DEF Oldest
        <5>4. g \in cut' BY <1>9, <4>1, <5>1, <5>3
        <5> QED BY <2>4, <3>1, <4>2, <5>4
      <4>5. \A s \in SpansOf(r) : Over(s)' BY <1>5, <2>1, <4>2, <4>4, FS_EmptySet DEF EndedThere
      <4>6. ASSUME NEW s \in SpansOf(r) PROVE s \in filled[g]
        <5>1. CASE s = ended BY <1>1, <1>2, <1>4, <3>1, <4>2, <5>1 DEF SamplerTypes
        <5>2. CASE s # ended
          <6>1. s \in Spans /\ Over(s) BY <3>1, <4>5, <5>2 DEF EndedThere
          <6>2. s \in dropped => TraceOf(s) \in cut BY <1>1, <2>1 DEF JudgedSound
          <6>3. s \in buffers[request[r].trace] BY <1>1, <2>1, <3>2, <4>2, <4>3, <6>1, <6>2, TheUndecidedWait
          <6> QED BY <1>1, <1>4, <4>2, <6>3 DEF SamplerTypes
        <5> QED BY <5>1, <5>2
      <4>7. CASE g \in kept BY <1>12, <3>1, <4>6, <4>7 DEF Whole
      <4>8. CASE g \notin kept BY <1>13, <3>1, <4>1, <4>6, <4>8 DEF Whole
      <4> QED BY <4>7, <4>8
    <3> QED BY <3>3, <3>4
  <2> QED BY <2>2, <2>3, <2>4
<1>22. \A r \in TracedRequests : TracedSound(r)' BY DEF EndedThere
<1>23. InLine(order)' BY <1>18 DEF InLine, Keys
<1>24. (aged \subseteq Buffered)' BY <1>1, <1>3, <1>9, <1>19
<1> QED BY <1>16, <1>17, <1>20, <1>21, <1>22, <1>23, <1>24 DEF SamplerInvariant

\* A span ends: nothing is kept of it once the processor is down, and else it follows
\* its trace's marker, or is buffered, or fills the buffer.
LEMMA EndSpanKeeps ==
    ASSUME SamplerInvariant, NEW q \in TracedRequests, NEW n \in 1 .. SpansPerRequest, EndSpan(q, n)
    PROVE  SamplerInvariant'
<1>0. PICK t, ended : t = request[q].trace /\ ended = <<q, n>> OBVIOUS
<1>1. EndedThere(q, t, ended) /\ (\A u \in Traces : OpenOf(u)' = OpenOf(u) \ {ended}) /\ ended \in OpenOf(t)
  BY <1>0, EndingASpan
<1>2. t \in Traces /\ ended \in Spans /\ ~Over(ended) /\ Over(ended)' /\ TraceOf(ended) = t BY <1>1 DEF EndedThere
<1>3. SamplerTypes /\ BuffersSound /\ JudgedSound /\ aged \subseteq Buffered /\ \A s \in Spans : SpanSound(s) BY DEF SamplerInvariant
<1>4. SpanSound(ended) BY <1>2, <1>3
<1>5. CASE closing = "down" /\ UNCHANGED <<openSpans, order, aged, buffers, marked, streams, exported, judgedOut, dropped, cut>>
  <2>1. UNCHANGED <<chance, closing, late, outgoing>> BY <1>1 DEF EndedThere
  <2>2. ASSUME NEW s \in Spans \ {ended} PROVE SpanSound(s)' BY <1>1, <1>3, <1>5, <2>1, SpanStays DEF EndedThere
  <2>3. SpanSound(ended)'
    <3>1. /\ \A u \in Traces : ended \notin buffers[u]
          /\ \A batch \in streams : ended \notin batch
          /\ \A who \in Exporters : \A batch \in outgoing[who] : ended \notin batch
          /\ exported[ended] = 0 /\ ended \notin judgedOut /\ ended \notin dropped
      BY <1>2, <1>4, PlacesAreOfEnded
    <3>2. ~Held(ended)' BY <1>5, <3>1 DEF Held
    <3>3. ~Streamed(ended)' BY <1>5, <3>1 DEF Streamed
    <3>4. \A who \in Exporters : ~Sent(ended, who)' BY <2>1, <3>1 DEF Sent
    <3>5. ~Away(ended)' BY <3>3, <3>4 DEF Away
    <3>6. TraceOf(ended)' \in astride' BY <1>1, <1>2, <1>5 DEF EndedThere
    <3>7. closing' = "down" BY <1>5, <2>1
    <3>8. exported'[ended] = 0 /\ ended \notin judgedOut' /\ ended \notin dropped' BY <1>5, <3>1
    <3>9. \A u \in Traces : ended \notin buffers'[u] BY <1>5, <3>1
    <3>10. \A batch \in streams' : ended \notin batch BY <1>5, <3>1
    <3>11. \A who \in Exporters : \A batch \in outgoing'[who] : ended \notin batch BY <2>1, <3>1
    <3> QED BY <1>2, <3>2, <3>3, <3>4, <3>5, <3>6, <3>7, <3>8, <3>9, <3>10, <3>11 DEF SpanSound
  <2>4. SamplerTypes' BY <1>1, <1>2, <1>3, <1>5, <2>1 DEF SamplerTypes, EndedThere
  <2>5. BuffersSound' BY <1>1, <1>3, <1>5, <2>1 DEF EndedThere, Buffered, BuffersSound
  <2>6. JudgedSound' BY <1>5, <2>1 DEF JudgedSound
  <2>7. \A r \in TracedRequests : TracedSound(r)' BY <1>1 DEF EndedThere
  <2>8. InLine(order)' BY <1>5 DEF SamplerInvariant, InLine, Keys
  <2>9. (aged \subseteq Buffered)' BY <1>3, <1>5 DEF Buffered
  <2> QED BY <2>2, <2>3, <2>4, <2>5, <2>6, <2>7, <2>8, <2>9 DEF SamplerInvariant
<1>6. CASE /\ openSpans' = [openSpans EXCEPT ![t] = StillOpen(t)]
           /\ \/ t \in marked /\ FollowMarker(ended, t)
              \/ t \notin marked /\ Cardinality(buffers[t]) < MaxSpansPerTrace /\ Buffer(ended, t, errors')
              \/ t \notin marked /\ Overflow(ended, t)
  <2>1. CountsDown(t) BY <1>1, <1>2, <1>6, CountingDown DEF CountsDown
  <2>2. /\ \A u \in Traces : ended \notin buffers[u]
    BY <1>2, <1>4, PlacesAreOfEnded
  <2>3. order \in SUBSET (Traces \X Traces) /\ InLine(order) /\ Keys(order) = Buffered /\ cut \in SUBSET Traces
    BY <1>3 DEF SamplerInvariant, SamplerTypes, Buffered
  <2>4. CASE t \in marked /\ FollowMarker(ended, t)
    <3>1. buffers' = [buffers EXCEPT ![t] = @ \ {ended}] BY <1>2, <1>3, <2>2, <2>4 DEF FollowMarker, SamplerTypes
    <3>2. order' = order /\ aged' = aged /\ exported' = exported /\ judgedOut' = judgedOut /\ cut' = cut /\ marked' \subseteq marked
      BY <2>4 DEF FollowMarker
    <3>3. \/ dropped' = dropped \cup {ended} /\ streams' = streams
          \/ streams' = streams \cup {{ended}} /\ dropped' = dropped
      BY <2>4 DEF FollowMarker
    <3>4. t \notin Keys(order) BY <1>3, <2>3, <2>4 DEF BuffersSound
    <3>5. closing = "no" => t \in cut BY <1>3, <2>4 DEF JudgedSound
    <3>6. InLine(order') /\ Keys(order') \subseteq Keys(order) \ {t} /\ aged' \subseteq Keys(order') BY <1>3, <2>3, <3>2, <3>4
    <3>7. {ended} \in SUBSET Spans /\ ended \in {ended} /\ {ended} \subseteq buffers[t] \cup {ended} BY <1>2
    <3>8. marked' \subseteq marked \cup {t} /\ cut' \in SUBSET Traces /\ cut \subseteq cut' /\ (closing = "no" => t \in cut')
      BY <2>3, <3>2, <3>5
    <3>9. order' \in SUBSET (Traces \X Traces) BY <2>3, <3>2
    <3>10. Discards(t, ended, {ended}) BY <2>1, <3>1, <3>2, <3>3, <3>6, <3>7, <3>8, <3>9 DEF Discards
    <3> QED BY <1>1, <3>7, <3>10, DiscardingKeeps
  <2>5. CASE t \notin marked /\ Cardinality(buffers[t]) < MaxSpansPerTrace /\ Buffer(ended, t, errors')
    BY <1>1, <1>6, <2>1, <2>5, BufferKeeps
  <2>6. CASE t \notin marked /\ Overflow(ended, t)
    <3>1. PICK taken \in SUBSET Spans : taken = buffers[t] \cup {ended} BY <1>2, <1>3 DEF SamplerTypes
    <3>2. buffers' = [buffers EXCEPT ![t] = @ \ taken] BY <2>6, <3>1 DEF Overflow
    <3>3. order' = Without(order, {t}) /\ aged' = aged \ {t} /\ exported' = exported /\ judgedOut' = judgedOut
          /\ cut' = cut \cup {t} /\ marked' = marked \cup {t}
      BY <2>6 DEF Overflow
    <3>4. \/ dropped' = dropped \cup taken /\ streams' = streams
          \/ streams' = streams \cup {taken} /\ dropped' = dropped
      BY <2>6, <3>1 DEF Overflow
    <3>5. Keys(Without(order, {t})) = Keys(order) \ {t} /\ InLine(Without(order, {t})) BY <2>3, LeavingTheLine
    <3>6. InLine(order') /\ Keys(order') \subseteq Keys(order) \ {t} /\ aged' \subseteq Keys(order') BY <1>3, <2>3, <3>3, <3>5
    <3>7. ended \in taken /\ taken \subseteq buffers[t] \cup {ended} BY <3>1
    <3>8. marked' \subseteq marked \cup {t} /\ cut' \in SUBSET Traces /\ cut \subseteq cut' /\ t \in cut' BY <1>2, <2>3, <3>3
    <3>9. order' \in SUBSET (Traces \X Traces) BY <2>3, <3>3 DEF Without
    <3>10. Discards(t, ended, taken) BY <2>1, <3>2, <3>3, <3>4, <3>6, <3>7, <3>8, <3>9 DEF Discards
    <3> QED BY <1>1, <3>10, DiscardingKeeps
  <2> QED BY <1>6, <2>4, <2>5, <2>6
<1> QED BY <1>0, <1>5, <1>6 DEF EndSpan, verdicts

\* The requests keep their traces and their spans.
RequestsStand ==
    /\ request' \in [TracedRequests -> TracedRequest]
    /\ \A q \in TracedRequests : /\ request'[q].trace = request[q].trace /\ request'[q].started = request[q].started
                                 /\ request'[q].open = request[q].open /\ TracedSound(q)'

LEMMA SpansStand ==
    ASSUME SamplerInvariant, RequestsStand
    PROVE  /\ \A s \in Spans : (Over(s)' <=> Over(s)) /\ TraceOf(s)' = TraceOf(s)
           /\ \A q \in TracedRequests : /\ SpansOf(q)' = SpansOf(q) /\ SpansOf(q) \subseteq Spans
                                        /\ \A s \in SpansOf(q) : TraceOf(s) = request[q].trace
           /\ \A u \in Traces : OpenOf(u)' = OpenOf(u)
<1>1. ASSUME NEW s \in Spans
      PROVE  /\ (Over(s)' <=> Over(s)) /\ TraceOf(s)' = TraceOf(s)
             /\ \A u \in Traces : s \in OpenOf(u)' <=> s \in OpenOf(u)
  <2>1. s[1] \in TracedRequests BY DEF Spans
  <2>2. request'[s[1]].trace = request[s[1]].trace /\ request'[s[1]].started = request[s[1]].started
        /\ request'[s[1]].open = request[s[1]].open
    BY <2>1 DEF RequestsStand
  <2> QED BY <2>2 DEF Over, TraceOf, OpenOf
<1>2. ASSUME NEW q \in TracedRequests
      PROVE  SpansOf(q)' = SpansOf(q) /\ SpansOf(q) \subseteq Spans /\ \A s \in SpansOf(q) : TraceOf(s) = request[q].trace
  <2>1. SpansOf(q)' = SpansOf(q) BY DEF RequestsStand, SpansOf
  <2>2. SpansOf(q) \subseteq Spans
    <3>1. request[q].started \in 0 .. SpansPerRequest BY DEF SamplerInvariant, SamplerTypes, TracedRequest
    <3>2. 1 .. request[q].started \subseteq 1 .. SpansPerRequest BY <3>1, SamplerAssumption
    <3> QED BY <3>2 DEF SpansOf, Spans
  <2>3. \A s \in SpansOf(q) : TraceOf(s) = request[q].trace BY DEF SpansOf, TraceOf
  <2> QED BY <2>1, <2>2, <2>3
<1>3. \A u \in Traces : OpenOf(u)' = OpenOf(u) BY <1>1 DEF OpenOf
<1> QED BY <1>1, <1>2, <1>3

\* A flush takes every complete trace out of the buffers.
LEMMA FlushingKeeps ==
    ASSUME SamplerInvariant, NEW who \in Exporters, ForceFlush(who), outgoing[who] = {}, RequestsStand, late' = late,
           \/ closing' = closing /\ who # Closer
           \/ closing = "flush" /\ closing' = "flag"
    PROVE  SamplerInvariant'
<1>1. SamplerTypes /\ BuffersSound /\ JudgedSound /\ aged \subseteq Buffered /\ \A s \in Spans : SpanSound(s) BY DEF SamplerInvariant
<1>2. /\ \A s \in Spans : (Over(s)' <=> Over(s)) /\ TraceOf(s)' = TraceOf(s)
      /\ \A r \in TracedRequests : /\ SpansOf(r)' = SpansOf(r) /\ SpansOf(r) \subseteq Spans
                                   /\ \A s \in SpansOf(r) : TraceOf(s) = request[r].trace
      /\ \A u \in Traces : OpenOf(u)' = OpenOf(u)
  BY SpansStand
<1>3. PICK gone \in SUBSET Traces : gone = Resolvable BY DEF Resolvable, Complete, Buffered, Keys
<1>4. PICK kept \in SUBSET gone : kept = {g \in gone : ShouldKeep(g, buffers[g], errors)} OBVIOUS
<1>5. /\ order' = Without(order, gone) /\ aged' = aged \ gone
      /\ buffers' = [g \in Traces |-> IF g \in gone THEN {} ELSE buffers[g]]
      /\ marked' = marked \ gone
      /\ outgoing' = [outgoing EXCEPT ![who] = {buffers[g] : g \in kept}]
      /\ judgedOut' = judgedOut \cup UNION {buffers[g] : g \in gone \ kept}
  BY <1>3, <1>4 DEF ForceFlush
<1>6. UNCHANGED <<chance, openSpans, streams, errors, exported, dropped, cut, astride>> BY DEF ForceFlush
<1>7. outgoing'[who] = {buffers[g] : g \in kept} /\ \A other \in Exporters \ {who} : outgoing'[other] = outgoing[other]
  BY <1>1, <1>5 DEF SamplerTypes
<1>8. \A g \in gone : g \in Buffered /\ openSpans[g] = 0 BY <1>3 DEF Resolvable, Complete
<1>9. ASSUME NEW s \in Spans, NEW g \in Traces, s \in buffers[g]
      PROVE  /\ Over(s) /\ g = TraceOf(s) /\ \A u \in Traces : s \in buffers[u] => u = g
             /\ \A batch \in streams : s \notin batch
             /\ \A other \in Exporters : \A batch \in outgoing[other] : s \notin batch
             /\ exported[s] = 0 /\ s \notin judgedOut /\ s \notin dropped /\ ~Taken(s)
  BY <1>1, <1>9, PlacesOfTheBuffered
<1>10. ASSUME NEW s \in Spans, NEW g \in kept, s \in buffers[g] PROVE SpanSound(s)' /\ Taken(s)'
  <2>1. g \in Traces /\ g \in gone OBVIOUS
  <2>2. \A u \in Traces : s \notin buffers'[u] BY <1>5, <1>9, <1>10, <2>1
  <2>3. exported'[s] = 0 /\ s \notin dropped' /\ Over(s)' BY <1>2, <1>6, <1>9, <1>10, <2>1
  <2>4. s \notin judgedOut' BY <1>5, <1>9, <1>10, <2>1
  <2>5. \A batch \in streams' : s \notin batch BY <1>6, <1>9, <1>10, <2>1
  <2> DEFINE parcel == buffers[g]
  <2>6. parcel \in outgoing'[who] BY <1>7, <1>10
  <2>7. ASSUME NEW other \in Exporters, NEW batch \in outgoing'[other], s \in batch PROVE other = who /\ batch = parcel
    <3>1. other = who BY <1>7, <1>9, <1>10, <2>1, <2>7
    <3>2. PICK h \in kept : batch = buffers[h] BY <1>7, <2>7, <3>1
    <3>3. h = g BY <1>9, <1>10, <2>1, <2>7, <3>2
    <3> QED BY <3>1, <3>2, <3>3
  <2> QED BY <1>10, <2>2, <2>3, <2>4, <2>5, <2>6, <2>7, SpanLeaves
<1>11. ASSUME NEW s \in Spans, NEW g \in gone \ kept, s \in buffers[g]
       PROVE  SpanSound(s)' /\ s \in judgedOut' /\ s \notin errors'
  <2>1. g \in Traces OBVIOUS
  <2>2. \A u \in Traces : s \notin buffers'[u] BY <1>5, <1>9, <1>11, <2>1
  <2>3. exported'[s] = 0 /\ s \notin dropped' /\ Over(s)' BY <1>2, <1>6, <1>9, <1>11, <2>1
  <2>4. s \in judgedOut' BY <1>5, <1>11
  <2>5. \A batch \in streams' : s \notin batch BY <1>6, <1>9, <1>11, <2>1
  <2>6. \A other \in Exporters : \A batch \in outgoing'[other] : s \notin batch BY <1>7, <1>9, <1>11, <2>1
  <2>7. SpanSound(s)' BY <2>2, <2>3, <2>4, <2>5, <2>6, SpanSettles
  <2>8. s \notin errors' BY <1>4, <1>6, <1>11 DEF ShouldKeep
  <2> QED BY <2>4, <2>7, <2>8
<1>12. ASSUME NEW s \in Spans, \A g \in gone : s \notin buffers[g]
       PROVE  SpanSound(s)' /\ (Taken(s)' <=> Taken(s)) /\ (s \in judgedOut' <=> s \in judgedOut)
  <2>1. \A u \in Traces : s \in buffers'[u] <=> s \in buffers[u] BY <1>5, <1>12
  <2>2. s \in judgedOut' <=> s \in judgedOut BY <1>5, <1>12
  <2>3. \A other \in Exporters : \A batch : s \in batch => (batch \in outgoing'[other] <=> batch \in outgoing[other])
    <3>1. SUFFICES ASSUME NEW other \in Exporters, NEW batch, s \in batch
                   PROVE  batch \in outgoing'[other] <=> batch \in outgoing[other]
      OBVIOUS
    <3>2. CASE other # who BY <1>7, <3>2
    <3>3. CASE other = who BY <1>7, <1>12, <3>1, <3>3
    <3> QED BY <3>2, <3>3
  <2>4. \A batch : s \in batch => (batch \in streams' <=> batch \in streams) BY <1>6
  <2>5. closing = "down" => closing' = "down" OBVIOUS
  <2>6. SpanSound(s)' /\ (Taken(s)' <=> Taken(s)) BY <1>1, <1>2, <1>6, <2>1, <2>2, <2>3, <2>4, <2>5, SpanStays
  <2> QED BY <2>2, <2>6
<1>13. \A s \in Spans : SpanSound(s)' BY <1>10, <1>11, <1>12
<1>14. SamplerTypes'
  <2>1. \A g \in Traces : buffers[g] \in SUBSET Spans BY <1>1 DEF SamplerTypes
  <2>2. buffers' \in [Traces -> SUBSET Spans] BY <1>5, <2>1
  <2>3. order' \in SUBSET (Traces \X Traces) BY <1>1, <1>5 DEF Without, SamplerTypes
  <2>4. judgedOut' \subseteq Spans BY <1>1, <1>5, <2>1 DEF SamplerTypes
  <2>5. outgoing' \in [Exporters -> SUBSET SUBSET Spans] BY <1>1, <1>5, <2>1 DEF SamplerTypes
  <2>6. marked' \subseteq Traces /\ aged' \subseteq Traces BY <1>1, <1>5 DEF SamplerTypes
  <2>7. closing' \in {"no", "flush", "flag", "down"} BY <1>1 DEF SamplerTypes
  <2>8. request' \in [TracedRequests -> TracedRequest] BY DEF RequestsStand
  <2> QED BY <1>1, <1>6, <2>2, <2>3, <2>4, <2>5, <2>6, <2>7, <2>8 DEF SamplerTypes
<1>15. Keys(order') = Buffered \ gone /\ InLine(order') BY <1>5, LeavingTheLine DEF SamplerInvariant, Buffered
<1>16. Buffered' = Buffered \ gone BY <1>15 DEF Buffered
<1>17. \A u \in Buffered' : openSpans[u] # 0 BY <1>3, <1>16 DEF Resolvable, Complete
<1>18. BuffersSound'
  <2>1. \A u \in Traces : IsFiniteSet(buffers'[u]) /\ Cardinality(buffers'[u]) <= MaxSpansPerTrace
    <3>1. SUFFICES ASSUME NEW u \in Traces PROVE IsFiniteSet(buffers'[u]) /\ Cardinality(buffers'[u]) <= MaxSpansPerTrace OBVIOUS
    <3>2. CASE u \in gone BY <1>5, <3>2, FS_EmptySet, SamplerAssumption
    <3>3. CASE u \notin gone BY <1>1, <1>5, <3>3 DEF BuffersSound
    <3> QED BY <3>2, <3>3
  <2>2. marked' \cap Buffered' = {} BY <1>1, <1>5, <1>16 DEF BuffersSound
  <2>3. Complete(openSpans)' = {} BY <1>6, <1>17 DEF Complete
  <2>4. closing' \in {"no", "flush"} => outgoing'[Closer] = {}
    <3>1. SUFFICES ASSUME closing' \in {"no", "flush"} PROVE outgoing'[Closer] = {} OBVIOUS
    <3>2. closing' = closing /\ who # Closer BY <3>1
    <3>3. outgoing[Closer] = {} BY <1>1, <3>1, <3>2 DEF BuffersSound
    <3> QED BY <1>7, <3>2, <3>3 DEF Exporters
  <2>5. closing' = "flush" => \A u \in Traces : openSpans'[u] # 0 => u \in astride' BY <1>1, <1>6 DEF BuffersSound
  <2>6. closing' \in {"flag", "down"} => Buffered' \subseteq astride'
    <3>1. SUFFICES ASSUME closing' \in {"flag", "down"}, NEW u \in Buffered' PROVE u \in astride' OBVIOUS
    <3>2. CASE closing = "flush" BY <1>1, <1>6, <1>17, <3>1, <3>2 DEF Buffered, Keys, BuffersSound
    <3>3. CASE closing # "flush" BY <1>1, <1>6, <1>16, <3>1, <3>3 DEF BuffersSound
    <3> QED BY <3>2, <3>3
  <2> QED BY <2>1, <2>2, <2>3, <2>4, <2>5, <2>6 DEF BuffersSound
<1>19. JudgedSound'
  <2>1. SUFFICES ASSUME closing' = "no" PROVE JudgedSound' BY DEF JudgedSound
  <2>2. closing = "no" BY <2>1
  <2>3. \A u \in Traces : IsFiniteSet(OpenOf(u)') /\ openSpans'[u] = Cardinality(OpenOf(u)') BY <1>1, <1>2, <1>6, <2>2 DEF JudgedSound
  <2>4. marked' \subseteq cut' BY <1>1, <1>5, <1>6, <2>2 DEF JudgedSound
  <2>5. \A s \in dropped' : TraceOf(s)' \in cut' BY <1>1, <1>2, <1>6, <2>2 DEF SamplerTypes, JudgedSound
  <2>6. ASSUME NEW r \in TracedRequests, request'[r].trace \notin cut' PROVE Whole(r)'
    <3>1. request[r].trace \notin cut BY <1>6, <2>6 DEF RequestsStand
    <3>2. Whole(r) BY <1>1, <2>2, <3>1 DEF JudgedSound
    <3>3. CASE \A s \in SpansOf(r) : \A g \in gone : s \notin buffers[g]
      BY <1>2, <1>6, <1>12, <3>2, <3>3, VerdictStands
    <3>4. CASE \E s \in SpansOf(r) : \E g \in gone : s \in buffers[g]
      <4>1. PICK some \in SpansOf(r), g \in gone : some \in buffers[g] BY <3>4
      <4>2. g = request[r].trace /\ g \in Traces /\ ~Taken(some) /\ some \notin judgedOut BY <1>2, <1>9, <4>1
      <4>3. Undecided(r) BY <3>2, <4>1, <4>2 DEF Whole
      <4>4. ASSUME NEW s \in SpansOf(r) PROVE s \in buffers[g]
        <5>1. s \in Spans BY <1>2
        <5>2. Over(s)
          <6>1. openSpans[g] = 0 BY <1>8, <4>1
          <6>2. IsFiniteSet(OpenOf(g)) /\ Cardinality(OpenOf(g)) = 0 BY <1>1, <2>2, <4>2, <6>1 DEF JudgedSound
          <6>3. OpenOf(g) = {} BY <6>2, FS_EmptySet
          <6>4. PICK m \in 1 .. request[r].started : s = <<r, m>> BY DEF SpansOf
          <6>5. m \notin request[r].open BY <4>2, <5>1, <6>3, <6>4 DEF OpenOf
          <6> QED BY <6>4, <6>5 DEF Over
        <5>3. s \in dropped => TraceOf(s) \in cut BY <1>1, <2>2 DEF JudgedSound
        <5>4. s \in buffers[request[r].trace] BY <1>1, <2>2, <3>1, <4>2, <4>3, <5>1, <5>2, <5>3, TheUndecidedWait
        <5> QED BY <4>2, <5>4
      <4>5. CASE g \in kept BY <1>2, <1>10, <4>4, <4>5 DEF Whole
      <4>6. CASE g \notin kept BY <1>2, <1>11, <4>1, <4>4, <4>6 DEF Whole
      <4> QED BY <4>5, <4>6
    <3> QED BY <3>3, <3>4
  <2> QED BY <2>3, <2>4, <2>5, <2>6 DEF JudgedSound
<1>20. \A r \in TracedRequests : TracedSound(r)' BY DEF RequestsStand
<1>21. InLine(order)' BY <1>15 DEF InLine, Keys
<1>22. (aged \subseteq Buffered)' BY <1>1, <1>5, <1>16
<1> QED BY <1>13, <1>14, <1>18, <1>19, <1>20, <1>21, <1>22 DEF SamplerInvariant

\* A batch comes to the exporter.
LEMMA ExportKeeps ==
    ASSUME SamplerInvariant, NEW batch, Export(batch)
    PROVE  SamplerInvariant'
<1>1. SamplerTypes /\ BuffersSound /\ JudgedSound /\ aged \subseteq Buffered /\ \A s \in Spans : SpanSound(s) BY DEF SamplerInvariant
<1>2. UNCHANGED <<chance, buffers, order, aged, openSpans, marked, request, closing, late, errors, judgedOut, dropped, cut, astride>>
  BY DEF Export
<1>3. \/ batch \in streams /\ streams' = streams \ {batch} /\ outgoing' = outgoing
      \/ /\ streams' = streams
         /\ \E who \in Exporters : batch \in outgoing[who] /\ outgoing' = [outgoing EXCEPT ![who] = @ \ {batch}]
  BY DEF Export, Exporters
<1>4. exported' = [s \in Spans |-> exported[s] + IF s \in batch THEN 1 ELSE 0] BY DEF Export, ToExporter
<1>5. \A s \in Spans : exported[s] \in Nat BY <1>1 DEF SamplerTypes
<1>6. SamplerTypes' BY <1>1, <1>2, <1>3, <1>4, <1>5 DEF SamplerTypes
<1>7. \A who \in Exporters : outgoing'[who] \subseteq outgoing[who] BY <1>1, <1>3 DEF SamplerTypes
<1>8. RequestsStand
  <2>1. \A q \in TracedRequests : TracedSound(q)'
    <3>1. SUFFICES ASSUME NEW q \in TracedRequests PROVE TracedSound(q)' OBVIOUS
    <3>2. TracedSound(q) BY DEF SamplerInvariant
    <3>3. outgoing'[q] \subseteq outgoing[q] BY <1>7 DEF Exporters
    <3> QED BY <1>2, <3>2, <3>3 DEF TracedSound
  <2> QED BY <1>1, <1>2, <2>1 DEF RequestsStand, SamplerTypes
<1>9. /\ \A s \in Spans : (Over(s)' <=> Over(s)) /\ TraceOf(s)' = TraceOf(s)
      /\ \A r \in TracedRequests : /\ SpansOf(r)' = SpansOf(r) /\ SpansOf(r) \subseteq Spans
                                   /\ \A s \in SpansOf(r) : TraceOf(s) = request[r].trace
      /\ \A u \in Traces : OpenOf(u)' = OpenOf(u)
  BY <1>8, SpansStand
<1>10. ASSUME NEW s \in Spans, s \in batch PROVE SpanSound(s)' /\ Taken(s)' /\ Taken(s)
  <2>1. SpanSound(s) BY <1>1
  <2>2. Away(s) BY <1>3, <1>10 DEF Away, Streamed, Sent
  <2>3. ~Lost(s) BY <2>2 DEF Lost
  <2>4. Over(s)' BY <1>9, <2>1, <2>3 DEF SpanSound
  <2>5. ~Held(s) /\ exported[s] = 0 /\ s \notin judgedOut /\ s \notin dropped BY <2>1, <2>2 DEF SpanSound
  <2>6. \A u \in Traces : s \notin buffers'[u] BY <1>2, <2>5 DEF Held
  <2>7. exported'[s] = 1 /\ s \notin judgedOut' /\ s \notin dropped' BY <1>2, <1>4, <1>10, <2>5
  <2>8. \A other \in streams' : s \notin other
    <3>1. CASE batch \in streams /\ streams' = streams \ {batch} BY <1>10, <2>1, <3>1 DEF SpanSound
    <3>2. CASE streams' = streams /\ \E who \in Exporters : batch \in outgoing[who]
      <4>1. PICK who \in Exporters : batch \in outgoing[who] BY <3>2
      <4>2. Sent(s, who) BY <1>10, <4>1 DEF Sent
      <4>3. ~Streamed(s) BY <2>1, <4>2 DEF SpanSound
      <4> QED BY <3>2, <4>3 DEF Streamed
    <3> QED BY <1>3, <3>1, <3>2
  <2>9. \A who \in Exporters : \A other \in outgoing'[who] : s \notin other
    <3>1. SUFFICES ASSUME NEW who \in Exporters, NEW other \in outgoing'[who], s \in other PROVE FALSE OBVIOUS
    <3>2. other \in outgoing[who] BY <1>7
    <3>3. Sent(s, who) BY <3>1, <3>2 DEF Sent
    <3>4. ~Streamed(s) BY <2>1, <3>3 DEF SpanSound
    <3>5. batch \notin streams BY <1>10, <3>4 DEF Streamed
    <3>6. PICK me \in Exporters : batch \in outgoing[me] /\ outgoing' = [outgoing EXCEPT ![me] = @ \ {batch}] BY <1>3, <3>5
    <3>7. Sent(s, me) BY <1>10, <3>6 DEF Sent
    <3>8. me = who BY <2>1, <3>3, <3>7 DEF SpanSound
    <3>9. other = batch BY <1>10, <2>1, <3>1, <3>2, <3>6, <3>8 DEF SpanSound
    <3>10. outgoing'[me] = outgoing[me] \ {batch} BY <1>1, <3>6 DEF SamplerTypes
    <3> QED BY <3>1, <3>8, <3>9, <3>10
  <2>10. SpanSound(s)' /\ (Taken(s)' <=> exported'[s] = 1) BY <2>4, <2>6, <2>7, <2>8, <2>9, SpanSettles
  <2> QED BY <2>2, <2>7, <2>10 DEF Taken
<1>11. ASSUME NEW s \in Spans, s \notin batch PROVE SpanSound(s)' /\ (Taken(s)' <=> Taken(s))
  <2>1. exported'[s] = exported[s] BY <1>4, <1>5, <1>11
  <2>2. \A other : s \in other => (other \in streams' <=> other \in streams) BY <1>3, <1>11
  <2>3. \A who \in Exporters : \A other : s \in other => (other \in outgoing'[who] <=> other \in outgoing[who])
    <3>1. SUFFICES ASSUME NEW who \in Exporters, NEW other, s \in other
                   PROVE  other \in outgoing'[who] <=> other \in outgoing[who]
      OBVIOUS
    <3>2. CASE outgoing' = outgoing BY <3>2
    <3>3. CASE \E me \in Exporters : outgoing' = [outgoing EXCEPT ![me] = @ \ {batch}]
      BY <1>1, <1>11, <3>1, <3>3 DEF SamplerTypes
    <3> QED BY <1>3, <3>2, <3>3
  <2> QED BY <1>1, <1>2, <1>9, <2>1, <2>2, <2>3, SpanStays
<1>12. \A s \in Spans : SpanSound(s)' BY <1>10, <1>11
<1>13. BuffersSound'
  <2>1. Buffered' = Buffered /\ Complete(openSpans)' = Complete(openSpans) BY <1>2 DEF Buffered, Complete
  <2>2. closing \in {"no", "flush"} => outgoing'[Closer] = {} BY <1>1, <1>7 DEF Exporters, BuffersSound
  <2> QED BY <1>1, <1>2, <2>1, <2>2 DEF BuffersSound
<1>14. JudgedSound'
  <2>1. SUFFICES ASSUME closing = "no" PROVE JudgedSound' BY <1>2 DEF JudgedSound
  <2>2. \A u \in Traces : IsFiniteSet(OpenOf(u)') /\ openSpans'[u] = Cardinality(OpenOf(u)') BY <1>1, <1>2, <1>9, <2>1 DEF JudgedSound
  <2>3. \A s \in dropped' : TraceOf(s)' \in cut' BY <1>1, <1>2, <1>9, <2>1 DEF SamplerTypes, JudgedSound
  <2>4. ASSUME NEW r \in TracedRequests, request'[r].trace \notin cut' PROVE Whole(r)'
    <3>1. Whole(r) BY <1>1, <1>2, <2>1, <2>4 DEF JudgedSound
    <3>2. \A s \in SpansOf(r) : /\ Taken(s)' <=> Taken(s)
                                /\ s \in judgedOut' <=> s \in judgedOut
                                /\ s \in judgedOut /\ s \in errors' => s \in errors
      BY <1>2, <1>9, <1>10, <1>11
    <3> QED BY <1>9, <3>1, <3>2, VerdictStands
  <2>5. marked' \subseteq cut' BY <1>1, <1>2, <2>1 DEF JudgedSound
  <2> QED BY <2>2, <2>3, <2>4, <2>5 DEF JudgedSound
<1>15. \A r \in TracedRequests : TracedSound(r)' BY <1>8 DEF RequestsStand
<1>16. InLine(order)' BY <1>2 DEF SamplerInvariant, InLine, Keys
<1>17. (aged \subseteq Buffered)' BY <1>1, <1>2 DEF Buffered
<1> QED BY <1>6, <1>12, <1>13, <1>14, <1>15, <1>16, <1>17 DEF SamplerInvariant

\* A step that moves no span.
LEMMA NothingMoves ==
    ASSUME SamplerInvariant, UNCHANGED <<chance, buffers, order, marked, outgoing, streams, errors, exported, judgedOut, dropped, cut, astride>>,
           RequestsStand, aged' \subseteq Buffered, late' \subseteq Spans, openSpans' \in [Traces -> Nat],
           closing' \in {"no", "flush", "flag", "down"}, closing = "down" => closing' = "down",
           closing' = "no" => closing = "no" /\ openSpans' = openSpans,
           closing' = "flush" => \/ closing = "flush" /\ openSpans' = openSpans
                                 \/ closing = "no" /\ \A u \in Traces : openSpans'[u] = 0,
           closing' \in {"flag", "down"} => closing \in {"flag", "down"}
    PROVE  SamplerInvariant'
<1>1. SamplerTypes /\ BuffersSound /\ JudgedSound /\ \A s \in Spans : SpanSound(s) BY DEF SamplerInvariant
<1>2. /\ \A s \in Spans : (Over(s)' <=> Over(s)) /\ TraceOf(s)' = TraceOf(s)
      /\ \A r \in TracedRequests : /\ SpansOf(r)' = SpansOf(r) /\ SpansOf(r) \subseteq Spans
                                   /\ \A s \in SpansOf(r) : TraceOf(s) = request[r].trace
      /\ \A u \in Traces : OpenOf(u)' = OpenOf(u)
  BY SpansStand
<1>3. \A s \in Spans : SpanSound(s)' /\ (Taken(s)' <=> Taken(s)) BY <1>1, <1>2, SpanStays
<1>4. SamplerTypes' BY <1>1 DEF Buffered, Keys, SamplerTypes, RequestsStand
<1>5. Buffered' = Buffered BY DEF Buffered
<1>6. BuffersSound'
  <2>1. closing' = "no" /\ Cardinality(Buffered') > MaxBufferedTraces => Complete(openSpans)' = {}
    <3>1. SUFFICES ASSUME closing' = "no", Cardinality(Buffered') > MaxBufferedTraces PROVE Complete(openSpans)' = {} OBVIOUS
    <3>2. Complete(openSpans)' = Complete(openSpans) BY <1>5, <3>1 DEF Complete
    <3> QED BY <1>1, <1>5, <3>1, <3>2 DEF BuffersSound
  <2>2. closing' \in {"no", "flush"} => outgoing'[Closer] = {} BY <1>1 DEF BuffersSound
  <2>3. closing' = "flush" => \A u \in Traces : openSpans'[u] # 0 => u \in astride' BY <1>1 DEF BuffersSound
  <2>4. closing' \in {"flag", "down"} => Buffered' \subseteq astride' BY <1>1, <1>5 DEF BuffersSound
  <2> QED BY <1>1, <1>5, <2>1, <2>2, <2>3, <2>4 DEF BuffersSound
<1>7. JudgedSound'
  <2>1. SUFFICES ASSUME closing' = "no" PROVE JudgedSound' BY DEF JudgedSound
  <2>2. closing = "no" /\ openSpans' = openSpans BY <2>1
  <2>3. \A u \in Traces : IsFiniteSet(OpenOf(u)') /\ openSpans'[u] = Cardinality(OpenOf(u)') BY <1>1, <1>2, <2>2 DEF JudgedSound
  <2>4. \A s \in dropped' : TraceOf(s)' \in cut' BY <1>1, <1>2, <2>2 DEF SamplerTypes, JudgedSound
  <2>5. ASSUME NEW r \in TracedRequests, request'[r].trace \notin cut' PROVE Whole(r)'
    BY <1>1, <1>2, <1>3, <2>2, <2>5, VerdictStands DEF RequestsStand, JudgedSound
  <2>6. marked' \subseteq cut' BY <1>1, <2>2 DEF JudgedSound
  <2> QED BY <2>3, <2>4, <2>5, <2>6 DEF JudgedSound
<1>8. \A r \in TracedRequests : TracedSound(r)' BY DEF RequestsStand
<1>9. InLine(order)' BY DEF SamplerInvariant, InLine, Keys
<1>10. (aged \subseteq Buffered)' BY <1>5
<1> QED BY <1>3, <1>4, <1>6, <1>7, <1>8, <1>9, <1>10 DEF SamplerInvariant

\* The requests, the clock and the shutdown.
LEMMA OtherStepsKeep ==
    ASSUME SamplerInvariant,
           \/ \E q \in TracedRequests : FlushRequest(q) \/ Answer(q)
           \/ GrowOld \/ BeginShutdown \/ ShutdownFlush \/ FinishShutdown
    PROVE  SamplerInvariant'
<1>1. SamplerTypes /\ BuffersSound /\ (\A q \in TracedRequests : TracedSound(q)) /\ aged \subseteq Buffered BY DEF SamplerInvariant
<1>2. ASSUME UNCHANGED <<request, outgoing>> PROVE RequestsStand
  BY <1>1, <1>2 DEF RequestsStand, SamplerTypes, TracedSound
<1>3. ASSUME NEW q \in TracedRequests, FlushRequest(q) PROVE SamplerInvariant'
  <2>1. PICK was \in TracedRequest : was = request[q] BY <1>1 DEF SamplerTypes
  <2>2. was.at = "running" /\ ForceFlush(q) /\ closing' = closing /\ late' = late BY <1>3, <2>1 DEF FlushRequest
  <2>3. PICK now \in TracedRequest : /\ now.trace = was.trace /\ now.started = was.started /\ now.open = was.open
                                     /\ now.at = "flushing" /\ request' = [request EXCEPT ![q] = now]
    <3> DEFINE it == [was EXCEPT !.at = "flushing"]
    <3>1. request' = [request EXCEPT ![q] = it] BY <1>3, <2>1 DEF FlushRequest
    <3>2. it \in TracedRequest /\ it.trace = was.trace /\ it.started = was.started /\ it.open = was.open /\ it.at = "flushing"
      BY DEF TracedRequest
    <3> QED BY <3>1, <3>2
  <2>4. request'[q] = now /\ \A r \in TracedRequests \ {q} : request'[r] = request[r] BY <1>1, <2>3 DEF SamplerTypes
  <2>5. \A r \in TracedRequests \ {q} : outgoing'[r] = outgoing[r]
    BY <1>1, <2>2 DEF ForceFlush, SamplerTypes, Exporters
  <2>6. \A r \in TracedRequests : TracedSound(r)' BY <1>1, <2>1, <2>2, <2>3, <2>4, <2>5 DEF TracedSound
  <2>7. RequestsStand BY <1>1, <2>1, <2>3, <2>4, <2>6 DEF SamplerTypes, RequestsStand
  <2>8. outgoing[q] = {} BY <1>1, <2>1, <2>2 DEF TracedSound
  <2>9. q \in Exporters /\ q # Closer BY SamplerAssumption DEF Exporters
  <2> QED BY <2>2, <2>7, <2>8, <2>9, FlushingKeeps
<1>4. ASSUME NEW q \in TracedRequests, Answer(q) PROVE SamplerInvariant'
  <2>1. PICK was \in TracedRequest : was = request[q] BY <1>1 DEF SamplerTypes
  <2>2. was.at = "flushing" BY <1>4, <2>1 DEF Answer
  <2>3. PICK now \in TracedRequest : /\ now.trace = was.trace /\ now.started = was.started /\ now.open = was.open
                                     /\ now.at = "answered" /\ request' = [request EXCEPT ![q] = now]
    <3> DEFINE it == [was EXCEPT !.at = "answered"]
    <3>1. request' = [request EXCEPT ![q] = it] BY <1>4, <2>1 DEF Answer
    <3>2. it \in TracedRequest /\ it.trace = was.trace /\ it.started = was.started /\ it.open = was.open /\ it.at = "answered"
      BY DEF TracedRequest
    <3> QED BY <3>1, <3>2
  <2>4. request'[q] = now /\ \A r \in TracedRequests \ {q} : request'[r] = request[r] BY <1>1, <2>3 DEF SamplerTypes
  <2>5. UNCHANGED <<chance, buffers, order, aged, openSpans, marked, closing, late, outgoing, streams, errors, exported, judgedOut, dropped, cut, astride>>
    BY <1>4 DEF Answer, verdicts
  <2>6. \A r \in TracedRequests : TracedSound(r)' BY <1>1, <2>1, <2>2, <2>3, <2>4, <2>5 DEF TracedSound
  <2>7. RequestsStand BY <1>1, <2>1, <2>3, <2>4, <2>6 DEF SamplerTypes, RequestsStand
  <2>8. openSpans' \in [Traces -> Nat] /\ late' \subseteq Spans /\ closing' \in {"no", "flush", "flag", "down"} /\ aged' \subseteq Buffered
    BY <1>1, <2>5 DEF SamplerTypes
  <2> QED BY <2>5, <2>7, <2>8, NothingMoves
<1>5. CASE GrowOld
  <2>1. UNCHANGED <<chance, buffers, order, openSpans, marked, request, closing, late, outgoing, streams, errors, exported, judgedOut, dropped, cut, astride>>
    BY <1>5 DEF GrowOld, verdicts
  <2>2. aged' \subseteq Buffered BY <1>1, <1>5 DEF GrowOld
  <2>3. openSpans' \in [Traces -> Nat] /\ late' \subseteq Spans /\ closing' \in {"no", "flush", "flag", "down"} BY <1>1, <2>1 DEF SamplerTypes
  <2>4. RequestsStand BY <1>2, <2>1
  <2> QED BY <2>1, <2>2, <2>3, <2>4, NothingMoves
<1>6. CASE BeginShutdown
  <2>1. UNCHANGED <<chance, buffers, order, aged, marked, request, late, outgoing, streams, errors, exported, judgedOut, dropped, cut, astride>>
    BY <1>6 DEF BeginShutdown, verdicts
  <2>2. closing = "no" /\ closing' = "flush" /\ openSpans' = [u \in Traces |-> 0] BY <1>6 DEF BeginShutdown
  <2>3. late' \subseteq Spans BY <1>1, <2>1 DEF SamplerTypes
  <2>4. RequestsStand BY <1>2, <2>1
  <2> QED BY <1>1, <2>1, <2>2, <2>3, <2>4, NothingMoves
<1>7. CASE ShutdownFlush
  <2>1. closing = "flush" /\ closing' = "flag" /\ ForceFlush(Closer) /\ request' = request /\ late' = late BY <1>7 DEF ShutdownFlush
  <2>2. outgoing[Closer] = {} BY <1>1, <2>1 DEF BuffersSound
  <2>3. \A r \in TracedRequests : outgoing'[r] = outgoing[r]
    BY <1>1, <2>1, SamplerAssumption DEF ForceFlush, SamplerTypes, Exporters
  <2>4. RequestsStand BY <1>1, <2>1, <2>3 DEF RequestsStand, SamplerTypes, TracedSound
  <2>5. Closer \in Exporters BY DEF Exporters
  <2> QED BY <2>1, <2>2, <2>4, <2>5, FlushingKeeps
<1>8. CASE FinishShutdown
  <2>1. UNCHANGED <<chance, buffers, order, aged, openSpans, marked, request, outgoing, streams, errors, exported, judgedOut, dropped, cut, astride>>
    BY <1>8 DEF FinishShutdown, verdicts
  <2>2. closing = "flag" /\ closing' = "down" /\ late' \subseteq Spans BY <1>8 DEF FinishShutdown
  <2>3. RequestsStand BY <1>2, <2>1
  <2>4. openSpans' \in [Traces -> Nat] /\ aged' \subseteq Buffered BY <1>1, <2>1 DEF SamplerTypes
  <2> QED BY <2>1, <2>2, <2>3, <2>4, NothingMoves
<1> QED BY <1>3, <1>4, <1>5, <1>6, <1>7, <1>8

\* At first no span is open, and none is anywhere.
LEMMA SamplingBegins == SamplerInit => SamplerInvariant
<1> SUFFICES ASSUME SamplerInit PROVE SamplerInvariant OBVIOUS
<1>1. Keys({}) = {} BY DEF Keys
<1>2. IsFiniteSet({}) /\ Cardinality({}) = 0 BY FS_EmptySet
<1>3. Unserved \in TracedRequest BY SamplerAssumption DEF Unserved, TracedRequest
<1>4. \A q \in TracedRequests : request[q] = Unserved BY DEF SamplerInit
<1>5. SamplerTypes BY <1>3 DEF SamplerInit, Exporters, SamplerTypes
<1>6. InLine(order) BY <1>1, <1>2 DEF SamplerInit, InLine
<1>7. Buffered = {} BY <1>1 DEF SamplerInit, Buffered
<1>8. BuffersSound BY <1>2, <1>7, SamplerAssumption DEF SamplerInit, Complete, BuffersSound
<1>9. \A q \in TracedRequests : SpansOf(q) = {} BY <1>4 DEF Unserved, SpansOf
<1>10. JudgedSound
  <2>1. \A t \in Traces : OpenOf(t) = {} BY <1>4 DEF Spans, OpenOf, Unserved
  <2>2. \A t \in Traces : openSpans[t] = 0 BY DEF SamplerInit
  <2>3. \A q \in TracedRequests : Whole(q) BY <1>9 DEF Whole, Undecided
  <2> QED BY <1>2, <2>1, <2>2, <2>3 DEF SamplerInit, JudgedSound
<1>11. \A q \in TracedRequests : TracedSound(q) BY <1>4 DEF SamplerInit, TracedSound, Unserved
<1>12. \A s \in Spans : SpanSound(s)
  <2>1. SUFFICES ASSUME NEW s \in Spans PROVE SpanSound(s) OBVIOUS
  <2>2. ~Over(s) BY <1>4 DEF Spans, Unserved, Over
  <2>3. /\ \A t \in Traces : buffers[t] = {}
        /\ streams = {} /\ \A who \in Exporters : outgoing[who] = {}
    BY DEF SamplerInit, Exporters
  <2>4. ~Held(s) /\ ~Streamed(s) BY <2>3 DEF Held, Streamed
  <2>5. \A who \in Exporters : ~Sent(s, who) BY <2>3 DEF Sent
  <2>6. ~Away(s) BY <2>4, <2>5 DEF Away
  <2>7. exported[s] = 0 /\ s \notin judgedOut /\ s \notin dropped BY DEF SamplerInit
  <2>8. Lost(s) BY <2>4, <2>6, <2>7 DEF Lost
  <2> QED BY <2>2, <2>3, <2>4, <2>5, <2>6, <2>7, <2>8 DEF SpanSound
<1>13. aged \subseteq Buffered BY DEF SamplerInit
<1> QED BY <1>5, <1>6, <1>8, <1>10, <1>11, <1>12, <1>13 DEF SamplerInvariant

\* Every step of the processor keeps what is known of its spans, and the steps of the
\* process touch none.
LEMMA SamplingGoesOn ==
    ASSUME SamplerInvariant, [SamplerNext \/ ProcessNext]_samplerVars
    PROVE  SamplerInvariant'
<1>1. CASE SamplerNext
  <2>1. CASE \E q \in TracedRequests : \E t \in Traces : StartSpan(q, t) BY <2>1, StartSpanKeeps
  <2>2. CASE \E q \in TracedRequests : \E n \in 1 .. SpansPerRequest : EndSpan(q, n) BY <2>2, EndSpanKeeps
  <2>3. CASE \E batch : Export(batch) BY <2>3, ExportKeeps
  <2>4. CASE \/ \E q \in TracedRequests : FlushRequest(q) \/ Answer(q)
             \/ GrowOld \/ BeginShutdown \/ ShutdownFlush \/ FinishShutdown
    BY <2>4, OtherStepsKeep
  <2> QED BY <1>1, <2>1, <2>2, <2>3, <2>4 DEF SamplerNext
<1>2. CASE UNCHANGED <<chance, buffers, order, aged, openSpans, marked, request, closing, late, outgoing, streams, errors, exported,
                       judgedOut, dropped, cut, astride>>
  BY <1>2, NothingMoves DEF SamplerInvariant, RequestsStand, SamplerTypes, TracedSound
<1>3. ProcessNext \/ UNCHANGED samplerVars
        => UNCHANGED <<chance, buffers, order, aged, openSpans, marked, request, closing, late, outgoing, streams, errors, exported,
                       judgedOut, dropped, cut, astride>>
  BY DEF ProcessNext, samplerVars, verdicts
<1> QED BY <1>1, <1>2, <1>3

\* What is in one of four places at most is counted there, once.
LEMMA CountedOnce ==
    ASSUME NEW s, NEW a, NEW b, NEW c, NEW d,
           ~(s \in a /\ s \in b), ~(s \in a /\ s \in c), ~(s \in a /\ s \in d), ~(s \in b /\ s \in c), ~(s \in b /\ s \in d),
           ~(s \in c /\ s \in d)
    PROVE  /\ Cardinality({i \in 1 .. 4 : s \in <<a, b, c, d>>[i]}) \in {0, 1}
           /\ Cardinality({i \in 1 .. 4 : s \in <<a, b, c, d>>[i]}) = 0 <=> s \notin a /\ s \notin b /\ s \notin c /\ s \notin d
<1>1. PICK ways : ways = {i \in 1 .. 4 : s \in <<a, b, c, d>>[i]} OBVIOUS
<1>2. /\ 1 \in ways <=> s \in a
      /\ 2 \in ways <=> s \in b
      /\ 3 \in ways <=> s \in c
      /\ 4 \in ways <=> s \in d
  BY <1>1
<1>3. ways \subseteq {1, 2, 3, 4} BY <1>1
<1>4. Cardinality({}) = 0 BY FS_EmptySet
<1>5. \A i : Cardinality({i}) = 1 BY FS_Singleton
<1>6. /\ Cardinality(ways) \in {0, 1}
      /\ Cardinality(ways) = 0 <=> s \notin a /\ s \notin b /\ s \notin c /\ s \notin d
  <2>1. ways = {} \/ ways = {1} \/ ways = {2} \/ ways = {3} \/ ways = {4}
    <3>1. s \in a => ways = {1} BY <1>2, <1>3
    <3>2. s \in b => ways = {2} BY <1>2, <1>3
    <3>3. s \in c => ways = {3} BY <1>2, <1>3
    <3>4. s \in d => ways = {4} BY <1>2, <1>3
    <3>5. s \notin a /\ s \notin b /\ s \notin c /\ s \notin d => ways = {} BY <1>2, <1>3
    <3> QED BY <3>1, <3>2, <3>3, <3>4, <3>5
  <2>2. ways # {} => Cardinality(ways) = 1 BY <1>5, <2>1
  <2>3. ways = {} => Cardinality(ways) = 0 BY <1>4
  <2>4. ways = {} <=> s \notin a /\ s \notin b /\ s \notin c /\ s \notin d BY <1>2, <1>3, <2>1
  <2> QED BY <2>2, <2>3, <2>4
<1> QED BY <1>1, <1>6

\* What the spans' places say of the three promises.
LEMMA SpansKeepTheirPlaces == SamplerInvariant => SpansAreAccountedFor /\ RequestsAreJudgedWhole /\ BuffersAreBounded
<1> SUFFICES ASSUME SamplerInvariant PROVE SpansAreAccountedFor /\ RequestsAreJudgedWhole /\ BuffersAreBounded OBVIOUS
<1>1. SamplerTypes /\ BuffersSound /\ JudgedSound /\ \A s \in Spans : SpanSound(s) BY DEF SamplerInvariant
<1>2. ASSUME NEW s PROVE s \in Leaving <=> Away(s) BY DEF Leaving, Away, Streamed, Sent, Exporters
<1>3. ASSUME NEW q \in TracedRequests PROVE SpansOf(q) \subseteq Spans
  BY <1>1, SamplerAssumption DEF SamplerTypes, TracedRequest, SpansOf, Spans
<1>4. SpansAreAccountedFor
  <2>1. ASSUME NEW s \in Everywhere PROVE Places(s) <= 1 /\ (Places(s) = 0 => TraceOf(s) \in astride)
    <3>1. PICK q \in TracedRequests : s \in Ended(q) BY DEF Everywhere
    <3>2. PICK n \in 1 .. request[q].started : s = <<q, n>> /\ n \notin request[q].open BY <3>1 DEF Ended
    <3>3. s \in SpansOf(q) BY <3>2 DEF SpansOf
    <3>4. s \in Spans /\ SpanSound(s) /\ Over(s) BY <1>1, <1>3, <3>2, <3>3 DEF Over
    <3>5. TraceOf(s) \in Traces BY <3>2 DEF SamplerInvariant, TracedSound, TraceOf
    <3>6. s \in buffers[TraceOf(s)] <=> Held(s) BY <3>4, <3>5 DEF Held, SpanSound
    <3>7. Places(s) = exported[s] + Cardinality({i \in 1 .. 4 : s \in <<Leaving, judgedOut, dropped, buffers[TraceOf(s)]>>[i]})
      BY DEF Places
    <3>8. /\ ~(s \in Leaving /\ s \in judgedOut) /\ ~(s \in Leaving /\ s \in dropped)
          /\ ~(s \in Leaving /\ s \in buffers[TraceOf(s)]) /\ ~(s \in judgedOut /\ s \in dropped)
          /\ ~(s \in judgedOut /\ s \in buffers[TraceOf(s)]) /\ ~(s \in dropped /\ s \in buffers[TraceOf(s)])
      BY <1>2, <3>4, <3>6 DEF SpanSound
    <3>9. PICK size \in {0, 1} :
            /\ size = Cardinality({i \in 1 .. 4 : s \in <<Leaving, judgedOut, dropped, buffers[TraceOf(s)]>>[i]})
            /\ size = 0 <=> s \notin Leaving /\ s \notin judgedOut /\ s \notin dropped /\ s \notin buffers[TraceOf(s)]
      BY <3>8, CountedOnce
    <3>10. Places(s) = exported[s] + size BY <3>7, <3>9
    <3>11. exported[s] \in {0, 1} /\ (Lost(s) => TraceOf(s) \in astride) BY <3>4 DEF SpanSound
    <3>12. exported[s] = 1 => size = 0 BY <1>2, <3>4, <3>6, <3>9 DEF SpanSound
    <3>13. exported[s] = 0 /\ size = 0 => Lost(s) BY <1>2, <3>6, <3>9 DEF Lost
    <3>14. Places(s) <= 1 BY <3>9, <3>10, <3>11, <3>12
    <3>15. Places(s) = 0 => exported[s] = 0 /\ size = 0 BY <3>9, <3>10, <3>11
    <3> QED BY <3>11, <3>13, <3>14, <3>15
  <2>2. closing = "down" => Buffered \subseteq astride BY <1>1 DEF BuffersSound
  <2> QED BY <2>1, <2>2 DEF SpansAreAccountedFor
<1>5. RequestsAreJudgedWhole
  <2>1. SUFFICES ASSUME closing = "no", NEW q \in TracedRequests, request[q].trace \notin cut
                 PROVE  \/ \A s \in SpansOf(q) : ~Kept(s) /\ s \notin judgedOut
                        \/ \A s \in SpansOf(q) : Kept(s)
                        \/ \A s \in SpansOf(q) : s \in judgedOut \ errors
    BY DEF RequestsAreJudgedWhole
  <2>2. Whole(q) BY <1>1, <2>1 DEF JudgedSound
  <2>3. \A s \in SpansOf(q) : Kept(s) <=> Taken(s)
    <3>1. SUFFICES ASSUME NEW s \in SpansOf(q) PROVE Kept(s) <=> Taken(s) OBVIOUS
    <3>2. exported[s] \in Nat BY <1>1, <1>3 DEF SamplerTypes
    <3>3. exported[s] > 0 <=> exported[s] # 0 BY <3>2
    <3> QED BY <1>2, <3>3 DEF Kept, Taken
  <2> QED BY <2>2, <2>3 DEF Whole, Undecided
<1>6. BuffersAreBounded BY <1>1 DEF BuffersSound, BuffersAreBounded
<1> QED BY <1>4, <1>5, <1>6

\* A chain of handlers ends with the default or with the server's own.
LEMMA HandlersRun ==
    /\ \A h \in Alone : Last(h) = "default"
    /\ \A h \in Beside : Last(h) = "server"
    /\ "hook" \in ToSet(<<"hook", "server">>)
    /\ <<"hook">> \o <<"default">> = <<"hook", "default">> /\ <<"hook">> \o <<"server">> = <<"hook", "server">>
<1>1. Last(<<"default">>) = "default" BY DEF Last
<1>2. Last(<<"hook", "default">>) = "default" BY DEF Last
<1>3. Last(<<"server">>) = "server" BY DEF Last
<1>4. Last(<<"hook", "server">>) = "server" BY DEF Last
<1>5. "hook" \in ToSet(<<"hook", "server">>)
  <2>0. <<"hook", "server">>[1] = "hook" OBVIOUS
  <2>1. PICK h : h = <<"hook", "server">> /\ h[1] = "hook" BY <2>0
  <2>2. 1 \in DOMAIN h BY <2>1
  <2>3. h[1] \in ToSet(h) BY <2>2 DEF ToSet
  <2> QED BY <2>1, <2>3
<1>6. ASSUME NEW last PROVE <<"hook">> \o <<last>> = <<"hook", last>>
  <2>1. PICK one \in Seq({"hook", last}), two \in Seq({"hook", last}), both \in Seq({"hook", last}) :
          /\ one = <<"hook">> /\ two = <<last>> /\ both = <<"hook", last>>
          /\ Len(one) = 1 /\ Len(two) = 1 /\ Len(both) = 2
          /\ one[1] = "hook" /\ two[1] = last /\ both[1] = "hook" /\ both[2] = last
    <3>1. <<"hook">> \in Seq({"hook", last}) /\ <<last>> \in Seq({"hook", last}) OBVIOUS
    <3>2. <<"hook", last>> \in Seq({"hook", last}) OBVIOUS
    <3>3. Len(<<"hook">>) = 1 /\ Len(<<last>>) = 1 /\ Len(<<"hook", last>>) = 2 OBVIOUS
    <3>4. <<"hook">>[1] = "hook" /\ <<last>>[1] = last OBVIOUS
    <3>5. <<"hook", last>>[1] = "hook" /\ <<"hook", last>>[2] = last OBVIOUS
    <3> QED BY <3>1, <3>2, <3>3, <3>4, <3>5
  <2>2. /\ one \o two \in Seq({"hook", last}) /\ Len(one \o two) = Len(one) + Len(two)
        /\ \A i \in 1 .. Len(one) + Len(two) : (one \o two)[i] = IF i <= Len(one) THEN one[i] ELSE two[i - Len(one)]
    BY ConcatProperties
  <2>3. Len(one \o two) = 2 /\ (one \o two)[1] = "hook" /\ (one \o two)[2] = last BY <2>1, <2>2
  <2>4. \A i \in 1 .. 2 : (one \o two)[i] = both[i] BY <2>1, <2>3
  <2>5. one \o two = both BY <2>1, <2>2, <2>3, <2>4, SeqEqual
  <2> QED BY <2>1, <2>5
<1> QED BY <1>1, <1>2, <1>3, <1>4, <1>5, <1>6 DEF Alone, Beside

\* The process, step by step: the hook stands in front of one other handler, never of
\* itself, and a signal that reaches nobody but the server is the one left unheard.
LEMMA HookedIsSound ==
    ASSUME NEW l, LifeSound(l), l.exit = "no", l.server \in {"none", "over"} => ~l.configured /\ l.shutdowns = 0
    PROVE  /\ Hooked(l) \in LifeRecord
           /\ \E h \in Alone \cup Beside :
                /\ l.server \in Serving => h = <<"hook", "server">>
                /\ l.server \notin Serving => h = <<"hook", "default">>
                /\ Hooked(l) = [l EXCEPT !.handler = h, !.hook = h]
<1>1. l \in LifeRecord BY DEF LifeSound
<1>2. CASE l.handler = l.hook
  <2>1. Hooked(l) = l BY <1>2 DEF Hooked
  <2>2. l.server \in Serving => l.handler = <<"hook", "server">>
    <3>1. SUFFICES ASSUME l.server \in Serving PROVE l.handler = <<"hook", "server">> OBVIOUS
    <3>2. l.handler \in Beside /\ l.hook \in {<<>>, <<"hook", "default">>, <<"hook", "server">>}
      BY <1>1, <3>1 DEF LifeSound, LifeRecord
    <3>3. <<"server">> # <<>> /\ <<"server">> # <<"hook", "default">> /\ <<"server">> # <<"hook", "server">> OBVIOUS
    <3> QED BY <1>2, <3>2, <3>3 DEF Beside
  <2>3. l.server \notin Serving => l.handler = <<"hook", "default">>
    <3>1. SUFFICES ASSUME l.server \notin Serving PROVE l.handler = <<"hook", "default">> OBVIOUS
    <3>2. l.handler \in Alone /\ l.hook \in {<<>>, <<"hook", "default">>, <<"hook", "server">>}
      BY <1>1, <3>1 DEF LifeSound, LifeRecord
    <3>3. <<"default">> # <<>> /\ <<"default">> # <<"hook", "default">> /\ <<"default">> # <<"hook", "server">> OBVIOUS
    <3> QED BY <1>2, <3>2, <3>3 DEF Alone
  <2>4. l = [l EXCEPT !.handler = l.handler, !.hook = l.handler] BY <1>1, <1>2 DEF LifeRecord
  <2>5. l.handler \in Alone \cup Beside BY <1>1 DEF LifeRecord
  <2> QED BY <1>1, <2>1, <2>2, <2>3, <2>4, <2>5
<1>3. CASE l.handler # l.hook
  <2>1. PICK h : h = <<"hook">> \o l.handler OBVIOUS
  <2>2. l.server \in Serving => l.handler = <<"server">> BY <1>3 DEF LifeSound, Beside
  <2>3. l.server \notin Serving => l.handler = <<"default">> BY <1>1 DEF LifeRecord, Tried, LifeSound, Alone
  <2>4. l.server \in Serving => h = <<"hook", "server">> BY <2>1, <2>2, HandlersRun
  <2>5. l.server \notin Serving => h = <<"hook", "default">> BY <2>1, <2>3, HandlersRun
  <2>6. h \in Alone \cup Beside /\ h \in {<<>>, <<"hook", "default">>, <<"hook", "server">>} BY <2>4, <2>5 DEF Alone, Beside
  <2>7. Hooked(l) = [l EXCEPT !.handler = h, !.hook = h] BY <1>1, <1>3, <2>1 DEF Hooked, LifeRecord
  <2>8. Hooked(l) \in LifeRecord BY <1>1, <2>6, <2>7 DEF LifeRecord
  <2> QED BY <2>4, <2>5, <2>6, <2>7, <2>8
<1> QED BY <1>2, <1>3

LEMMA DeliveredIsSound ==
    ASSUME NEW l \in LifeRecord, l.handler \in Alone \/ (l.server \in Serving /\ l.handler \in Beside)
    PROVE  \E noted \in BOOLEAN :
             /\ noted = (l.signalled \/ "hook" \in ToSet(l.handler))
             /\ l.handler \in Alone => Delivered(l) = [l EXCEPT !.signalled = noted, !.exit = "sigterm"]
             /\ l.handler \notin Alone =>
                  /\ \E at \in Serving : Delivered(l) = [l EXCEPT !.signalled = noted, !.captured = TRUE, !.server = at]
                  /\ noted \/ l.handler = <<"server">>
<1>1. PICK noted \in BOOLEAN : noted = (l.signalled \/ "hook" \in ToSet(l.handler)) BY DEF LifeRecord
<1>2. (IF "hook" \in ToSet(l.handler) THEN NoteShutdownSignal(l) ELSE l) = [l EXCEPT !.signalled = noted]
  BY <1>1 DEF NoteShutdownSignal, LifeRecord
<1>3. CASE l.handler \in Alone BY <1>1, <1>2, <1>3, HandlersRun DEF Delivered
<1>4. CASE l.handler \notin Alone
  <2>1. l.handler \in Beside /\ l.server \in Serving BY <1>4
  <2>2. Last(l.handler) = "server" BY <2>1, HandlersRun
  <2>3. PICK at \in Serving : at = IF l.server = "up" THEN "stopping" ELSE l.server BY <2>1 DEF Serving
  <2>4. Delivered(l) = [[l EXCEPT !.signalled = noted] EXCEPT !.captured = TRUE, !.server = at] BY <1>2, <2>2, <2>3 DEF Delivered, LifeRecord
  <2>5. Delivered(l) = [l EXCEPT !.signalled = noted, !.captured = TRUE, !.server = at] BY <2>4
  <2>6. noted \/ l.handler = <<"server">> BY <1>1, <2>1, HandlersRun DEF Beside
  <2> QED BY <1>1, <1>4, <2>5, <2>6
<1> QED BY <1>3, <1>4

LEMMA LifeGoesOn ==
    ASSUME LifeSound(life), [SamplerNext \/ ProcessNext]_samplerVars
    PROVE  LifeSound(life')
<1>1. PICK l \in LifeRecord : l = life /\ LifeSound(l) BY DEF LifeSound
<1>2. CASE life' = life BY <1>1, <1>2
<1>3. CASE ConfigureTracing
  <2>1. l.exit = "no" /\ ~l.configured /\ l.shutdowns = 0 BY <1>1, <1>3 DEF ConfigureTracing
  <2>2. PICK h \in Alone \cup Beside :
          /\ l.server \in Serving => h = <<"hook", "server">>
          /\ l.server \notin Serving => h = <<"hook", "default">>
          /\ Hooked(l) = [l EXCEPT !.handler = h, !.hook = h] /\ Hooked(l) \in LifeRecord
    BY <1>1, <2>1, HookedIsSound
  <2>3. PICK m \in LifeRecord : m = Hooked(l) BY <2>2
  <2>4. m.handler = h /\ m.hook = h BY <2>2, <2>3 DEF LifeRecord
  <2>5. /\ m.server = l.server /\ m.restores = l.restores /\ m.captured = l.captured /\ m.exit = "no" /\ m.signalled = l.signalled
        /\ m.unheard = l.unheard /\ m.loud = l.loud /\ m.wrapped = l.wrapped /\ m.shutdowns = 0 /\ m.failed = l.failed
    BY <2>1, <2>2, <2>3 DEF LifeRecord
  <2>6. life' = [m EXCEPT !.configured = TRUE, !.processor = TRUE, !.net = TRUE] BY <1>1, <1>3, <2>3 DEF ConfigureTracing
  <2>7. PICK k \in LifeRecord : k = life' BY <2>6 DEF LifeRecord
  <2>8. k.handler = h /\ k.hook = h /\ k.configured /\ k.processor /\ k.net BY <2>4, <2>6, <2>7 DEF LifeRecord
  <2>9. /\ k.server = l.server /\ k.restores = l.restores /\ k.captured = l.captured /\ k.exit = "no" /\ k.signalled = l.signalled
        /\ k.unheard = l.unheard /\ k.loud = l.loud /\ k.wrapped = l.wrapped /\ k.shutdowns = 0 /\ k.failed = l.failed
    BY <2>5, <2>6, <2>7 DEF LifeRecord
  <2>10. Tried(k) BY <2>8 DEF Tried
  <2>11. k.server \in Serving => h \in Beside BY <2>2, <2>9 DEF Beside
  <2>12. k.server \notin Serving => h \in Alone BY <2>2, <2>9 DEF Alone
  <2>13. LifeSound(k) BY <1>1, <2>1, <2>8, <2>9, <2>10, <2>11, <2>12 DEF LifeSound
  <2> QED BY <2>7, <2>13
<1>4. CASE Sigterm
  <2>1. l.exit = "no" /\ life' = [Delivered(l) EXCEPT !.unheard = @ \/ l.handler = <<"server">>] BY <1>1, <1>4 DEF Sigterm
  <2>2. l.handler \in Alone \/ (l.server \in Serving /\ l.handler \in Beside) BY <1>1 DEF LifeSound
  <2>3. PICK noted \in BOOLEAN :
             /\ noted = (l.signalled \/ "hook" \in ToSet(l.handler))
             /\ l.handler \in Alone => Delivered(l) = [l EXCEPT !.signalled = noted, !.exit = "sigterm"]
             /\ l.handler \notin Alone =>
                  /\ \E at \in Serving : Delivered(l) = [l EXCEPT !.signalled = noted, !.captured = TRUE, !.server = at]
                  /\ noted \/ l.handler = <<"server">>
    BY <2>2, DeliveredIsSound
  <2>4. PICK heard \in BOOLEAN : heard = (l.unheard \/ l.handler = <<"server">>) BY DEF LifeRecord
  <2>5. CASE l.handler \in Alone
    <3>1. life' = [l EXCEPT !.signalled = noted, !.exit = "sigterm", !.unheard = heard] BY <2>1, <2>3, <2>4, <2>5 DEF LifeRecord
    <3>2. PICK k \in LifeRecord : k = life' BY <3>1 DEF LifeRecord
    <3>3. /\ k.server = l.server /\ k.restores = l.restores /\ k.captured = l.captured /\ k.exit = "sigterm" /\ k.handler = l.handler
          /\ k.hook = l.hook /\ k.configured = l.configured /\ k.processor = l.processor /\ k.net = l.net
      BY <3>1, <3>2 DEF LifeRecord
    <3>4. /\ k.signalled = noted /\ k.unheard = heard /\ k.loud = l.loud /\ k.wrapped = l.wrapped /\ k.shutdowns = l.shutdowns
          /\ k.failed = l.failed
      BY <3>1, <3>2 DEF LifeRecord
    <3>5. (l.signalled => noted) /\ (l.unheard => heard) BY <2>3, <2>4
    <3>6. Tried(k) <=> Tried(l) BY <3>3, <3>4 DEF Tried
    <3>7. LifeSound(k) BY <1>1, <3>3, <3>4, <3>5, <3>6 DEF LifeSound
    <3> QED BY <3>2, <3>7
  <2>6. CASE l.handler \notin Alone
    <3>1. PICK at \in Serving : Delivered(l) = [l EXCEPT !.signalled = noted, !.captured = TRUE, !.server = at] BY <2>3, <2>6
    <3>2. life' = [l EXCEPT !.signalled = noted, !.captured = TRUE, !.server = at, !.unheard = heard]
      BY <2>1, <2>4, <3>1 DEF LifeRecord
    <3>3. PICK k \in LifeRecord : k = life' BY <3>2 DEF LifeRecord
    <3>4. /\ k.server = at /\ k.restores = l.restores /\ k.captured /\ k.exit = "no" /\ k.handler = l.handler
          /\ k.hook = l.hook /\ k.configured = l.configured /\ k.processor = l.processor /\ k.net = l.net
      BY <2>1, <3>2, <3>3 DEF LifeRecord
    <3>5. /\ k.signalled = noted /\ k.unheard = heard /\ k.loud = l.loud /\ k.wrapped = l.wrapped /\ k.shutdowns = l.shutdowns
          /\ k.failed = l.failed
      BY <3>2, <3>3 DEF LifeRecord
    <3>6. (noted \/ heard) /\ (l.unheard => heard) BY <2>3, <2>4, <2>6
    <3>7. Tried(k) <=> Tried(l) BY <3>4, <3>5 DEF Tried
    <3>8. l.server \in Serving BY <2>2, <2>6
    <3>9. at # "none" /\ at # "over" BY DEF Serving
    <3>10. LifeSound(k) BY <1>1, <3>4, <3>5, <3>6, <3>7, <3>8, <3>9 DEF LifeSound
    <3> QED BY <3>3, <3>10
  <2> QED BY <2>5, <2>6
<1>5. CASE ServerStarts
  <2>1. l.exit = "no" /\ l.server = "none" /\ life' = [l EXCEPT !.server = "starting", !.restores = l.handler, !.handler = <<"server">>]
    BY <1>1, <1>5 DEF ServerStarts
  <2>2. l.handler \in Alone /\ (l.handler = <<"hook", "default">> => Tried(l)) /\ ~l.captured BY <1>1, <2>1 DEF LifeSound, Serving
  <2>3. <<"server">> \in Beside /\ <<"server">> # <<"hook", "server">> BY DEF Beside
  <2>4. "starting" \in Serving BY DEF Serving
  <2>5. PICK k \in LifeRecord : k = life' BY <2>1, <2>2, <2>3, <2>4 DEF LifeRecord
  <2>6. k.server = "starting" /\ k.restores = l.handler /\ k.handler = <<"server">> /\ k.captured = l.captured /\ k.exit = "no"
    BY <2>1, <2>5 DEF LifeRecord
  <2>7. /\ k.configured = l.configured /\ k.processor = l.processor /\ k.net = l.net /\ k.signalled = l.signalled
        /\ k.unheard = l.unheard /\ k.loud = l.loud /\ k.wrapped = l.wrapped /\ k.shutdowns = l.shutdowns /\ k.failed = l.failed
    BY <2>1, <2>5 DEF LifeRecord
  <2>8. Tried(k) <=> Tried(l) BY <2>7 DEF Tried
  <2>9. LifeSound(k) BY <1>1, <2>2, <2>3, <2>4, <2>6, <2>7, <2>8 DEF LifeSound
  <2> QED BY <2>5, <2>9
<1>6. CASE LifespanStarts
  <2>1. l.exit = "no" /\ l.server = "starting" /\ l.server \in Serving BY <1>1, <1>6 DEF LifespanStarts, Serving
  <2>2. PICK at \in Serving : at = (IF l.captured THEN "stopping" ELSE "up") BY DEF Serving
  <2>3. PICK h \in Alone \cup Beside :
          /\ l.server \in Serving => h = <<"hook", "server">>
          /\ l.server \notin Serving => h = <<"hook", "default">>
          /\ Hooked(l) = [l EXCEPT !.handler = h, !.hook = h] /\ Hooked(l) \in LifeRecord
    <3>1. l.server \in {"none", "over"} => ~l.configured /\ l.shutdowns = 0 BY <2>1
    <3> QED BY <1>1, <2>1, <3>1, HookedIsSound
  <2>4. PICK m \in LifeRecord : m = IF l.wrapped THEN Hooked(l) ELSE l BY <2>3
  <2>5. m.handler \in Beside /\ (m.handler = <<"hook", "server">> => m.hook = m.handler)
    <3>1. CASE l.wrapped BY <2>1, <2>3, <2>4, <3>1 DEF LifeRecord, Beside
    <3>2. CASE ~l.wrapped BY <1>1, <2>1, <2>4, <3>2 DEF LifeSound
    <3> QED BY <3>1, <3>2
  <2>6. /\ m.restores = l.restores /\ m.captured = l.captured /\ m.exit = "no" /\ m.signalled = l.signalled
        /\ m.unheard = l.unheard /\ m.loud = l.loud /\ m.wrapped = l.wrapped /\ m.shutdowns = l.shutdowns /\ m.failed = l.failed
        /\ m.configured = l.configured /\ m.processor = l.processor /\ m.net = l.net
    BY <2>1, <2>3, <2>4 DEF LifeRecord
  <2>7. life' = [m EXCEPT !.server = at] BY <1>1, <1>6, <2>2, <2>4 DEF LifespanStarts
  <2>8. PICK k \in LifeRecord : k = life' BY <2>7 DEF LifeRecord
  <2>9. k.server = at /\ k.handler = m.handler /\ k.hook = m.hook BY <2>7, <2>8 DEF LifeRecord
  <2>10. /\ k.restores = l.restores /\ k.captured = l.captured /\ k.exit = "no" /\ k.signalled = l.signalled
         /\ k.unheard = l.unheard /\ k.loud = l.loud /\ k.wrapped = l.wrapped /\ k.shutdowns = l.shutdowns /\ k.failed = l.failed
         /\ k.configured = l.configured /\ k.processor = l.processor /\ k.net = l.net
    BY <2>6, <2>7, <2>8 DEF LifeRecord
  <2>11. Tried(k) <=> Tried(l) BY <2>10 DEF Tried
  <2>12. at # "none" /\ at # "over" BY DEF Serving
  <2>13. LifeSound(k) BY <1>1, <2>1, <2>5, <2>9, <2>10, <2>11, <2>12 DEF LifeSound
  <2> QED BY <2>8, <2>13
<1>7. CASE ServerStops \/ LifespanEnds
  <2>1. PICK at \in Serving, noted \in BOOLEAN : /\ life' = [l EXCEPT !.server = at, !.signalled = noted] /\ (l.signalled => noted)
                                                 /\ at # "none" /\ at # "over"
    <3>1. CASE ServerStops
      <4>1. life' = [l EXCEPT !.server = "stopping", !.signalled = l.signalled] BY <1>1, <3>1 DEF ServerStops, LifeRecord
      <4> QED BY <4>1 DEF Serving, LifeRecord
    <3>2. CASE LifespanEnds /\ l.wrapped BY <1>1, <3>2 DEF LifespanEnds, NoteShutdownSignal, LifeRecord, Serving
    <3>3. CASE LifespanEnds /\ ~l.wrapped
      <4>1. life' = [l EXCEPT !.server = "stopped", !.signalled = l.signalled] BY <1>1, <3>3 DEF LifespanEnds, LifeRecord
      <4> QED BY <4>1 DEF Serving, LifeRecord
    <3> QED BY <1>7, <3>1, <3>2, <3>3
  <2>2. l.exit = "no" /\ l.server \in Serving BY <1>1, <1>7 DEF ServerStops, LifespanEnds, Serving
  <2>3. PICK k \in LifeRecord : k = life' BY <2>1 DEF LifeRecord
  <2>4. k.server = at /\ k.handler = l.handler /\ k.hook = l.hook /\ k.signalled = noted BY <2>1, <2>3 DEF LifeRecord
  <2>5. /\ k.restores = l.restores /\ k.captured = l.captured /\ k.exit = "no"
        /\ k.unheard = l.unheard /\ k.loud = l.loud /\ k.wrapped = l.wrapped /\ k.shutdowns = l.shutdowns /\ k.failed = l.failed
        /\ k.configured = l.configured /\ k.processor = l.processor /\ k.net = l.net
    BY <2>1, <2>2, <2>3 DEF LifeRecord
  <2>6. Tried(k) <=> Tried(l) BY <2>5 DEF Tried
  <2>7. l.server # "over" BY <2>2 DEF Serving
  <2>8. LifeSound(k) BY <1>1, <2>1, <2>2, <2>4, <2>5, <2>6, <2>7 DEF LifeSound
  <2> QED BY <2>3, <2>8
<1>8. ASSUME NEW m \in LifeRecord, LifeSound(m), m.exit = "no", NEW k, k \in ShutdownTracing(m)
      PROVE  LifeSound(k) /\ k.exit = "no" /\ k.server = m.server /\ (k.processor => k.failed \/ ~m.processor) /\ k.captured = m.captured
  <2>1. CASE ~m.processor BY <1>8, <2>1 DEF ShutdownTracing
  <2>2. CASE m.processor /\ k = [m EXCEPT !.processor = FALSE, !.configured = FALSE, !.shutdowns = @ + 1]
    <3>1. m.shutdowns = 0 BY <1>8, <2>2 DEF LifeSound, LifeRecord
    <3>2. k = [m EXCEPT !.processor = FALSE, !.configured = FALSE, !.shutdowns = 1] BY <2>2, <3>1
    <3>3. k \in LifeRecord BY <3>2 DEF LifeRecord
    <3>4. ~k.processor /\ ~k.configured /\ k.shutdowns = 1 /\ Tried(k) BY <3>2 DEF LifeRecord, Tried
    <3>5. /\ k.restores = m.restores /\ k.captured = m.captured /\ k.exit = "no" /\ k.server = m.server /\ k.handler = m.handler
          /\ k.hook = m.hook /\ k.signalled = m.signalled
          /\ k.unheard = m.unheard /\ k.loud = m.loud /\ k.wrapped = m.wrapped
      BY <1>8, <3>2 DEF LifeRecord
    <3>6. LifeSound(k) BY <1>8, <3>3, <3>4, <3>5 DEF LifeSound
    <3> QED BY <3>4, <3>5, <3>6
  <2>3. CASE k = [m EXCEPT !.failed = TRUE]
    <3>1. k \in LifeRecord /\ k.failed BY <2>3 DEF LifeRecord
    <3>2. /\ k.restores = m.restores /\ k.captured = m.captured /\ k.exit = "no" /\ k.server = m.server /\ k.handler = m.handler
          /\ k.hook = m.hook /\ k.signalled = m.signalled
          /\ k.unheard = m.unheard /\ k.loud = m.loud /\ k.wrapped = m.wrapped /\ k.shutdowns = m.shutdowns
          /\ k.configured = m.configured /\ k.processor = m.processor /\ k.net = m.net
      BY <1>8, <2>3 DEF LifeRecord
    <3>3. Tried(k) <=> Tried(m) BY <3>2 DEF Tried
    <3>4. LifeSound(k) BY <1>8, <3>1, <3>2, <3>3 DEF LifeSound
    <3> QED BY <3>1, <3>2, <3>4
  <2> QED BY <1>8, <2>1, <2>2, <2>3 DEF ShutdownTracing
<1>9. CASE TracingEnds
  <2>1. l.exit = "no" /\ l.server = "flushing" BY <1>1, <1>9 DEF TracingEnds
  <2>2. PICK m \in ShutdownTracing(l) : life' = [m EXCEPT !.server = "stopped"] BY <1>1, <1>9 DEF TracingEnds
  <2>3. LifeSound(m) /\ m.exit = "no" /\ m.server = l.server BY <1>1, <1>8, <2>1
  <2>4. m \in LifeRecord /\ m.server \in Serving BY <2>1, <2>3 DEF LifeSound, Serving
  <2>5. PICK k \in LifeRecord : k = life' BY <2>2, <2>4 DEF LifeRecord, Serving
  <2>6. k.server = "stopped" /\ k.handler = m.handler /\ k.hook = m.hook /\ k.signalled = m.signalled BY <2>2, <2>4, <2>5 DEF LifeRecord
  <2>7. /\ k.restores = m.restores /\ k.captured = m.captured /\ k.exit = "no"
        /\ k.unheard = m.unheard /\ k.loud = m.loud /\ k.wrapped = m.wrapped /\ k.shutdowns = m.shutdowns /\ k.failed = m.failed
        /\ k.configured = m.configured /\ k.processor = m.processor /\ k.net = m.net
    BY <2>2, <2>3, <2>4, <2>5 DEF LifeRecord
  <2>8. Tried(k) <=> Tried(m) BY <2>7 DEF Tried
  <2>9. m.server # "over" /\ "stopped" \in Serving BY <2>1, <2>3 DEF Serving
  <2>10. LifeSound(k) BY <2>3, <2>4, <2>6, <2>7, <2>8, <2>9 DEF LifeSound
  <2> QED BY <2>5, <2>10
<1>10. CASE ServerEnds
  <2>1. l.exit = "no" /\ l.server = "stopped" /\ l.server \in Serving BY <1>1, <1>10 DEF ServerEnds, Serving
  <2>2. l.restores \in Alone /\ (l.restores = <<"hook", "default">> => Tried(l)) BY <1>1, <2>1 DEF LifeSound
  <2>3. PICK m \in LifeRecord : m = [l EXCEPT !.server = "over", !.handler = l.restores] BY <2>2 DEF LifeRecord
  <2>4. m.server = "over" /\ m.handler = l.restores /\ m.hook = l.hook /\ m.signalled = l.signalled BY <2>3 DEF LifeRecord
  <2>5. /\ m.restores = l.restores /\ m.captured = l.captured /\ m.exit = "no"
        /\ m.unheard = l.unheard /\ m.loud = l.loud /\ m.wrapped = l.wrapped /\ m.shutdowns = l.shutdowns /\ m.failed = l.failed
        /\ m.configured = l.configured /\ m.processor = l.processor /\ m.net = l.net
    BY <2>1, <2>3 DEF LifeRecord
  <2>6. Tried(m) <=> Tried(l) BY <2>5 DEF Tried
  <2>7. "over" \notin Serving BY DEF Serving
  <2>8. CASE ~l.captured
    <3>1. life' = m BY <1>1, <1>10, <2>3, <2>8 DEF ServerEnds
    <3>2. LifeSound(m) BY <1>1, <2>2, <2>4, <2>5, <2>6, <2>7, <2>8 DEF LifeSound
    <3> QED BY <3>1, <3>2
  <2>9. CASE l.captured
    <3>1. life' = Delivered(m) BY <1>1, <1>10, <2>3, <2>9 DEF ServerEnds
    <3>2. m.handler \in Alone BY <2>2, <2>4
    <3>3. PICK noted \in BOOLEAN : /\ noted = (m.signalled \/ "hook" \in ToSet(m.handler))
                                   /\ Delivered(m) = [m EXCEPT !.signalled = noted, !.exit = "sigterm"]
      BY <3>2, DeliveredIsSound
    <3>4. PICK k \in LifeRecord : k = life' BY <3>1, <3>3 DEF LifeRecord
    <3>9. k = [m EXCEPT !.signalled = noted, !.exit = "sigterm"] BY <3>1, <3>3, <3>4
    <3>5. k.server = "over" /\ k.handler = l.restores /\ k.hook = l.hook /\ k.exit = "sigterm"
      BY <2>4, <3>9 DEF LifeRecord
    <3>6. /\ k.restores = l.restores
          /\ k.unheard = l.unheard /\ k.loud = l.loud /\ k.wrapped = l.wrapped /\ k.shutdowns = l.shutdowns /\ k.failed = l.failed
          /\ k.configured = l.configured /\ k.processor = l.processor /\ k.net = l.net
      BY <2>5, <3>9 DEF LifeRecord
    <3>7. Tried(k) <=> Tried(l) BY <3>6 DEF Tried
    <3>8. LifeSound(k) BY <1>1, <2>2, <2>7, <3>5, <3>6, <3>7 DEF LifeSound
    <3> QED BY <3>4, <3>8
  <2> QED BY <2>8, <2>9
<1>11. CASE ProcessExits
  <2>1. l.exit = "no" /\ l.server \in {"none", "over"} BY <1>1, <1>11 DEF ProcessExits
  <2>2. PICK m : /\ LifeSound(m) /\ m.exit = "no" /\ m.server = l.server /\ (m.processor => m.failed) /\ m.captured = l.captured
                 /\ life' = [m EXCEPT !.exit = "normal"]
    <3>1. CASE l.net /\ (l.processor \/ l.configured)
      <4>1. PICK noted \in LifeRecord : noted = NoteShutdownSignal(l) BY DEF NoteShutdownSignal, LifeRecord
      <4>2. PICK m \in ShutdownTracing(noted) : life' = [m EXCEPT !.exit = "normal"] BY <1>1, <1>11, <3>1, <4>1 DEF ProcessExits
      <4>3. noted = [l EXCEPT !.signalled = TRUE] BY <4>1 DEF NoteShutdownSignal
      <4>4. noted.server = l.server /\ noted.handler = l.handler /\ noted.hook = l.hook /\ noted.signalled BY <4>3 DEF LifeRecord
      <4>5. /\ noted.restores = l.restores /\ noted.captured = l.captured /\ noted.exit = "no"
            /\ noted.unheard = l.unheard /\ noted.loud = l.loud /\ noted.wrapped = l.wrapped /\ noted.shutdowns = l.shutdowns
            /\ noted.failed = l.failed
            /\ noted.configured = l.configured /\ noted.processor = l.processor /\ noted.net = l.net
        BY <2>1, <4>3 DEF LifeRecord
      <4>6. Tried(noted) <=> Tried(l) BY <4>5 DEF Tried
      <4>7. LifeSound(noted) BY <1>1, <2>1, <4>4, <4>5, <4>6 DEF LifeSound
      <4>8. LifeSound(m) /\ m.exit = "no" /\ m.server = noted.server /\ (m.processor => m.failed \/ ~noted.processor) /\ m.captured = noted.captured
        BY <1>8, <4>5, <4>7
      <4>9. m.processor => m.failed
        <5>1. CASE noted.processor BY <4>8, <5>1
        <5>2. CASE ~noted.processor BY <5>2 DEF ShutdownTracing
        <5> QED BY <5>1, <5>2
      <4> QED BY <4>2, <4>4, <4>5, <4>8, <4>9
    <3>2. CASE ~(l.net /\ (l.processor \/ l.configured)) BY <1>1, <1>11, <2>1, <3>2 DEF ProcessExits, LifeSound
    <3> QED BY <3>1, <3>2
  <2>3. ~l.captured BY <1>1, <2>1 DEF LifeSound
  <2>4. m \in LifeRecord BY <2>2 DEF LifeSound
  <2>5. PICK k \in LifeRecord : k = life' BY <2>2, <2>4 DEF LifeRecord
  <2>6. k.server = m.server /\ k.handler = m.handler /\ k.hook = m.hook /\ k.signalled = m.signalled BY <2>2, <2>4, <2>5 DEF LifeRecord
  <2>7. /\ k.restores = m.restores /\ k.captured = m.captured /\ k.exit = "normal"
        /\ k.unheard = m.unheard /\ k.loud = m.loud /\ k.wrapped = m.wrapped /\ k.shutdowns = m.shutdowns /\ k.failed = m.failed
        /\ k.configured = m.configured /\ k.processor = m.processor /\ k.net = m.net
    BY <2>2, <2>4, <2>5 DEF LifeRecord
  <2>8. Tried(k) <=> Tried(m) BY <2>7 DEF Tried
  <2>9. LifeSound(k)
    <3>1. k.server \notin Serving BY <2>1, <2>2, <2>6 DEF Serving
    <3>2. m.handler \in Alone /\ (m.handler = <<"hook", "default">> => Tried(m)) BY <2>2, <2>6, <3>1 DEF LifeSound
    <3>3. ~k.captured BY <2>2, <2>3, <2>7
    <3>4. (k.loud /\ k.wrapped => k.unheard) /\ (k.processor => k.net) /\ (k.shutdowns = 1 => ~k.processor /\ ~k.configured)
      BY <2>2, <2>7 DEF LifeSound
    <3>5. k.processor => k.failed BY <2>2, <2>7
    <3> QED BY <2>5, <2>6, <2>8, <3>1, <3>2, <3>3, <3>4, <3>5 DEF LifeSound
  <2> QED BY <2>5, <2>9
<1>12. CASE ExportRefused
  <2>1. l.exit = "no" /\ life' = [l EXCEPT !.loud = ~l.signalled /\ l.captured] BY <1>1, <1>12 DEF ExportRefused
  <2>2. PICK loud \in BOOLEAN : loud = (~l.signalled /\ l.captured) OBVIOUS
  <2>3. PICK k \in LifeRecord : k = life'
    <3>1. life' = [l EXCEPT !.loud = loud] BY <2>1, <2>2
    <3>2. [l EXCEPT !.loud = loud] \in LifeRecord BY DEF LifeRecord
    <3> QED BY <3>1, <3>2
  <2>4. k.server = l.server /\ k.handler = l.handler /\ k.hook = l.hook /\ k.signalled = l.signalled /\ k.loud = loud
    BY <2>1, <2>2, <2>3 DEF LifeRecord
  <2>5. /\ k.restores = l.restores /\ k.captured = l.captured /\ k.exit = "no"
        /\ k.unheard = l.unheard /\ k.wrapped = l.wrapped /\ k.shutdowns = l.shutdowns /\ k.failed = l.failed
        /\ k.configured = l.configured /\ k.processor = l.processor /\ k.net = l.net
    BY <2>1, <2>2, <2>3 DEF LifeRecord
  <2>6. Tried(k) <=> Tried(l) BY <2>5 DEF Tried
  <2>7. loud => l.unheard BY <1>1, <2>1, <2>2 DEF LifeSound
  <2>8. LifeSound(k) BY <1>1, <2>1, <2>4, <2>5, <2>6, <2>7 DEF LifeSound
  <2> QED BY <2>3, <2>8
<1>13. SamplerNext \/ UNCHANGED samplerVars => life' = life BY DEF SamplerNext, samplerVars
<1> QED BY <1>2, <1>3, <1>4, <1>5, <1>6, <1>7, <1>9, <1>10, <1>11, <1>12, <1>13 DEF ProcessNext

\* However requests, flushes, evictions, overflows and the shutdown cross, every span
\* that ended is in one place, a request's spans share one verdict, the buffers stay
\* bounded, and a signal ends the process once its server is done.
SamplerSpec == SamplerInit /\ [][SamplerNext \/ ProcessNext]_samplerVars
THEOREM SpansSampled == SamplerSpec => []SamplingIsWhole
<1>1. SamplerInit => SamplerInvariant BY SamplingBegins
<1>2. SamplerInit => LifeSound(life)
  <2>1. SUFFICES ASSUME NEW wrapped \in BOOLEAN PROVE LifeSound(NewLife(wrapped)) BY DEF SamplerInit
  <2>2. PICK l : l = NewLife(wrapped) OBVIOUS
  <2>3. <<"default">> \in Alone /\ <<"default">> # <<"hook", "default">> /\ "none" \notin Serving BY DEF Alone, Serving
  <2>4. l \in LifeRecord BY <2>2, <2>3 DEF NewLife, LifeRecord
  <2>5. l.server = "none" /\ l.handler = <<"default">> /\ ~l.captured /\ ~l.loud /\ ~l.processor /\ l.shutdowns = 0 /\ l.exit = "no"
    BY <2>2 DEF NewLife
  <2>6. LifeSound(l) BY <2>3, <2>4, <2>5 DEF LifeSound
  <2> QED BY <2>2, <2>6
<1>3. SamplerInvariant /\ [SamplerNext \/ ProcessNext]_samplerVars => SamplerInvariant' BY SamplingGoesOn
<1>4. LifeSound(life) /\ [SamplerNext \/ ProcessNext]_samplerVars => LifeSound(life)'
  <2>1. SUFFICES ASSUME LifeSound(life), [SamplerNext \/ ProcessNext]_samplerVars PROVE LifeSound(life)' OBVIOUS
  <2>2. LifeSound(life') BY <2>1, LifeGoesOn
  <2> QED BY <2>2 DEF LifeSound, Tried
<1>5. SamplerInvariant => SpansAreAccountedFor /\ RequestsAreJudgedWhole /\ BuffersAreBounded BY SpansKeepTheirPlaces
<1>6. LifeSound(life) => TelemetryEndsWithTheProcess BY DEF LifeRecord, LifeSound, TelemetryEndsWithTheProcess
<1>7. SamplerInvariant /\ LifeSound(life) => SamplingIsWhole BY <1>5, <1>6 DEF SamplingIsWhole
<1> QED BY <1>1, <1>2, <1>3, <1>4, <1>7, PTL DEF SamplerSpec
===============================================================================
