---------------------------- MODULE ChainVerifier ----------------------------
(***************************************************************************)
(* audit/verify_chain.py over the rows EvidenceStore.all() returns.  The   *)
(* rows are read by one SELECT, so the verifier sees one committed state   *)
(* and its verdict is a function of that state.                            *)
(***************************************************************************)
EXTENDS EvidenceChain, SequencesExt

CONSTANTS NoKey,         \* verify_chain called without a public key
          FieldKey,      \* values FIELD_ENCRYPTION_KEY has had over time
          NoEncryption   \* ... or it was not set
ASSUME NoKeyAssumption == NoKey \notin Key
ASSUME NoEncryptionAssumption == NoEncryption \notin FieldKey

\* EvidenceStore._to_model, the payload decrypted (see below).
Record(n) == [sequence_number |-> n, payload |-> evidence_chain[n].payload,
              previous_hash |-> evidence_chain[n].previous_hash,
              record_hash |-> evidence_chain[n].record_hash,
              signature |-> evidence_chain[n].signature]

\* EvidenceStore.all(): every row, in sequence order.
InOrder(numbers) == \A i, j \in DOMAIN numbers : i < j => numbers[i] < numbers[j]
all == LET rows == DOMAIN evidence_chain
           numbers == CHOOSE f \in Bijection(1 .. Cardinality(rows), rows) : InOrder(f)
       IN  [i \in DOMAIN numbers |-> Record(numbers[i])]

\* The signature column IS NULL: a row of the time before rows were signed.
NoSignature == << >>

verify_signature(hash, signature, key) == signature = sign(key, hash)

\* Mutant: a record without a signature fails the check instead of being skipped.
FaultyUnsigned(records, i, key) ==
    LET r == records[i] IN
    \/ r.previous_hash # IF i = 1 THEN GENESIS_HASH ELSE records[i-1].record_hash
    \/ compute_hash(r.previous_hash, r.payload) # r.record_hash
    \/ key # NoKey /\ ~ verify_signature(r.record_hash, r.signature, key)

\* Mutants: the payload is not hashed again; the link to the record before is
\* not compared.
FaultyLinkOnly(records, i, key) ==
    LET r == records[i] IN
    \/ r.previous_hash # IF i = 1 THEN GENESIS_HASH ELSE records[i-1].record_hash
    \/ /\ key # NoKey /\ r.signature # NoSignature
       /\ ~ verify_signature(r.record_hash, r.signature, key)
FaultyHashOnly(records, i, key) ==
    LET r == records[i] IN
    \/ compute_hash(r.previous_hash, r.payload) # r.record_hash
    \/ /\ key # NoKey /\ r.signature # NoSignature
       /\ ~ verify_signature(r.record_hash, r.signature, key)

\* The loop body of verify_chain finds fault with the i-th record.
Faulty(records, i, key) ==
    LET r == records[i] IN
    \/ r.previous_hash # IF i = 1 THEN GENESIS_HASH ELSE records[i-1].record_hash
    \/ compute_hash(r.previous_hash, r.payload) # r.record_hash
    \/ /\ key # NoKey /\ r.signature # NoSignature
       /\ ~ verify_signature(r.record_hash, r.signature, key)

\* The loop stops at the first faulty record.
verify_chain(records, key) ==
    LET faults == {i \in DOMAIN records : Faulty(records, i, key)} IN
    IF faults = {}
    THEN [valid |-> TRUE, checked_count |-> Len(records), first_corruption_at |-> 0]
    ELSE LET i == Min(faults) IN
         [valid |-> FALSE, checked_count |-> i - 1,
          first_corruption_at |-> records[i].sequence_number]
-----------------------------------------------------------------------------
\* Field encryption: what the payload column holds is a text and the key of the
\* Fernet token it is marked as, or an unmarked text.  append hashes the text
\* and stores encrypt(text), so the chain itself never depends on the key.
Setting == FieldKey \cup {NoEncryption}
Unreadable == [valid |-> FALSE, checked_count |-> 0, first_corruption_at |-> 0]

encrypt(plaintext, key) == [under |-> key, text |-> plaintext]

\* Mutant: a process without a key returns the ciphertext as it is.
decrypt_field_raw(value, key) ==
    IF value.under \in {NoEncryption, key} THEN {value.text}
    ELSE IF key = NoEncryption THEN {value} ELSE {}

\* The text, or none when it raises FieldDecryptionError.
decrypt_field(value, key) ==
    IF value.under \in {NoEncryption, key} THEN {value.text} ELSE {}

\* verify_chain_from_database: one payload it cannot decrypt, anywhere, and no
\* record is checked.
verify_chain_from_database(rows, key, encryption_key) ==
    LET texts(i) == decrypt_field(rows[i].payload, encryption_key) IN
    IF \E i \in DOMAIN rows : texts(i) = {} THEN Unreadable
    ELSE verify_chain([i \in DOMAIN rows |->
             [rows[i] EXCEPT !.payload = CHOOSE text \in texts(i) : TRUE]], key)
-----------------------------------------------------------------------------
\* The records when those of `old` have no signature, as the rows have that were
\* written before rows were signed.
WithoutSignature(records, old) ==
    [i \in DOMAIN records |->
        IF i \in old THEN [records[i] EXCEPT !.signature = NoSignature] ELSE records[i]]

\* verify_chain accepts whatever append has committed, at any moment and under
\* any interleaving, and with rows of the time before signing among it; given a
\* public key, exactly when every record that has a signature was signed by a
\* process holding that key (an ephemeral key per process fails it).  Clearing a
\* signature is therefore not noticed.
VerifierAccepts ==
    LET records == all IN
    \A old \in SUBSET DOMAIN records :
        LET rows == WithoutSignature(records, old) IN
        /\ verify_chain(rows, NoKey).valid
        /\ \A k \in Key : verify_chain(rows, k).valid <=>
              \A i \in DOMAIN records \ old : records[i].signature[1] = k

\* verify_chain names the record whose payload was altered; if the hash was
\* made to match, it names the next record, if there is one.  A record missing
\* from the front or the middle is found where the chain first breaks.
ChangesLocated ==
    LET first_fault(records) == verify_chain(records, NoKey).first_corruption_at IN
    /\ \A i \in DOMAIN all : \A p \in Payload \ {all[i].payload} :
        LET altered == [all EXCEPT ![i].payload = p]
            rehashed == [altered EXCEPT ![i].record_hash =
                           compute_hash(all[i].previous_hash, p)]
        IN /\ verify_chain(altered, NoKey)
                 = [valid |-> FALSE, checked_count |-> i - 1,
                    first_corruption_at |-> all[i].sequence_number]
           /\ i < Len(all) => first_fault(rehashed) = all[i+1].sequence_number
    /\ \A i \in 1..(Len(all) - 1) :
        first_fault(RemoveAt(all, i)) = all[i+1].sequence_number

\* Whatever the encryption setting was when each record was written, a verifier
\* accepts the chain if its own setting reads every record, and otherwise reports
\* it unreadable: a wrong or missing key is never reported as a corruption, and a
\* stored value that was replaced, marked or not, is never accepted.
EncryptionNeverMisleads ==
    LET records == all
        plain == verify_chain(records, NoKey)
        Stored(written) == [i \in DOMAIN records |->
                               [records[i] EXCEPT !.payload = encrypt(@, written[i])]]
        Uniform(key) == [i \in DOMAIN records |-> key]
    IN /\ \A written \in [DOMAIN records -> Setting], key \in Setting :
              verify_chain_from_database(Stored(written), NoKey, key)
                = IF \A i \in DOMAIN records : written[i] \in {NoEncryption, key}
                  THEN plain ELSE Unreadable
       /\ \A key, under \in Setting, i \in DOMAIN records :
              \A p \in Payload \ {records[i].payload} :
                  ~ verify_chain_from_database(
                        [Stored(Uniform(key)) EXCEPT ![i].payload = encrypt(p, under)],
                        NoKey, key).valid
=============================================================================
