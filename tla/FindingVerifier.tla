--------------------------- MODULE FindingVerifier ---------------------------
(***************************************************************************)
(* audit/verify_population_findings.py over the findings that one SELECT   *)
(* returns.  Findings are signed one by one and not chained, so each is    *)
(* valid or not by itself; the tool reports the first one that is not, in  *)
(* the order in which they were evaluated, which is left open here.        *)
(***************************************************************************)
EXTENDS PopulationRun

verify_signature(hash, signature, key) == signature = sign(key, hash)

\* Mutant: a finding without a signature fails instead of being skipped.
InvalidUnsigned(records, key) ==
    {k \in DOMAIN records :
        /\ records[k] # NoFinding
        /\ ~ verify_signature(population_finding_hash(records[k]), records[k].signature, key)}

\* The findings the loop of verify_population_findings would stop at: one without
\* a signature is skipped.
Invalid(records, key) ==
    {k \in DOMAIN records :
        /\ records[k] # NoFinding /\ records[k].signature # NoSignature
        /\ ~ verify_signature(population_finding_hash(records[k]), records[k].signature, key)}

\* The tool's verdict and what it may name.
verify_population_findings(records, key) ==
    LET invalid == Invalid(records, key)
    IN  [valid |-> invalid = {}, first_invalid_id |-> invalid]

Computed == {k \in Policy \X Day : findings[k] # NoFinding}
Naive(k) == findings[k].signature.hash.window = "naive"

\* What may be done to the table behind the program's back: signatures cleared;
\* one column of a finding altered, other than its signature and the policy and
\* window it is found by.
WithoutSignature(records, cleared) ==
    [k \in DOMAIN records |->
        IF k \in cleared THEN [records[k] EXCEPT !.signature = NoSignature] ELSE records[k]]
Counts == UNION {[D -> SUBSET Event] : D \in SUBSET Attribute}
Altered(f) ==
    {[f EXCEPT !.version = x] : x \in (Version \cup Deployed) \ {f.version}}
        \cup {[f EXCEPT !.counts = x] : x \in Counts \ {f.counts}}
        \cup {[f EXCEPT !.classification = x] :
                 x \in (SUBSET Attribute) \ {f.classification}}
        \cup {[f EXCEPT !.parameters = x] : x \in (Parameter \cup {None}) \ {f.parameters}}
        \cup {[f EXCEPT !.flagged = x] : x \in BOOLEAN \ {f.flagged}}
-----------------------------------------------------------------------------
\* The verifier accepts what runs of today and of the time before parameters
\* have stored, given the key of whoever signed it: it rejects a finding only
\* if another key signed it (a process without a configured key signs with one
\* of its own), or if the window was written without an offset, which a
\* TIMESTAMPTZ column does not give back.  Rows without a signature are skipped
\* and do not disturb the verdict on the others.
FindingsVerify ==
    \A key \in SigningKey, cleared \in SUBSET Computed :
        verify_population_findings(WithoutSignature(findings, cleared), key).first_invalid_id
            = {k \in Computed \ cleared : findings[k].signature.key # key \/ Naive(k)}

\* If a column of a stored finding that its signature covers changes later (its
\* outcome, the counts, the version, the parameters or the rules that explain
\* it), its own signature tells, and only its own: the findings beside it are
\* judged as before.  But the signature has to be left: if it is cleared too,
\* the alteration goes unnoticed.
ChangedFindingLocated ==
    \A k \in Computed :
        LET key == findings[k].signature.key
            before == verify_population_findings(findings, key).first_invalid_id
            after(g) == verify_population_findings([findings EXCEPT ![k] = g], key).first_invalid_id
        IN  ~ Naive(k) => \A g \in Altered(findings[k]) :
                /\ k \notin before /\ after(g) = before \cup {k}
                /\ after([g EXCEPT !.signature = NoSignature]) = before
=============================================================================
