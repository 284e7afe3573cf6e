--------------------------- MODULE Services_proofs ---------------------------
(***************************************************************************)
(* What holds of the smaller services for any number of calls, rows and    *)
(* tokens.  A behaviour follows one service, so each invariant is about    *)
(* the service followed; the variables of the others keep their initial    *)
(* values, in which the properties about them hold.                        *)
(***************************************************************************)
EXTENDS Services, Sums, FiniteSetTheorems, NaturalsInduction, TLAPS

----------------------------------------------------------------------------
(* calls *)

\* A call is always a record of the same four fields.
Fields == {"at", "id", "seen", "arg"}

CallShape ==
  /\ DOMAIN call = Calls
  /\ \A c \in Calls : DOMAIN call[c] = Fields

LEMMA InitCalls ==
    ASSUME RequestsInit
    PROVE  CallShape /\ \A c \in Calls : At(c, "idle")
  BY DEF RequestsInit, CallShape, Fields, Idle, At

LEMMA WaitsEffect ==
    ASSUME CallShape, NEW c \in Calls, NEW step, NEW i, NEW seen, NEW a,
           Waits(c, step, i, seen, a)
    PROVE  /\ CallShape'
           /\ call'[c].at = step /\ call'[c].id = i
           /\ call'[c].seen = seen /\ call'[c].arg = a
           /\ \A d \in Calls \ {c} : call'[d] = call[d]
  BY DEF CallShape, Fields, Waits

LEMMA ReadsEffect ==
    ASSUME CallShape, NEW c \in Calls, NEW step, NEW i, NEW seen, NEW a,
           Reads(c, step, i, seen, a)
    PROVE  /\ CallShape' /\ At(c, "idle") /\ raced' = raced
           /\ call'[c].at = step /\ call'[c].id = i
           /\ call'[c].seen = seen /\ call'[c].arg = a
           /\ \A d \in Calls \ {c} : call'[d] = call[d]
  BY WaitsEffect DEF Reads

LEMMA MovesEffect ==
    ASSUME CallShape, NEW c \in Calls, NEW step, Moves(c, step)
    PROVE  /\ CallShape'
           /\ call'[c].at = step /\ call'[c].id = call[c].id
           /\ call'[c].seen = call[c].seen /\ call'[c].arg = call[c].arg
           /\ \A d \in Calls \ {c} : call'[d] = call[d]
  BY DEF CallShape, Fields, Moves

LEMMA EndsEffect ==
    ASSUME CallShape, NEW c \in Calls, Ends(c)
    PROVE  /\ CallShape' /\ call'[c].at = "idle"
           /\ \A d \in Calls \ {c} : call'[d] = call[d]
  BY DEF CallShape, Fields, Ends, Idle

LEMMA DiesEffect ==
    ASSUME Dies
    PROVE  CallShape' /\ raced' = raced /\ \A c \in Calls : call'[c].at = "idle"
  BY DEF CallShape, Fields, Dies, Idle

----------------------------------------------------------------------------
(* token pairs *)

\* The shape of the stored sets; exchanged is bounded only by the pairs issued.
SessionsShape ==
  sessions \in [next : Nat, revoked : SUBSET Tokens,
                lapsed : SUBSET Tokens, cached : SUBSET Tokens, blacklist : SUBSET Tokens,
                exchanged : [Tokens -> Nat], answered : SUBSET Tokens,
                closed : SUBSET Tokens, intruded : SUBSET Tokens]

\* A log-out is answered after its revocation, what it blacklisted is on record
\* until the token lapses, and a token is in exchange by one call that found it
\* unrevoked.
SessionsInv ==
  /\ CallShape
  /\ SessionsShape
  /\ raced \in BOOLEAN
  /\ \A c \in Calls : call[c].at \in {"idle", "rotate", "issue", "revoke", "cache", "persist",
                                    "lookup"}
  /\ \A c \in Calls : call[c].at # "idle" => call[c].id \in Tokens
  /\ sessions.answered \subseteq sessions.revoked
  /\ \A c \in Calls : call[c].at \in {"cache", "persist"} => call[c].id \in sessions.revoked
  /\ sessions.closed \subseteq sessions.blacklist \cup sessions.lapsed
  /\ sessions.intruded = {}
  /\ \A c \in Calls : At(c, "lookup") => (call[c].seen => call[c].id \in sessions.closed)
  /\ \A t \in Tokens : sessions.exchanged[t] > 0 => t \in sessions.revoked
  /\ \A c \in Calls : At(c, "rotate") => call[c].seen = TRUE
  /\ \A c \in Calls : At(c, "issue") => call[c].id \in sessions.revoked
  /\ ~raced =>
       /\ \A t \in Tokens : sessions.exchanged[t] <= 1
       /\ \A c \in Calls : At(c, "issue") =>
            /\ sessions.exchanged[call[c].id] = 0
            /\ \A d \in Calls : At(d, "issue") /\ call[d].id = call[c].id => d = c

LEMMA SessionsInitInv == RequestsInit /\ SessionsInit => SessionsInv
  <1> SUFFICES ASSUME RequestsInit, SessionsInit PROVE SessionsInv
    OBVIOUS
  <1>1. SessionsShape
    BY DEF SessionsInit, SessionsShape
  <1>2. /\ sessions.answered = {} /\ sessions.closed = {} /\ sessions.intruded = {}
        /\ \A t \in Tokens : sessions.exchanged[t] = 0
    BY DEF SessionsInit
  <1>3. raced = FALSE /\ CallShape /\ \A c \in Calls : call[c].at = "idle"
    BY InitCalls DEF RequestsInit, At
  <1> HIDE DEF SessionsShape
  <1>4. \A t \in Tokens : ~(sessions.exchanged[t] > 0) /\ sessions.exchanged[t] <= 1
    BY <1>2
  <1>5. QED
    BY <1>1, <1>2, <1>3, <1>4 DEF SessionsInv, At

LEMMA SessionsStep == SessionsInv /\ SessionsNext => SessionsInv'
  <1> SUFFICES ASSUME SessionsInv, SessionsNext PROVE SessionsInv'
    OBVIOUS
  <1> USE SessionsAssumption DEF SessionsInv, SessionsShape, At, reqVars
  <1>1. ASSUME NEW c \in Calls, NEW t \in Tokens, refresh(c, t) PROVE SessionsInv'
    <2>1. Stored(t) = TRUE
      BY <1>1 DEF refresh, Stored
    <2>2. Reads(c, "rotate", t, TRUE, None) /\ sessions' = sessions
      BY <1>1, <2>1 DEF refresh
    <2>3. /\ call'[c].at = "rotate" /\ call'[c].id = t /\ call'[c].seen = TRUE
          /\ CallShape' /\ raced' = raced /\ sessions' = sessions
          /\ \A d \in Calls \ {c} : call'[d] = call[d]
      BY <2>2 DEF Reads, Waits, CallShape, Fields
    <2>4. QED
      BY <2>3
  <1>2. ASSUME NEW c \in Calls, NEW t \in Tokens, NEW shown \in BOOLEAN, logout(c, t, shown)
        PROVE  SessionsInv'
    <2>1. /\ call'[c].at = "revoke" /\ call'[c].id = t
          /\ CallShape' /\ raced' = raced /\ sessions' = sessions
          /\ \A d \in Calls \ {c} : call'[d] = call[d]
      BY <1>2, ReadsEffect, ZenonT(60) DEF logout
    <2>2. QED
      BY <2>1
  <1>16. ASSUME NEW c \in Calls, NEW t \in Tokens, logout_unknown(c, t) PROVE SessionsInv'
    <2>1. t \in sessions.revoked
      BY <1>16 DEF logout_unknown, Stored
    <2>2. QED
      BY <1>16, <2>1 DEF logout_unknown, CallShape
  <1>3. ASSUME NEW c \in Calls, NEW t \in Tokens, isTokenBlacklisted(c, t) PROVE SessionsInv'
    <2>1. /\ call'[c].at = "lookup" /\ call'[c].id = t
          /\ CallShape' /\ raced' = raced /\ sessions' = sessions
          /\ \A d \in Calls \ {c} : call'[d] = call[d]
      BY <1>3, ReadsEffect DEF isTokenBlacklisted
    <2>2. call'[c].seen => t \in sessions.closed
      BY <1>3 DEF isTokenBlacklisted, Reads, Waits, CallShape, Fields
    <2>3. QED
      BY <2>1, <2>2
  <1>4. ASSUME NEW c \in Calls, login(c) PROVE SessionsInv'
    BY <1>4 DEF login, issueTokenPair, CallShape
  <1>5. ASSUME NEW c \in Calls, refresh_rotate(c) PROVE SessionsInv'
    <2> DEFINE t == call[c].id
    <2>1. /\ call[c].at = "rotate" /\ t \in Tokens
          /\ sessions' = [sessions EXCEPT !.revoked = @ \cup {t}]
          /\ Moves(c, "issue")
      BY <1>5 DEF refresh_rotate
    <2>2. raced' \in BOOLEAN /\ (~raced' => ~raced /\ t \notin sessions.revoked)
      BY <1>5 DEF refresh_rotate, Trusts, Stored
    <2>3. ~raced' => sessions.exchanged[t] = 0
      BY <2>1, <2>2
    <2>4. \A d \in Calls : call[d].at = "issue" /\ ~raced' => call[d].id # t
      BY <2>2
    <2>5. QED
      BY <2>1, <2>2, <2>3, <2>4, MovesEffect
  <1>6. ASSUME NEW c \in Calls, refresh_issue(c) PROVE SessionsInv'
    <2> DEFINE t == call[c].id
               once == [sessions.exchanged EXCEPT ![t] = @ + 1]
    <2>1. /\ call[c].at = "issue" /\ t \in Tokens /\ raced' = raced
          /\ sessions' = [sessions EXCEPT !.next = @ + 1, !.exchanged = once]
          /\ Ends(c)
      BY <1>6 DEF refresh_issue, issueTokenPair
    <2>2. t \in sessions.revoked
      BY <2>1
    <2>3. ~raced => sessions.exchanged[t] = 0
      BY <2>1
    <2>4. ~raced => \A d \in Calls \ {c} : call[d].at = "issue" => call[d].id # t
      BY <2>1
    <2>5. once \in [Tokens -> Nat] /\ sessions.next + 1 \in Nat
      BY <2>1
    <2> HIDE DEF once
    <2>6. SessionsShape'
      BY <2>1, <2>5
    <2>7. /\ sessions'.revoked = sessions.revoked /\ sessions'.closed = sessions.closed
          /\ sessions'.blacklist = sessions.blacklist /\ sessions'.lapsed = sessions.lapsed
          /\ sessions'.intruded = sessions.intruded /\ sessions'.answered = sessions.answered
          /\ sessions'.exchanged = once
      BY <2>1
    <2> HIDE DEF SessionsShape
    <2> USE DEF once
    <2>8. QED
      BY <2>1, <2>2, <2>3, <2>4, <2>6, <2>7, EndsEffect
  <1>7. ASSUME NEW c \in Calls, logout_revoke(c) PROVE SessionsInv'
    <2> DEFINE t == call[c].id
    <2>1. call[c].at = "revoke" /\ t \in Tokens
      BY <1>7 DEF logout_revoke
    <2>2. raced' \in BOOLEAN /\ (raced => raced')
      BY <1>7 DEF logout_revoke, Trusts
    <2>3. CASE call[c].arg
      <3>1. sessions' = [sessions EXCEPT !.revoked = @ \cup {t}] /\ Moves(c, "cache")
        BY <1>7, <2>3 DEF logout_revoke
      <3>2. QED
        BY <2>1, <2>2, <3>1, MovesEffect
    <2>4. CASE ~call[c].arg
      <3>1. /\ sessions' = [sessions EXCEPT !.revoked = @ \cup {t}, !.answered = @ \cup {t}]
            /\ Ends(c)
        BY <1>7, <2>4 DEF logout_revoke
      <3>2. /\ SessionsShape' /\ sessions'.revoked = sessions.revoked \cup {t}
            /\ sessions'.answered = sessions.answered \cup {t}
            /\ sessions'.closed = sessions.closed /\ sessions'.lapsed = sessions.lapsed
            /\ sessions'.blacklist = sessions.blacklist
            /\ sessions'.intruded = sessions.intruded
            /\ sessions'.exchanged = sessions.exchanged
        BY <2>1, <3>1
      <3>3. CallShape' /\ call'[c].at = "idle" /\ \A d \in Calls \ {c} : call'[d] = call[d]
        BY <3>1, EndsEffect
      <3> HIDE DEF SessionsShape
      <3>4. QED
        BY <2>2, <3>2, <3>3
    <2>5. QED
      BY <2>3, <2>4
  <1>8. ASSUME NEW c \in Calls, blacklistToken(c) PROVE SessionsInv'
    BY <1>8, MovesEffect DEF blacklistToken
  <1>9. ASSUME NEW c \in Calls, blacklistToken_persist(c) PROVE SessionsInv'
    <2> DEFINE t == call[c].id
    <2>1. /\ call[c].at = "persist" /\ t \in Tokens /\ raced' = raced
          /\ sessions' = [sessions EXCEPT !.blacklist = @ \cup {t}, !.answered = @ \cup {t},
                                          !.closed = @ \cup {t}]
          /\ t \in sessions.revoked
          /\ Ends(c)
      BY <1>9 DEF blacklistToken_persist
    <2>2. SessionsShape'
      BY <2>1
    <2>3. /\ sessions'.closed = sessions.closed \cup {t}
          /\ sessions'.answered = sessions.answered \cup {t}
          /\ sessions'.blacklist = sessions.blacklist \cup {t}
          /\ sessions'.lapsed = sessions.lapsed /\ sessions'.revoked = sessions.revoked
          /\ sessions'.intruded = sessions.intruded
          /\ sessions'.exchanged = sessions.exchanged
      BY <2>1
    <2> HIDE DEF SessionsShape
    <2>4. QED
      BY <2>1, <2>2, <2>3, EndsEffect
  <1>10. ASSUME NEW c \in Calls, isTokenBlacklisted_lookup(c) PROVE SessionsInv'
    BY <1>10, EndsEffect DEF isTokenBlacklisted_lookup
  <1>11. ASSUME NEW c \in Calls, Fails(c), UNCHANGED sessions PROVE SessionsInv'
    BY <1>11, EndsEffect DEF Fails
  <1>12. ASSUME NEW t \in Tokens, AccessTokenLapses(t) PROVE SessionsInv'
    BY <1>12 DEF AccessTokenLapses, CallShape
  <1>13. ASSUME cleanupExpiredTokens PROVE SessionsInv'
    BY <1>13 DEF cleanupExpiredTokens, CallShape
  <1>14. ASSUME Restart PROVE SessionsInv'
    BY <1>14, DiesEffect DEF Restart
  <1> HIDE DEF SessionsInv, At, reqVars, SessionsShape
  <1>17. ASSUME NEW c \in Calls, NEW t \in Tokens,
                \/ refresh(c, t) \/ logout_unknown(c, t) \/ isTokenBlacklisted(c, t)
                \/ \E shown \in BOOLEAN : logout(c, t, shown)
         PROVE  SessionsInv'
    BY <1>1, <1>2, <1>3, <1>16, <1>17, ZenonT(30)
  <1>18. ASSUME NEW c \in Calls,
                \/ login(c) \/ refresh_rotate(c) \/ refresh_issue(c) \/ logout_revoke(c)
                \/ blacklistToken(c) \/ blacklistToken_persist(c)
                \/ isTokenBlacklisted_lookup(c)
                \/ Fails(c) /\ UNCHANGED sessions
         PROVE  SessionsInv'
    BY <1>4, <1>5, <1>6, <1>7, <1>8, <1>9, <1>10, <1>11, <1>18, ZenonT(30)
  <1>15. QED
    BY <1>12, <1>13, <1>14, <1>17, <1>18, ZenonT(30) DEF SessionsNext

----------------------------------------------------------------------------
(* KYC records *)

\* The provider has approved in one of the sessions it was asked for.
Approved == \E s \in SessionIds : s <= provider.opened /\ provider.verdict[s] = "approved"

\* A row says "approved" only if the provider did, in the table as in a copy; and
\* a copy that is not stale names the session the table names.
KycInv ==
  /\ CallShape /\ KycTypeOK /\ raced \in BOOLEAN
  /\ ApprovalIsTheProviders
  /\ \A c \in Calls : call[c].at \in {"idle", "create_session", "link", "save"}
  /\ \A c \in Calls : ~At(c, "idle") =>
       /\ call[c].arg \in KycCustomer
       /\ call[c].arg.status = "approved" => Approved
  /\ \A c \in Calls : At(c, "create_session") \/ At(c, "save") =>
       call[c].arg.providerId = IF call[c].seen = None THEN None ELSE call[c].seen.providerId
  /\ SessionStaysLinked
  /\ ~raced /\ customer = None => provider.linked = None

LEMMA KycInitInv == RequestsInit /\ KycInit => KycInv
  <1> SUFFICES ASSUME RequestsInit, KycInit PROVE KycInv
    OBVIOUS
  <1>1. KycTypeOK
    BY KycAssumption DEF KycInit, KycTypeOK, Statuses
  <1>2. raced = FALSE /\ CallShape /\ \A c \in Calls : call[c].at = "idle"
    BY InitCalls DEF RequestsInit, At
  <1>3. QED
    BY <1>1, <1>2 DEF KycInit, KycInv, At, ApprovalIsTheProviders, isApproved, SessionStaysLinked

LEMMA KycStep == KycInv /\ KycNext => KycInv'
  <1> SUFFICES ASSUME KycInv, KycNext PROVE KycInv'
    OBVIOUS
  <1> USE KycAssumption DEF At, kycVars, reqVars, KycCustomer, Statuses
  <1> USE DEF KycInv, KycTypeOK, ApprovalIsTheProviders, isApproved, SessionStaysLinked, Approved
  <1>1. ASSUME NEW c \in Calls, upsertCustomer(c) PROVE KycInv'
    BY <1>1, ReadsEffect DEF upsertCustomer, Pending
  <1>2. ASSUME NEW c \in Calls, uploadDocument(c) PROVE KycInv'
    BY <1>2, ReadsEffect DEF uploadDocument, Pending
  <1>3. ASSUME NEW c \in Calls, createSession(c, TRUE) PROVE KycInv'
    <2> DEFINE n == provider.opened + 1
               saved == [call[c].arg EXCEPT !.providerId = n]
    <2>1. /\ call[c].at = "create_session" /\ customer' = customer /\ raced' = raced
          /\ provider.opened < MaxSessions /\ provider' = [provider EXCEPT !.opened = n]
          /\ Waits(c, "link", None, call[c].seen, saved)
      BY <1>3 DEF createSession
    <2>2. /\ n \in SessionIds /\ provider'.opened = n /\ provider'.linked = provider.linked
          /\ provider'.verdict = provider.verdict
      BY <2>1 DEF SessionIds
    <2>5. KycTypeOK' /\ (Approved => Approved')
      BY <2>1, <2>2 DEF SessionIds
    <2>3. saved \in KycCustomer /\ saved.status = call[c].arg.status
      BY <2>1, <2>2
    <2> HIDE DEF saved
    <2>4. QED
      BY <2>1, <2>2, <2>3, <2>5, WaitsEffect
  <1>9. ASSUME NEW c \in Calls, createSession(c, FALSE) PROVE KycInv'
    BY <1>9, MovesEffect DEF createSession
  <1>4. ASSUME NEW c \in Calls, NEW s \in SessionIds, NEW byAlias \in BOOLEAN,
               handleWebhook(c, s, byAlias)
        PROVE  KycInv'
    BY <1>4, ReadsEffect DEF handleWebhook
  <1>5. ASSUME NEW c \in Calls, SaveCustomer(c) PROVE KycInv'
    <2> DEFINE row == call[c].arg
    <2>1. CallShape' /\ call'[c].at = "idle" /\ \A d \in Calls \ {c} : call'[d] = call[d]
      BY <1>5, EndsEffect DEF SaveCustomer
    <2>2. CASE UNCHANGED <<kycVars, raced>>
      BY <2>1, <2>2
    <2>3. CASE /\ customer' = row /\ Trusts(c, customer)
               /\ provider' = IF At(c, "link")
                              THEN [provider EXCEPT !.linked = row.providerId] ELSE provider
      <3>1. row \in KycCustomer /\ (row.status = "approved" => Approved)
        BY <1>5 DEF SaveCustomer
      <3>2. KycTypeOK' /\ Approved' = Approved
        BY <2>3, <3>1
      <3>3. raced' \in BOOLEAN /\ (~raced' => ~raced /\ call[c].seen = customer)
        BY <2>3 DEF Trusts
      <3>4. ~raced' => row.providerId = provider'.linked
        <4>1. CASE call[c].at = "link"
          BY <2>3, <4>1
        <4>2. CASE call[c].at = "save"
          BY <2>3, <3>3, <4>2
        <4>3. QED
          BY <1>5, <4>1, <4>2 DEF SaveCustomer
      <3>5. customer' # None
        BY <2>3, <3>1
      <3>6. QED
        BY <2>1, <2>3, <3>1, <3>2, <3>3, <3>4, <3>5
    <2>4. QED
      BY <1>5, <2>2, <2>3 DEF SaveCustomer
  <1>6. ASSUME NEW c \in Calls, Fails(c), UNCHANGED kycVars PROVE KycInv'
    BY <1>6, EndsEffect DEF Fails
  <1>7. ASSUME NEW s \in SessionIds, NEW verdict \in {"approved", "rejected"},
               ProviderDecides(s, verdict)
        PROVE  KycInv'
    BY <1>7 DEF ProviderDecides, CallShape
  <1>8. QED
    <2>1. ASSUME NEW c \in Calls, NEW ok \in BOOLEAN, createSession(c, ok) PROVE KycInv'
      <3>1. CASE ok = TRUE
        BY <1>3, <2>1, <3>1
      <3>2. CASE ok = FALSE
        BY <1>9, <2>1, <3>2
      <3>3. QED
        BY <3>1, <3>2
    <2>2. QED
      BY <1>1, <1>2, <2>1, <1>4, <1>5, <1>6, <1>7 DEF KycNext

----------------------------------------------------------------------------
(* batches *)

BatchRow ==
  [row : {"none", "pending", "processing", "completed", "failed"},
   export : BOOLEAN, total : Nat, processed : Nat, failed : Nat,
   job : {"none", "waiting", "active", "written", "completed", "failed"},
   done : Nat, errors : Nat, stalls : Nat, landing : SUBSET {"processing", "failed"}]

\* An export is counted by its first worker only if that came to its last write.
ExportRow(r) ==
  /\ r.processed <= 1 /\ r.failed <= 1
  /\ r.stalls = 0 /\ r.job \notin {"written", "completed"} => r.processed = 0 /\ r.failed = 0
  /\ r.job \in {"written", "completed"} =>
       \/ r.processed + r.failed = 1
       \/ r.processed + r.failed = 2 /\ r.stalls = 1

\* What BatchCountsAreWhole says of one batch; a job is never without a row, and a
\* row never without the batch.
WholeRow(r) ==
  /\ r \in BatchRow /\ r.stalls <= 1
  /\ r.job # "none" => r.row # "none"
  /\ r.row = "none" => r.processed = 0 /\ r.failed = 0 /\ r.stalls = 0
  /\ r.row = "completed" => r.processed > 0
  /\ r.export => ExportRow(r)
  /\ ~r.export /\ r.job \in {"written", "completed"} => r.processed + r.failed = r.total

BatchInv ==
  /\ CallShape
  /\ DOMAIN batches = BatchIds
  /\ \A b \in BatchIds : WholeRow(batches[b])
  /\ \A c \in Calls : call[c].at \in {"idle", "enqueue"}
  /\ \A c \in Calls : At(c, "enqueue") =>
       /\ call[c].id \in BatchIds
       /\ batches[call[c].id].row # "none" /\ batches[call[c].id].job = "none"
  /\ \A c, d \in Calls :
       At(c, "enqueue") /\ At(d, "enqueue") /\ call[c].id = call[d].id => c = d

LEMMA BatchInitInv == RequestsInit /\ BatchInit => BatchInv
  BY InitCalls DEF BatchInit, BatchInv, WholeRow, BatchRow, ExportRow, NoBatch, At

\* A step that replaces one row and takes none away.
LEMMA BatchUpdate ==
    ASSUME BatchInv, NEW b \in BatchIds, NEW r, WholeRow(r),
           r.row = "none" => batches[b].row = "none",
           batches' = [batches EXCEPT ![b] = r], CallShape',
           \A c \in Calls :
             \/ call'[c] = call[c] /\ (At(c, "enqueue") /\ call[c].id = b => r.job = "none")
             \/ call'[c].at = "idle"
    PROVE  BatchInv'
  <1> USE DEF BatchInv, At
  <1>1. \A a \in BatchIds : WholeRow(batches'[a])
    OBVIOUS
  <1>2. \A a \in BatchIds : batches[a].row # "none" => batches'[a].row # "none"
    OBVIOUS
  <1>3. batches'[b].row = r.row /\ batches'[b].job = r.job
    OBVIOUS
  <1> HIDE DEF WholeRow
  <1>4. QED
    BY <1>1, <1>2, <1>3

LEMMA BatchStep == BatchInv /\ BatchNext => BatchInv'
  <1> SUFFICES ASSUME BatchInv, BatchNext PROVE BatchInv'
    OBVIOUS
  <1> USE BatchAssumption DEF At, reqVars
  <1>1. ASSUME NEW b \in BatchIds, UNCHANGED reqVars, NEW r, WholeRow(r),
               r.row = "none" => batches[b].row = "none",
               batches' = [batches EXCEPT ![b] = r],
               r.job = "none" \/ batches[b].job # "none"
        PROVE  BatchInv'
    BY <1>1, BatchUpdate DEF BatchInv, CallShape
  <1>2. ASSUME NEW b \in BatchIds PROVE WholeRow(batches[b])
    BY DEF BatchInv
  <1>3. ASSUME NEW c \in Calls, NEW b \in BatchIds, NEW n \in 0 .. MaxItemsEach,
               NEW export \in BOOLEAN, createBatchJob(c, b, n, export)
        PROVE  BatchInv'
    <2> DEFINE r == [batches[b] EXCEPT !.row = "pending", !.total = n, !.export = export]
    <2>1. batches' = [batches EXCEPT ![b] = r]
      BY <1>3 DEF createBatchJob, BatchInv
    <2>2. n \in Nat /\ batches[b].row = "none" /\ batches[b].job = "none"
      BY <1>3, <1>2 DEF createBatchJob, WholeRow
    <2>3. WholeRow(r) /\ r.row # "none" /\ r.job = "none"
      BY <2>2, <1>2 DEF WholeRow, BatchRow, ExportRow
    <2> HIDE DEF r
    <2>4. /\ CallShape' /\ call'[c].at = "enqueue" /\ call'[c].id = b
          /\ \A d \in Calls \ {c} : call'[d] = call[d]
      BY <1>3, WaitsEffect DEF createBatchJob, BatchInv
    <2>5. /\ DOMAIN batches' = BatchIds /\ batches'[b] = r
          /\ \A a \in BatchIds \ {b} : batches'[a] = batches[a]
      BY <2>1 DEF BatchInv
    <2>6. \A d \in Calls \ {c} : call[d].at = "enqueue" => call[d].id # b
      BY <2>2 DEF BatchInv
    <2> HIDE DEF WholeRow
    <2>7. QED
      BY <2>3, <2>4, <2>5, <2>6 DEF BatchInv
  <1>4. ASSUME NEW c \in Calls, createBatchJob_enqueue(c)
        PROVE  BatchInv'
    <2> DEFINE b == call[c].id
    <2>0. /\ b \in BatchIds /\ batches[b].row # "none" /\ batches[b].job = "none" /\ Ends(c)
          /\ \A d \in Calls \ {c} : call[d].at = "enqueue" => call[d].id # b
      BY <1>4 DEF createBatchJob_enqueue, BatchInv
    <2> DEFINE r == [batches[b] EXCEPT !.job = "waiting"]
    <2>1. batches' = [batches EXCEPT ![b] = r]
      BY <1>4, <2>0 DEF createBatchJob_enqueue, BatchInv
    <2>2. WholeRow(r) /\ r.row # "none"
      BY <1>2, <2>0 DEF WholeRow, BatchRow, ExportRow
    <2> HIDE DEF r
    <2>3. /\ CallShape' /\ call'[c].at = "idle"
          /\ \A d \in Calls \ {c} : call'[d] = call[d]
      BY <2>0, EndsEffect DEF BatchInv
    <2>4. QED
      BY <2>0, <2>1, <2>2, <2>3, BatchUpdate, ZenonT(60)
  <1>5. ASSUME NEW b \in BatchIds, onActive(b)
        PROVE  BatchInv'
    <2> DEFINE r == [batches[b] EXCEPT !.job = "active",
                                      !.done = 0,
                                      !.errors = 0,
                                      !.landing = @ \cup {"processing"}]
    <2>1. batches' = [batches EXCEPT ![b] = r]
      BY <1>5 DEF onActive, BatchInv
    <2>2. WholeRow(r) /\ r.row # "none" /\ batches[b].job # "none"
      BY <1>5, <1>2 DEF onActive, WholeRow, BatchRow, ExportRow
    <2> HIDE DEF r
    <2>3. UNCHANGED reqVars
      BY <1>5 DEF onActive
    <2>4. QED
      BY <1>1, <2>1, <2>2, <2>3
  <1>6. ASSUME NEW b \in BatchIds, ProcessEnd(b)
        PROVE  BatchInv'
    <2> DEFINE x == batches[b]
               status == IF x.errors = x.total THEN "failed" ELSE "completed"
               r == [x EXCEPT !.row = status, !.processed = x.done, !.failed = x.errors,
                              !.job = "written"]
    <2>1. batches' = [batches EXCEPT ![b] = r]
      BY <1>6 DEF ProcessEnd, BatchInv
    <2>2. /\ x \in BatchRow /\ x.stalls <= 1 /\ x.done + x.errors = x.total
          /\ x.export = FALSE /\ x.job # "none"
      BY <1>6, <1>2 DEF ProcessEnd, WholeRow, BatchRow
    <2>3. status \in {"failed", "completed"} /\ (status = "completed" => x.done > 0)
      BY <2>2 DEF BatchRow
    <2> HIDE DEF status
    <2>4. WholeRow(r) /\ r.row # "none"
      BY <2>2, <2>3 DEF WholeRow, BatchRow
    <2> HIDE DEF r
    <2>5. UNCHANGED reqVars
      BY <1>6 DEF ProcessEnd
    <2>6. QED
      BY <1>1, <2>1, <2>2, <2>4, <2>5
  <1>16. ASSUME NEW b \in BatchIds, ExportEnd(b, TRUE)
        PROVE  BatchInv'
    <2> DEFINE x == batches[b]
               r == [x EXCEPT !.row = "completed", !.processed = 1, !.job = "written"]
    <2>1. batches' = [batches EXCEPT ![b] = r]
      BY <1>16 DEF ExportEnd, BatchInv
    <2>2. /\ x \in BatchRow /\ x.stalls \in {0, 1} /\ x.export = TRUE
          /\ x.failed \in {0, 1} /\ (x.stalls = 0 => x.failed = 0) /\ x.job # "none"
      BY <1>16, <1>2 DEF ExportEnd, WholeRow, BatchRow, ExportRow
    <2>3. /\ r \in BatchRow /\ r.row = "completed" /\ r.processed = 1 /\ r.job = "written"
          /\ r.failed = x.failed /\ r.stalls = x.stalls /\ r.export
      BY <2>2 DEF BatchRow
    <2> HIDE DEF r, x
    <2>4. WholeRow(r) /\ r.row # "none"
      BY <2>2, <2>3 DEF WholeRow, ExportRow
    <2>5. UNCHANGED reqVars
      BY <1>16 DEF ExportEnd
    <2>6. QED
      BY <1>1, <2>1, <2>2, <2>4, <2>5 DEF x
  <1>17. ASSUME NEW b \in BatchIds, ExportEnd(b, FALSE)
        PROVE  BatchInv'
    <2> DEFINE x == batches[b]
               r == [x EXCEPT !.row = "failed", !.processed = 0, !.failed = 1, !.job = "written"]
    <2>1. batches' = [batches EXCEPT ![b] = r]
      BY <1>17 DEF ExportEnd, BatchInv
    <2>2. x \in BatchRow /\ x.stalls <= 1 /\ x.export = TRUE /\ x.job # "none"
      BY <1>17, <1>2 DEF ExportEnd, WholeRow
    <2>3. /\ r \in BatchRow /\ r.row = "failed" /\ r.processed = 0 /\ r.failed = 1
          /\ r.job = "written" /\ r.stalls = x.stalls /\ r.export
      BY <2>2 DEF BatchRow
    <2> HIDE DEF r, x
    <2>4. WholeRow(r) /\ r.row # "none"
      BY <2>2, <2>3 DEF WholeRow, ExportRow
    <2>5. UNCHANGED reqVars
      BY <1>17 DEF ExportEnd
    <2>6. QED
      BY <1>1, <2>1, <2>2, <2>4, <2>5 DEF x
  <1>18. ASSUME NEW b \in BatchIds, JobCompletes(b)
        PROVE  BatchInv'
    <2> DEFINE r == [batches[b] EXCEPT !.job = "completed"]
    <2>1. batches' = [batches EXCEPT ![b] = r]
      BY <1>18 DEF JobCompletes, BatchInv
    <2>2. WholeRow(r) /\ r.row # "none" /\ batches[b].job # "none"
      BY <1>18, <1>2 DEF JobCompletes, WholeRow, BatchRow, ExportRow
    <2> HIDE DEF r
    <2>3. UNCHANGED reqVars
      BY <1>18 DEF JobCompletes
    <2>4. QED
      BY <1>1, <2>1, <2>2, <2>3
  <1>7. ASSUME NEW b \in BatchIds, ProcessThrows(b)
        PROVE  BatchInv'
    <2> DEFINE r == [batches[b] EXCEPT !.job = "failed",
                                      !.landing = @ \cup {"failed"}]
    <2>1. batches' = [batches EXCEPT ![b] = r]
      BY <1>7 DEF ProcessThrows, BatchInv
    <2>2. WholeRow(r) /\ r.row # "none" /\ batches[b].job # "none"
      BY <1>7, <1>2 DEF ProcessThrows, WholeRow, BatchRow, ExportRow
    <2> HIDE DEF r
    <2>3. UNCHANGED reqVars
      BY <1>7 DEF ProcessThrows
    <2>4. QED
      BY <1>1, <2>1, <2>2, <2>3
  <1>8. ASSUME NEW b \in BatchIds, WorkerDies(b), batches[b].stalls = 0
        PROVE  BatchInv'
    <2> DEFINE x == batches[b]
               r == [x EXCEPT !.job = "waiting", !.stalls = 1]
    <2>1. batches' = [batches EXCEPT ![b] = r]
      BY <1>8 DEF WorkerDies, BatchInv
    <2>2. /\ x \in BatchRow /\ x.row # "none" /\ x.job # "none"
          /\ x.row = "completed" => x.processed > 0
          /\ x.export => x.processed <= 1 /\ x.failed <= 1
      BY <1>8, <1>2 DEF WorkerDies, WholeRow, ExportRow
    <2>3. /\ r \in BatchRow /\ r.row = x.row /\ r.processed = x.processed
          /\ r.failed = x.failed /\ r.job = "waiting" /\ r.stalls = 1 /\ r.export = x.export
      BY <2>2 DEF BatchRow
    <2> HIDE DEF r, x
    <2>4. WholeRow(r) /\ r.row # "none"
      BY <2>2, <2>3 DEF WholeRow, ExportRow
    <2>5. UNCHANGED reqVars
      BY <1>8 DEF WorkerDies
    <2>6. QED
      BY <1>1, <2>1, <2>2, <2>4, <2>5 DEF x
  <1>9. ASSUME NEW b \in BatchIds, WorkerDies(b), batches[b].stalls # 0
        PROVE  BatchInv'
    <2> DEFINE r == [batches[b] EXCEPT !.job = "failed",
                                      !.landing = @ \cup {"failed"}]
    <2>1. batches' = [batches EXCEPT ![b] = r]
      BY <1>9 DEF WorkerDies, BatchInv
    <2>2. WholeRow(r) /\ r.row # "none" /\ batches[b].job # "none"
      BY <1>9, <1>2 DEF WorkerDies, WholeRow, BatchRow, ExportRow
    <2> HIDE DEF r
    <2>3. UNCHANGED reqVars
      BY <1>9 DEF WorkerDies
    <2>4. QED
      BY <1>1, <2>1, <2>2, <2>3
  <1>10. ASSUME NEW b \in BatchIds, ProcessItem(b, TRUE)
        PROVE  BatchInv'
    <2> DEFINE r == [batches[b] EXCEPT !.done = @ + 1]
    <2>1. batches' = [batches EXCEPT ![b] = r]
      BY <1>10 DEF ProcessItem, BatchInv
    <2>2. WholeRow(r) /\ r.row # "none" /\ batches[b].job # "none"
      BY <1>10, <1>2 DEF ProcessItem, WholeRow, BatchRow, ExportRow
    <2> HIDE DEF r
    <2>3. UNCHANGED reqVars
      BY <1>10 DEF ProcessItem
    <2>4. QED
      BY <1>1, <2>1, <2>2, <2>3
  <1>11. ASSUME NEW b \in BatchIds, ProcessItem(b, FALSE)
        PROVE  BatchInv'
    <2> DEFINE r == [batches[b] EXCEPT !.errors = @ + 1]
    <2>1. batches' = [batches EXCEPT ![b] = r]
      BY <1>11 DEF ProcessItem, BatchInv
    <2>2. WholeRow(r) /\ r.row # "none" /\ batches[b].job # "none"
      BY <1>11, <1>2 DEF ProcessItem, WholeRow, BatchRow, ExportRow
    <2> HIDE DEF r
    <2>3. UNCHANGED reqVars
      BY <1>11 DEF ProcessItem
    <2>4. QED
      BY <1>1, <2>1, <2>2, <2>3
  <1>12. ASSUME NEW b \in BatchIds, NEW status \in {"processing", "failed"},
               UpdateLands(b, status)
        PROVE  BatchInv'
    <2> DEFINE r == [batches[b] EXCEPT !.row = status,
                                      !.landing = @ \ {status}]
    <2>1. batches' = [batches EXCEPT ![b] = r]
      BY <1>12 DEF UpdateLands, BatchInv
    <2>2. WholeRow(r) /\ r.row # "none"
      BY <1>12, <1>2 DEF UpdateLands, WholeRow, BatchRow, ExportRow
    <2> HIDE DEF r
    <2>3. call' = call /\ r.job = batches[b].job
      BY <1>12, <1>2 DEF UpdateLands, WholeRow, BatchRow, r
    <2>4. QED
      BY <2>1, <2>2, <2>3, BatchUpdate DEF BatchInv, CallShape
  <1>13. ASSUME NEW b \in BatchIds, NEW status \in {"processing", "failed"},
                UpdateIsRefused(b, status)
        PROVE  BatchInv'
    <2> DEFINE left == batches[b].landing \ {status}
               r == [batches[b] EXCEPT !.landing = left]
    <2>1. batches' = [batches EXCEPT ![b] = r]
      BY <1>13 DEF UpdateIsRefused, BatchInv
    <2>2. left \subseteq {"processing", "failed"}
      BY <1>2 DEF WholeRow, BatchRow
    <2> HIDE DEF left
    <2>3. WholeRow(r) /\ r.row = batches[b].row /\ r.job = batches[b].job
      BY <1>2, <2>2 DEF WholeRow, BatchRow, ExportRow
    <2> HIDE DEF r
    <2>4. UNCHANGED reqVars
      BY <1>13 DEF UpdateIsRefused
    <2>5. QED
      BY <1>1, <2>1, <2>3, <2>4
  <1>14. ASSUME NEW c \in Calls, Fails(c), UNCHANGED batches PROVE BatchInv'
    BY <1>14, EndsEffect DEF Fails, BatchInv
  <1>15. QED
    BY <1>3, <1>4, <1>5, <1>6, <1>7, <1>8, <1>9, <1>10, <1>11, <1>12, <1>13, <1>14, <1>16,
       <1>17, <1>18
    DEF BatchNext, WorkerDies, ProcessItem

\* A row whose job has ended says so, unless a late update landed on it.
Shown(r) == r.job \in {"written", "completed"} => r.row \in {"completed", "failed"}
AllShown == raced \in BOOLEAN /\ (~raced => \A b \in BatchIds : Shown(batches[b]))

LEMMA BatchShown == BatchInv /\ AllShown /\ BatchNext => AllShown'
  <1> SUFFICES ASSUME BatchInv, AllShown, BatchNext PROVE AllShown'
    OBVIOUS
  <1> USE DEF At, reqVars
  <1>1. DOMAIN batches = BatchIds /\ \A b \in BatchIds : batches[b] \in BatchRow
    BY DEF BatchInv, WholeRow
  <1>2. ASSUME NEW b \in BatchIds, raced' \in BOOLEAN, raced => raced',
               \A a \in BatchIds \ {b} : batches'[a] = batches[a],
               ~raced' /\ Shown(batches[b]) => Shown(batches'[b])
        PROVE  AllShown'
    BY <1>2 DEF AllShown
  <1> HIDE DEF AllShown
  <1>3. raced \in BOOLEAN
    BY DEF AllShown
  <1>4. ASSUME NEW c \in Calls, NEW b \in BatchIds, NEW n \in 0 .. MaxItemsEach,
               NEW export \in BOOLEAN, createBatchJob(c, b, n, export)
        PROVE  AllShown'
    <2>1. batches[b].job = "none"
      BY <1>4 DEF createBatchJob, BatchInv, WholeRow
    <2>2. batches'[b].job = "none" /\ \A a \in BatchIds \ {b} : batches'[a] = batches[a]
      BY <1>1, <1>4, <2>1 DEF createBatchJob, BatchRow
    <2>3. QED
      BY <1>2, <1>3, <1>4, <2>2 DEF createBatchJob, Shown
  <1>5. ASSUME NEW c \in Calls, createBatchJob_enqueue(c) PROVE AllShown'
    <2> DEFINE b == call[c].id
    <2>1. b \in BatchIds
      BY <1>5 DEF createBatchJob_enqueue, BatchInv
    <2>2. batches'[b].job = "waiting" /\ \A a \in BatchIds \ {b} : batches'[a] = batches[a]
      BY <1>1, <1>5, <2>1 DEF createBatchJob_enqueue, BatchRow
    <2>3. QED
      BY <1>2, <1>3, <1>5, <2>1, <2>2 DEF createBatchJob_enqueue, Shown
  <1>6. ASSUME NEW b \in BatchIds, onActive(b) \/ ProcessThrows(b) \/ WorkerDies(b) PROVE AllShown'
    <2>1. /\ batches'[b].job \in {"waiting", "active", "failed"}
          /\ \A a \in BatchIds \ {b} : batches'[a] = batches[a]
      BY <1>1, <1>6 DEF onActive, ProcessThrows, WorkerDies, BatchRow
    <2>2. QED
      BY <1>2, <1>3, <1>6, <2>1 DEF onActive, ProcessThrows, WorkerDies, Shown
  <1>7. ASSUME NEW b \in BatchIds, NEW ok \in BOOLEAN, ProcessItem(b, ok) PROVE AllShown'
    <2>1. /\ batches'[b].job = batches[b].job /\ batches'[b].row = batches[b].row
          /\ \A a \in BatchIds \ {b} : batches'[a] = batches[a]
      <3>1. CASE ok = TRUE
        BY <1>1, <1>7, <3>1 DEF ProcessItem, BatchRow
      <3>2. CASE ok = FALSE
        BY <1>1, <1>7, <3>2 DEF ProcessItem, BatchRow
      <3>3. QED
        BY <3>1, <3>2
    <2>2. QED
      BY <1>2, <1>3, <1>7, <2>1 DEF ProcessItem, Shown
  <1>13. ASSUME NEW b \in BatchIds, NEW ok \in BOOLEAN, ExportEnd(b, ok) PROVE AllShown'
    <2>1. /\ batches'[b].row \in {"completed", "failed"}
          /\ \A a \in BatchIds \ {b} : batches'[a] = batches[a]
      <3>1. CASE ok = TRUE
        BY <1>1, <1>13, <3>1 DEF ExportEnd, BatchRow
      <3>2. CASE ok = FALSE
        BY <1>1, <1>13, <3>2 DEF ExportEnd, BatchRow
      <3>3. QED
        BY <3>1, <3>2
    <2>2. QED
      BY <1>2, <1>3, <1>13, <2>1 DEF ExportEnd, Shown
  <1>14. ASSUME NEW b \in BatchIds, JobCompletes(b) PROVE AllShown'
    <2>1. /\ batches[b].job = "written" /\ batches'[b].row = batches[b].row
          /\ \A a \in BatchIds \ {b} : batches'[a] = batches[a]
      BY <1>1, <1>14 DEF JobCompletes, BatchRow
    <2>2. QED
      BY <1>2, <1>3, <1>14, <2>1 DEF JobCompletes, Shown
  <1>8. ASSUME NEW b \in BatchIds, ProcessEnd(b) PROVE AllShown'
    <2>1. /\ batches'[b].row \in {"completed", "failed"}
          /\ \A a \in BatchIds \ {b} : batches'[a] = batches[a]
      BY <1>1, <1>8 DEF ProcessEnd, BatchRow
    <2>2. QED
      BY <1>2, <1>3, <1>8, <2>1 DEF ProcessEnd, Shown
  <1>9. ASSUME NEW b \in BatchIds, NEW status \in {"processing", "failed"}, UpdateLands(b, status)
        PROVE  AllShown'
    <2>1. /\ batches'[b].row = status /\ batches'[b].job = batches[b].job
          /\ \A a \in BatchIds \ {b} : batches'[a] = batches[a]
      BY <1>1, <1>9 DEF UpdateLands, BatchRow
    <2>2. /\ raced' \in BOOLEAN /\ (raced => raced')
          /\ ~raced' => ~(status = "processing" /\ batches[b].job \in {"written", "completed"})
      BY <1>3, <1>9 DEF UpdateLands
    <2>3. QED
      BY <1>2, <2>1, <2>2 DEF Shown
  <1>10. ASSUME NEW b \in BatchIds, NEW status \in {"processing", "failed"},
                UpdateIsRefused(b, status)
        PROVE  AllShown'
    <2>1. /\ batches'[b].row = batches[b].row /\ batches'[b].job = batches[b].job
          /\ \A a \in BatchIds \ {b} : batches'[a] = batches[a]
      BY <1>1, <1>10 DEF UpdateIsRefused, BatchRow
    <2>2. QED
      BY <1>2, <1>3, <1>10, <2>1 DEF UpdateIsRefused, Shown
  <1>11. ASSUME NEW c \in Calls, Fails(c), UNCHANGED batches PROVE AllShown'
    BY <1>11 DEF Fails, AllShown
  <1>12. QED
    BY <1>4, <1>5, <1>6, <1>7, <1>8, <1>9, <1>10, <1>11, <1>13, <1>14 DEF BatchNext

----------------------------------------------------------------------------
(* the drain *)

ServerState ==
  [inFlightCount : Nat, isShuttingDown : BOOLEAN, drainResolve : Signals \cup {None},
   run : [Signals -> {"none", "draining", "cleaning"}],
   timedOut : BOOLEAN, twice : BOOLEAN, late : BOOLEAN, exited : BOOLEAN]

\* No request is let in once a signal has come, so the requests in flight only
\* leave while a shutdown() waits.
ShutdownInv ==
  /\ CallShape /\ server \in ServerState
  /\ \A s \in Signals : server.run[s] # "none" => server.isShuttingDown
  /\ DrainIsOrderly

LEMMA InFlightIsFinite == IsFiniteSet(InFlight) /\ Cardinality(InFlight) \in Nat
  <1>1. IsFiniteSet(InFlight)
    BY RequestsAssumption, FS_Subset DEF InFlight
  <1>2. QED
    BY <1>1, FS_CardinalityType

\* A release takes one from the count, and lets a shutdown() go on only at zero.
LEMMA Release ==
    ASSUME server \in ServerState
    PROVE  LET r == releaseRequest(server) IN
           /\ r \in ServerState
           /\ r.inFlightCount = IF server.inFlightCount > 0 THEN server.inFlightCount - 1 ELSE 0
           /\ r.isShuttingDown = server.isShuttingDown /\ r.timedOut = server.timedOut
           /\ r.twice = server.twice /\ r.late = server.late
           /\ \/ r.run = server.run
              \/ r.inFlightCount = 0 /\ server.isShuttingDown
  <1> DEFINE count == IF server.inFlightCount > 0 THEN server.inFlightCount - 1 ELSE 0
             done == /\ server.isShuttingDown /\ count = 0 /\ server.drainResolve # None
                     /\ server.run[server.drainResolve] = "draining"
             run == IF done THEN [server.run EXCEPT ![server.drainResolve] = "cleaning"]
                    ELSE server.run
  <1>1. releaseRequest(server) = [server EXCEPT !.inFlightCount = count, !.run = run]
    BY DEF releaseRequest
  <1>2. count \in Nat
    BY DEF ServerState
  <1>3. run \in [Signals -> {"none", "draining", "cleaning"}]
    BY DEF ServerState
  <1>4. run = server.run \/ (count = 0 /\ server.isShuttingDown)
    OBVIOUS
  <1> HIDE DEF count, run
  <1>5. QED
    BY <1>1, <1>2, <1>3, <1>4 DEF ServerState, count

LEMMA ShutdownInitInv == RequestsInit /\ ShutdownInit => ShutdownInv
  <1> SUFFICES ASSUME RequestsInit, ShutdownInit PROVE ShutdownInv
    OBVIOUS
  <1>1. InFlight = {}
    BY InitCalls DEF InFlight, At
  <1>2. server \in ServerState
    BY DEF ShutdownInit, ServerState
  <1>3. QED
    BY <1>1, <1>2, InitCalls, FS_EmptySet
    DEF ShutdownInit, ShutdownInv, DrainIsOrderly, Cleaning

LEMMA ShutdownStep == ShutdownInv /\ ShutdownNext => ShutdownInv'
  <1> SUFFICES ASSUME ShutdownInv, ShutdownNext PROVE ShutdownInv'
    OBVIOUS
  <1> USE DEF ShutdownInv, DrainIsOrderly, At, reqVars
  <1>1. ASSUME NEW c \in Calls, ShutdownMiddleware(c) PROVE ShutdownInv'
    <2>1. /\ ~server.isShuttingDown /\ call[c].at = "idle"
          /\ CallShape' /\ call'[c].at = "handled"
          /\ \A d \in Calls \ {c} : call'[d] = call[d]
      BY <1>1, ReadsEffect DEF ShutdownMiddleware
    <2>2. \A s \in Signals : server.run[s] = "none"
      BY <2>1 DEF ServerState
    <2>3. /\ server' \in ServerState /\ server'.late = FALSE
          /\ server'.inFlightCount = server.inFlightCount + 1
          /\ server'.run = server.run /\ server'.twice = server.twice
      <3> DEFINE l == server.late \/ \E s \in Signals : server.run[s] # "none"
                 n == server.inFlightCount + 1
      <3>1. server' = [server EXCEPT !.inFlightCount = n, !.late = l]
        BY <1>1 DEF ShutdownMiddleware
      <3>2. l = FALSE /\ n \in Nat
        BY <2>2 DEF ServerState
      <3> HIDE DEF l, n
      <3>3. server' = [server EXCEPT !.inFlightCount = n, !.late = FALSE]
        BY <3>1, <3>2
      <3>4. QED
        BY <3>2, <3>3 DEF ServerState, n
    <2>4. InFlight' = InFlight \cup {c} /\ c \notin InFlight
      BY <2>1 DEF InFlight
    <2>5. Cardinality(InFlight') = Cardinality(InFlight) + 1
      BY <2>4, InFlightIsFinite, FS_AddElement
    <2>6. QED
      BY <2>1, <2>2, <2>3, <2>5, InFlightIsFinite DEF Cleaning, ServerState
  <1>2. ASSUME NEW c \in Calls, At(c, "handled"), server' = releaseRequest(server),
               CallShape', call'[c].at # "handled",
               \A d \in Calls \ {c} : call'[d] = call[d]
        PROVE  ShutdownInv'
    <2>1. InFlight' = InFlight \ {c} /\ c \in InFlight
      BY <1>2 DEF InFlight
    <2>2. Cardinality(InFlight') = Cardinality(InFlight) - 1 /\ Cardinality(InFlight) \in Nat
      BY <2>1, InFlightIsFinite, FS_RemoveElement
    <2>3. Cardinality(InFlight') \in Nat
      BY <1>2, <2>1, InFlightIsFinite, FS_RemoveElement, FS_CardinalityType
    <2>4. /\ server' \in ServerState
          /\ server'.inFlightCount = IF server.inFlightCount > 0 THEN server.inFlightCount - 1
                                     ELSE 0
          /\ server'.isShuttingDown = server.isShuttingDown
          /\ server'.timedOut = server.timedOut
          /\ server'.twice = server.twice /\ server'.late = server.late
          /\ server'.run = server.run \/ (server'.inFlightCount = 0 /\ server.isShuttingDown)
      BY <1>2, Release
    <2>5. server'.inFlightCount <= Cardinality(InFlight')
      BY <2>2, <2>3, <2>4 DEF ServerState
    <2>6. ~server'.twice => server'.inFlightCount = Cardinality(InFlight')
      BY <2>2, <2>3, <2>4 DEF ServerState
    <2>7. Cleaning' /\ ~server'.twice /\ ~server'.timedOut => InFlight' = {}
      <3>1. CASE server'.run = server.run
        BY <2>1, <2>4, <3>1 DEF Cleaning
      <3>2. CASE server'.inFlightCount = 0
        <4>1. ASSUME ~server'.twice PROVE InFlight' = {}
          <5>1. Cardinality(InFlight') = 0 /\ IsFiniteSet(InFlight')
            BY <2>1, <2>6, <3>2, <4>1, InFlightIsFinite, FS_RemoveElement
          <5>2. QED
            BY <5>1, FS_EmptySet
        <4>2. QED
          BY <4>1
      <3>3. QED
        BY <2>4, <3>1, <3>2
    <2>8. QED
      BY <1>2, <2>4, <2>5, <2>6, <2>7
  <1>3. ASSUME NEW c \in Calls, ResponseFinishes(c) PROVE ShutdownInv'
    BY <1>2, <1>3, MovesEffect DEF ResponseFinishes
  <1>4. ASSUME NEW c \in Calls, ResponseCloses(c) PROVE ShutdownInv'
    <2>1. CASE At(c, "handled")
      <3>1. server' = releaseRequest(server)
        BY <1>4, <2>1, Release DEF ResponseCloses, ServerState
      <3>2. QED
        BY <1>2, <1>4, <2>1, <3>1, EndsEffect DEF ResponseCloses
    <2>2. CASE At(c, "finished")
      <3>1. CallShape' /\ InFlight' = InFlight
        BY <1>4, <2>2, EndsEffect DEF ResponseCloses, InFlight
      <3>2. server' = [releaseRequest(server) EXCEPT !.twice = TRUE]
        BY <1>4, <2>2 DEF ResponseCloses
      <3>3. /\ server' \in ServerState /\ server'.twice = TRUE
            /\ server'.inFlightCount <= server.inFlightCount
            /\ server'.isShuttingDown = server.isShuttingDown
            /\ server'.late = server.late
            /\ server'.run = server.run \/ server.isShuttingDown
        <4> DEFINE r == releaseRequest(server)
        <4>1. /\ r \in ServerState /\ r.inFlightCount <= server.inFlightCount
              /\ r.isShuttingDown = server.isShuttingDown /\ r.late = server.late
              /\ r.run = server.run \/ server.isShuttingDown
          BY Release DEF ServerState
        <4> HIDE DEF r
        <4>2. QED
          BY <3>2, <4>1 DEF ServerState, r
      <3>4. QED
        BY <3>1, <3>3, InFlightIsFinite DEF ServerState
    <2>3. QED
      BY <1>4, <2>1, <2>2 DEF ResponseCloses
  <1>5. ASSUME NEW s \in Signals, shutdown(s) PROVE ShutdownInv'
    <2>1. CallShape' /\ InFlight' = InFlight
      BY <1>5 DEF shutdown, CallShape, InFlight
    <2>2. /\ server' \in ServerState /\ server'.isShuttingDown = TRUE
          /\ server'.inFlightCount = server.inFlightCount
          /\ server'.timedOut = server.timedOut
          /\ server'.twice = server.twice /\ server'.late = server.late
          /\ \A r \in Signals : server'.run[r] = "cleaning" =>
               server.run[r] = "cleaning" \/ server.inFlightCount = 0
      <3>1. CASE server.inFlightCount > 0
        <4>1. server' = [server EXCEPT !.isShuttingDown = TRUE, !.drainResolve = s,
                                       !.run = [server.run EXCEPT ![s] = "draining"]]
          BY <1>5, <3>1 DEF shutdown
        <4>2. QED
          BY <3>1, <4>1 DEF ServerState
      <3>2. CASE server.inFlightCount = 0
        <4>1. server' = [server EXCEPT !.isShuttingDown = TRUE,
                                       !.run = [server.run EXCEPT ![s] = "cleaning"]]
          BY <1>5, <3>2 DEF shutdown
        <4>2. QED
          BY <3>2, <4>1 DEF ServerState
      <3>3. server.inFlightCount > 0 \/ server.inFlightCount = 0
        BY DEF ServerState
      <3>4. QED
        BY <3>1, <3>2, <3>3
    <2>3. Cleaning' => Cleaning \/ server.inFlightCount = 0
      BY <2>2 DEF Cleaning
    <2>4. ~server.twice /\ server.inFlightCount = 0 => InFlight = {}
      BY InFlightIsFinite, FS_EmptySet
    <2>5. QED
      BY <2>1, <2>2, <2>3, <2>4
  <1>6. ASSUME NEW s \in Signals, DrainTimeout(s) PROVE ShutdownInv'
    <2>1. CallShape' /\ InFlight' = InFlight
      BY <1>6 DEF DrainTimeout, CallShape, InFlight
    <2>2. /\ server' \in ServerState /\ server'.isShuttingDown = server.isShuttingDown
          /\ server'.inFlightCount = server.inFlightCount
          /\ server'.timedOut = TRUE
          /\ server'.twice = server.twice /\ server'.late = server.late
          /\ \A r \in Signals : server'.run[r] # "none" => server.run[r] # "none"
      BY <1>6 DEF DrainTimeout, ServerState
    <2>3. QED
      BY <2>1, <2>2
  <1>7. ASSUME NEW s \in Signals, CleanupEnds(s) PROVE ShutdownInv'
    BY <1>7 DEF CleanupEnds, CallShape, InFlight, Cleaning, ServerState
  <1>8. QED
    BY <1>1, <1>3, <1>4, <1>5, <1>6, <1>7 DEF ShutdownNext

----------------------------------------------------------------------------
(* bookings *)

Booking ==
  [next : 0 .. MaxBookings, time : [BookingIds -> SUBSET UNION Times],
   status : [BookingIds -> {"pending", "confirmed", "rejected", "cancelled"}],
   before : [BookingIds -> SUBSET BookingIds]]

\* A booking not yet made is pending and conflicts with nothing; an answer was given
\* to a booking that was pending, a cancellation to one that was still open; and a
\* confirmed booking overlaps none that was confirmed before it was made.
BookingsInv ==
  /\ CallShape /\ raced \in BOOLEAN
  /\ bookings \in Booking
  /\ \A b \in BookingIds : b >= bookings.next => bookings.status[b] = "pending"
  /\ \A b \in BookingIds : bookings.before[b] \subseteq Made
  /\ \A c \in Calls : call[c].at \in {"idle", "insert", "save"}
  /\ \A c \in Calls : At(c, "insert") =>
       /\ call[c].arg \in Times
       /\ call[c].seen = {}
  /\ \A c \in Calls : At(c, "save") =>
       /\ call[c].id \in Made /\ call[c].id \in BookingIds
       /\ call[c].arg \in {"confirmed", "rejected", "cancelled"}
       /\ call[c].seen \in {"pending", "confirmed"}
       /\ call[c].arg = "confirmed" => call[c].seen = "pending"
  /\ ~raced => \A a, b \in BookingIds :
       a \in Made /\ b \in Made /\ a \in bookings.before[b]
         => ~Overlap(bookings.time[a], bookings.time[b])

LEMMA BookingsInitInv == RequestsInit /\ BookingsInit => BookingsInv
  <1> SUFFICES ASSUME RequestsInit, BookingsInit PROVE BookingsInv
    OBVIOUS
  <1>1. bookings \in Booking
    BY BookingsAssumption DEF BookingsInit, Booking
  <1>2. raced = FALSE /\ CallShape /\ \A c \in Calls : call[c].at = "idle"
    BY InitCalls DEF RequestsInit, At
  <1>3. /\ \A b \in BookingIds : bookings.status[b] = "pending"
        /\ \A b \in BookingIds : bookings.before[b] = {}
    BY DEF BookingsInit
  <1>4. QED
    BY <1>1, <1>2, <1>3 DEF BookingsInv, At

LEMMA BookingsStep == BookingsInv /\ BookingsNext => BookingsInv'
  <1> SUFFICES ASSUME BookingsInv, BookingsNext PROVE BookingsInv'
    OBVIOUS
  <1> USE BookingsAssumption DEF At, BookingsInv, Made
  <1>1. ASSUME NEW c \in Calls, NEW t \in Times, createBooking(c, t) PROVE BookingsInv'
    BY <1>1, ReadsEffect DEF createBooking
  <1>2. ASSUME NEW c \in Calls, NEW b \in BookingIds, NEW answer \in {"confirmed", "rejected"},
               respondToBooking(c, b, answer)
        PROVE  BookingsInv'
    BY <1>2, ReadsEffect DEF respondToBooking
  <1>3. ASSUME NEW c \in Calls, NEW b \in BookingIds, cancelBooking(c, b) PROVE BookingsInv'
    <2>1. bookings.status[b] \in {"pending", "confirmed"}
      BY <1>3 DEF cancelBooking, Booking
    <2>2. QED
      BY <1>3, <2>1, ReadsEffect DEF cancelBooking
  <1>4. ASSUME NEW c \in Calls, createBooking_insert(c) PROVE BookingsInv'
    <2> DEFINE b == bookings.next
               t == call[c].arg
               time == [bookings.time EXCEPT ![b] = t]
               before == [bookings.before EXCEPT ![b] = Confirmed]
    <2>1. /\ call[c].at = "insert" /\ b \in BookingIds /\ b < MaxBookings
          /\ bookings' = [bookings EXCEPT !.next = b + 1, !.time = time, !.before = before]
          /\ Trusts(c, Conflicts(t)) /\ Ends(c)
      BY <1>4 DEF createBooking_insert, BookingIds, Booking
    <2>2. time \in [BookingIds -> SUBSET UNION Times] /\ before \in [BookingIds -> SUBSET BookingIds]
      BY <2>1 DEF Booking, Confirmed, BookingIds
    <2>3. CallShape' /\ call'[c].at = "idle" /\ \A d \in Calls \ {c} : call'[d] = call[d]
      BY <2>1, EndsEffect
    <2>4. raced' \in BOOLEAN /\ (~raced' => ~raced /\ Conflicts(t) = {})
      BY <2>1 DEF Trusts
    <2> HIDE DEF time, before
    <2>8. b + 1 \in 0 .. MaxBookings
      BY <2>1 DEF Booking
    <2>5. /\ bookings' \in Booking /\ bookings'.next = b + 1
          /\ bookings'.status = bookings.status
          /\ bookings'.time = time /\ bookings'.before = before
      BY <2>1, <2>2, <2>8 DEF Booking
    <2>9. ASSUME NEW y \in BookingIds PROVE bookings'.before[y] \subseteq Made'
      <3>1. bookings'.before[y] = IF y = b THEN Confirmed ELSE bookings.before[y]
        BY <2>1, <2>5 DEF before, Booking
      <3>2. Confirmed \subseteq Made /\ Made \subseteq Made'
        BY <2>5 DEF Confirmed, Booking
      <3>3. QED
        BY <3>1, <3>2
    <2>6. ASSUME ~raced', NEW x \in BookingIds, NEW y \in BookingIds, x \in Made', y \in Made',
                 x \in bookings'.before[y]
          PROVE  ~Overlap(bookings'.time[x], bookings'.time[y])
      <3>1. CASE y = b
        <4>1. x \in Confirmed /\ x # b
          <5>1. before[b] = Confirmed
            BY <2>1 DEF before, Booking
          <5>2. QED
            BY <2>1, <2>5, <2>6, <3>1, <5>1 DEF Confirmed
        <4>2. bookings'.time[x] = bookings.time[x] /\ bookings'.time[y] = t
          BY <2>1, <2>5, <3>1, <4>1 DEF time, Booking
        <4>3. QED
          BY <2>4, <2>6, <4>1, <4>2 DEF Conflicts
      <3>2. CASE y # b
        <4>1. y \in Made /\ x \in bookings.before[y]
          BY <2>1, <2>5, <2>6, <3>2 DEF before, Booking, BookingIds
        <4>2. CASE x # b
          BY <2>1, <2>4, <2>5, <2>6, <3>2, <4>1, <4>2 DEF time, Booking, BookingIds
        <4>3. x # b
          BY <4>1
        <4>4. QED
          BY <4>2, <4>3
      <3>3. QED
        BY <3>1, <3>2
    <2>7. \A y \in BookingIds : y >= bookings'.next => bookings'.status[y] = "pending"
      BY <2>1, <2>5 DEF Booking, BookingIds
    <2>10. \A d \in Calls : call[d].id \in Made => call[d].id \in Made'
      BY <2>5 DEF Booking
    <2> HIDE DEF Made
    <2>11. QED
      BY <2>1, <2>3, <2>4, <2>5, <2>6, <2>7, <2>9, <2>10
  <1>5. ASSUME NEW c \in Calls, SaveBooking(c) PROVE BookingsInv'
    <2>1. /\ CallShape' /\ raced' \in BOOLEAN /\ (~raced' => ~raced) /\ call'[c].at = "idle"
          /\ \A d \in Calls \ {c} : call'[d] = call[d]
      BY <1>5, EndsEffect DEF SaveBooking, Trusts
    <2>2. /\ bookings' \in Booking /\ bookings'.next = bookings.next
          /\ bookings'.time = bookings.time /\ bookings'.before = bookings.before
          /\ \A b \in BookingIds : b # call[c].id => bookings'.status[b] = bookings.status[b]
      BY <1>5 DEF SaveBooking, Booking
    <2>3. call[c].at = "save" /\ call[c].id \in Made /\ call[c].id \in BookingIds
      BY <1>5 DEF SaveBooking
    <2>4. Made' = Made
      BY <2>2
    <2>5. ASSUME NEW b \in BookingIds, b >= bookings'.next PROVE bookings'.status[b] = "pending"
      <3>1. b # call[c].id
        BY <2>2, <2>3, <2>5 DEF Booking, BookingIds
      <3>2. QED
        BY <2>2, <2>5, <3>1
    <2>6. \A b \in BookingIds : bookings'.before[b] \subseteq Made'
      BY <2>2, <2>4
    <2>7. ~raced' => \A a, b \in BookingIds :
            a \in Made' /\ b \in Made' /\ a \in bookings'.before[b]
              => ~Overlap(bookings'.time[a], bookings'.time[b])
      BY <2>1, <2>2, <2>4
    <2> HIDE DEF Made
    <2>8. QED
      BY <2>1, <2>2, <2>4, <2>5, <2>6, <2>7
  <1>6. ASSUME NEW c \in Calls, Fails(c), UNCHANGED bookings PROVE BookingsInv'
    BY <1>6, EndsEffect DEF Fails
  <1>7. QED
    BY <1>1, <1>2, <1>3, <1>4, <1>5, <1>6 DEF BookingsNext

----------------------------------------------------------------------------
(* proposals *)

Sides == {"for", "against"}

\* Counts never exceed the votes answered; without a race they are these votes, and
\* the outcome is theirs.
RowInv(r, exact) ==
  /\ r \in Row
  /\ r.for <= r.cast.for /\ r.against <= r.cast.against
  /\ exact => /\ r.for = r.cast.for /\ r.against = r.cast.against
              /\ r.status \in {"executed", "rejected"} => r.for + r.against >= r.quorum
              /\ r.status = "executed" => r.for > r.against
              /\ r.status = "rejected" => ~(r.for > r.against)

\* The copy of a call is a past of its row, open then, and an outcome it carries is
\* that of its copy.
CopyInv(k, r) ==
  /\ r \in Row
  /\ k.seen.for \in Nat /\ k.seen.against \in Nat
  /\ k.seen.for <= r.cast.for /\ k.seen.against <= r.cast.against
  /\ k.at = "count" => k.arg \in Sides /\ k.seen.status = "active"
  /\ k.at = "set_status" =>
       /\ k.arg \in {"active", "cancelled", "executed", "rejected"}
       /\ k.seen.status \in {"draft", "active"}
       /\ k.arg \in {"executed", "rejected"} => k.seen.for + k.seen.against >= r.quorum
       /\ k.arg = "executed" => k.seen.for > k.seen.against
       /\ k.arg = "rejected" => ~(k.seen.for > k.seen.against)

ProposalsInv ==
  /\ CallShape /\ raced \in BOOLEAN
  /\ DOMAIN drafts = DraftIds
  /\ \A p \in DraftIds : drafts[p] = None \/ RowInv(drafts[p], ~raced)
  /\ \A c \in Calls : call[c].at \in {"idle", "set_status", "count", "delete"}
  /\ \A c \in Calls : ~At(c, "idle") =>
       call[c].id \in DraftIds /\ CopyInv(call[c], drafts[call[c].id])

LEMMA ProposalsInitInv == RequestsInit /\ ProposalsInit => ProposalsInv
  BY InitCalls DEF RequestsInit, ProposalsInit, ProposalsInv, At

\* Rows keep their quorum and never lose a vote that was answered.
Follows(new, old) ==
  /\ new \in Row
  /\ old \in Row => /\ new.quorum = old.quorum
                    /\ old.cast.for <= new.cast.for /\ old.cast.against <= new.cast.against

LEMMA CopiesFollow ==
    ASSUME NEW k, NEW old, NEW new, CopyInv(k, old), Follows(new, old)
    PROVE  CopyInv(k, new)
  <1>1. /\ old.cast.for \in Nat /\ new.cast.for \in Nat
        /\ old.cast.against \in Nat /\ new.cast.against \in Nat
    BY DEF CopyInv, Follows, Row
  <1>2. QED
    BY <1>1 DEF CopyInv, Follows

\* A step that replaces one row by one that follows it, and moves one call at most.
LEMMA DraftUpdate ==
    ASSUME ProposalsInv, NEW p \in DraftIds, NEW new, RowInv(new, ~raced'),
           Follows(new, drafts[p]), drafts' = [drafts EXCEPT ![p] = new],
           raced' \in BOOLEAN, raced => raced', CallShape',
           \A c \in Calls : call'[c] = call[c] \/ call'[c].at = "idle"
    PROVE  ProposalsInv'
  <1> USE DEF ProposalsInv, At
  <1>1. ASSUME NEW q \in DraftIds PROVE drafts'[q] = None \/ RowInv(drafts'[q], ~raced')
    BY DEF RowInv
  <1>2. ASSUME NEW c \in Calls, call'[c].at # "idle" PROVE CopyInv(call'[c], drafts'[call'[c].id])
    <2>1. call'[c] = call[c] /\ CopyInv(call[c], drafts[call[c].id])
      BY <1>2
    <2>2. CASE call[c].id = p
      BY <2>1, <2>2, CopiesFollow
    <2>3. CASE call[c].id # p
      BY <1>2, <2>1, <2>3
    <2>4. QED
      BY <2>2, <2>3
  <1>3. ASSUME NEW c \in Calls, call'[c].at # "idle" PROVE call'[c].id \in DraftIds
    BY <1>3
  <1>4. \A c \in Calls : call'[c].at \in {"idle", "set_status", "count", "delete"}
    OBVIOUS
  <1>5. QED
    BY <1>1, <1>2, <1>3, <1>4

\* A step that only starts a call, on the row it reads.
LEMMA DraftRead ==
    ASSUME ProposalsInv, NEW c \in Calls, NEW p \in Kept, NEW statuses, NEW a,
           NEW step \in {"set_status", "count", "delete"},
           FindById(c, p, statuses, step, a),
           step = "count" => a \in Sides /\ statuses = {"active"},
           step = "set_status" =>
             /\ a \in {"active", "cancelled", "executed", "rejected"}
             /\ statuses \subseteq {"draft", "active"}
             /\ a \in {"executed", "rejected"} =>
                  drafts[p].for + drafts[p].against >= drafts[p].quorum
             /\ a = "executed" => drafts[p].for > drafts[p].against
             /\ a = "rejected" => ~(drafts[p].for > drafts[p].against)
    PROVE  ProposalsInv'
  <1>1. p \in DraftIds /\ RowInv(drafts[p], ~raced)
    BY DEF Kept, ProposalsInv
  <1>2. /\ CallShape' /\ call'[c].at = step /\ call'[c].id = p
        /\ call'[c].seen = Columns(p) /\ call'[c].arg = a
        /\ raced' = raced /\ drafts' = drafts
        /\ \A d \in Calls \ {c} : call'[d] = call[d]
    BY ReadsEffect DEF FindById, ProposalsInv
  <1>3. CopyInv(call'[c], drafts[p])
    BY <1>1, <1>2 DEF FindById, CopyInv, RowInv, Row, Columns
  <1>4. QED
    BY <1>1, <1>2, <1>3 DEF ProposalsInv, At

LEMMA ProposalsStep == ProposalsInv /\ ProposalsNext => ProposalsInv'
  <1> SUFFICES ASSUME ProposalsInv, ProposalsNext PROVE ProposalsInv'
    OBVIOUS
  <1> USE ProposalsAssumption DEF At, reqVars
  <1>1. ASSUME NEW c \in Calls, NEW p \in DraftIds, NEW q \in Quorums, create_proposal(c, p, q)
        PROVE  ProposalsInv'
    <2> DEFINE new == [status |-> "draft", for |-> 0, against |-> 0, quorum |-> q,
                       ended |-> FALSE, cast |-> [for |-> 0, against |-> 0]]
    <2>1. drafts' = [drafts EXCEPT ![p] = new] /\ drafts[p] = None /\ UNCHANGED reqVars
      BY <1>1 DEF create_proposal
    <2>2. RowInv(new, ~raced)
      BY DEF RowInv, Row, AnyStatus
    <2> HIDE DEF new
    <2>3. Follows(new, drafts[p])
      BY <2>1, <2>2 DEF RowInv, Follows
    <2>4. QED
      BY <2>1, <2>2, <2>3, DraftUpdate DEF ProposalsInv, CallShape
  <1>2. ASSUME NEW c \in Calls, NEW p \in DraftIds, NEW side \in Sides, recordVote(c, p, side)
        PROVE  ProposalsInv'
    BY <1>2, DraftRead DEF recordVote
  <1>3. ASSUME NEW c \in Calls, NEW p \in DraftIds, activate(c, p) PROVE ProposalsInv'
    BY <1>3, DraftRead DEF activate, FindById
  <1>4. ASSUME NEW c \in Calls, NEW p \in DraftIds, cancel(c, p) PROVE ProposalsInv'
    BY <1>4, DraftRead DEF cancel, FindById
  <1>5. ASSUME NEW c \in Calls, NEW p \in DraftIds, execute(c, p) PROVE ProposalsInv'
    <2>1. CASE drafts[p].for > drafts[p].against
      BY <1>5, <2>1, DraftRead DEF execute
    <2>2. CASE ~(drafts[p].for > drafts[p].against)
      BY <1>5, <2>2, DraftRead DEF execute
    <2>3. QED
      BY <2>1, <2>2
  <1>6. ASSUME NEW c \in Calls, NEW p \in DraftIds, remove(c, p) PROVE ProposalsInv'
    BY <1>6, DraftRead DEF remove, FindById
  <1>7. ASSUME NEW c \in Calls, SetStatus(c) PROVE ProposalsInv'
    <2> DEFINE p == call[c].id
               new == [drafts[p] EXCEPT !.status = call[c].arg]
    <2>1. /\ call[c].at = "set_status" /\ p \in DraftIds /\ CopyInv(call[c], drafts[p])
          /\ CallShape' /\ call'[c].at = "idle" /\ \A d \in Calls \ {c} : call'[d] = call[d]
      BY <1>7, EndsEffect DEF SetStatus, ProposalsInv
    <2>2. CASE p \notin Kept
      BY <1>7, <2>1, <2>2 DEF SetStatus, ProposalsInv
    <2>3. CASE p \in Kept
      <3>1. drafts' = [drafts EXCEPT ![p] = new] /\ Trusts(c, Columns(p)) /\ RowInv(drafts[p], ~raced)
        BY <1>7, <2>3 DEF SetStatus, ProposalsInv, Kept
      <3>2. /\ raced' \in BOOLEAN /\ (raced => raced')
            /\ ~raced' => /\ call[c].seen.for = drafts[p].for
                          /\ call[c].seen.against = drafts[p].against
        <4>1. raced' \in BOOLEAN /\ (raced => raced') /\ (~raced' => call[c].seen = Columns(p))
          BY <3>1 DEF Trusts, ProposalsInv
        <4>2. QED
          BY <4>1 DEF Columns
      <3>3. RowInv(new, ~raced') /\ Follows(new, drafts[p])
        BY <2>1, <3>1, <3>2 DEF RowInv, CopyInv, Follows, Row, AnyStatus
      <3> HIDE DEF new
      <3>4. QED
        BY <2>1, <3>1, <3>2, <3>3, DraftUpdate
    <2>4. QED
      BY <2>2, <2>3
  <1>8. ASSUME NEW c \in Calls, recordVote_count(c) PROVE ProposalsInv'
    <2> DEFINE p == call[c].id
    <2>1. /\ call[c].at = "count" /\ p \in DraftIds /\ CopyInv(call[c], drafts[p])
          /\ CallShape' /\ call'[c].at = "idle" /\ \A d \in Calls \ {c} : call'[d] = call[d]
      BY <1>8, EndsEffect DEF recordVote_count, ProposalsInv
    <2>2. CASE p \notin Kept
      BY <1>8, <2>1, <2>2 DEF recordVote_count, ProposalsInv
    <2>3. CASE p \in Kept
      <3>1. Trusts(c, Columns(p)) /\ RowInv(drafts[p], ~raced)
        BY <1>8, <2>3 DEF recordVote_count, ProposalsInv, Kept
      <3>2. /\ raced' \in BOOLEAN /\ (raced => raced')
            /\ ~raced' => /\ call[c].seen.for = drafts[p].for
                          /\ call[c].seen.against = drafts[p].against
                          /\ drafts[p].status = "active"
        <4>1. raced' \in BOOLEAN /\ (raced => raced') /\ (~raced' => call[c].seen = Columns(p))
          BY <3>1 DEF Trusts, ProposalsInv
        <4>2. call[c].seen.status = "active"
          BY <2>1 DEF CopyInv
        <4>3. QED
          BY <4>1, <4>2 DEF Columns
      <3>3. CASE call[c].arg = "for"
        <4> DEFINE n == call[c].seen.for + 1
                   cast == [drafts[p].cast EXCEPT !.for = @ + 1]
                   new == [drafts[p] EXCEPT !.for = n, !.cast = cast]
        <4>1. drafts' = [drafts EXCEPT ![p] = new] /\ drafts[p].cast.for < MaxCast
          BY <1>8, <2>3, <3>3 DEF recordVote_count
        <4>2. /\ n \in 0 .. MaxCast /\ cast \in [for : 0 .. MaxCast, against : 0 .. MaxCast]
              /\ n <= cast.for /\ cast.for = drafts[p].cast.for + 1
              /\ ~raced' => n = cast.for /\ drafts[p].against = cast.against
              /\ cast.against = drafts[p].cast.against
          BY <2>1, <3>1, <3>2, <4>1 DEF RowInv, CopyInv, Row
        <4> HIDE DEF n, cast
        <4>3. RowInv(new, ~raced') /\ Follows(new, drafts[p])
          <5>1. drafts[p] \in Row /\ new \in Row
            BY <3>1, <4>2 DEF RowInv, Row
          <5>2. /\ new.for = n /\ new.against = drafts[p].against /\ new.cast = cast
                /\ new.status = drafts[p].status /\ new.quorum = drafts[p].quorum
            BY <5>1 DEF Row
          <5> HIDE DEF new
          <5>3. drafts[p].cast.for \in Nat /\ drafts[p].cast.against \in Nat
            BY <5>1 DEF Row
          <5>4. QED
            BY <3>1, <3>2, <4>2, <5>1, <5>2, <5>3 DEF RowInv, Follows
        <4> HIDE DEF new
        <4>4. QED
          BY <2>1, <3>2, <4>1, <4>3, DraftUpdate
      <3>4. CASE call[c].arg = "against"
        <4> DEFINE n == call[c].seen.against + 1
                   cast == [drafts[p].cast EXCEPT !.against = @ + 1]
                   new == [drafts[p] EXCEPT !.against = n, !.cast = cast]
        <4>1. drafts' = [drafts EXCEPT ![p] = new] /\ drafts[p].cast.against < MaxCast
          BY <1>8, <2>3, <3>4 DEF recordVote_count
        <4>2. /\ n \in 0 .. MaxCast /\ cast \in [for : 0 .. MaxCast, against : 0 .. MaxCast]
              /\ n <= cast.against /\ cast.against = drafts[p].cast.against + 1
              /\ ~raced' => n = cast.against /\ drafts[p].for = cast.for
              /\ cast.for = drafts[p].cast.for
          BY <2>1, <3>1, <3>2, <4>1 DEF RowInv, CopyInv, Row
        <4> HIDE DEF n, cast
        <4>3. RowInv(new, ~raced') /\ Follows(new, drafts[p])
          <5>1. drafts[p] \in Row /\ new \in Row
            BY <3>1, <4>2 DEF RowInv, Row
          <5>2. /\ new.against = n /\ new.for = drafts[p].for /\ new.cast = cast
                /\ new.status = drafts[p].status /\ new.quorum = drafts[p].quorum
            BY <5>1 DEF Row
          <5> HIDE DEF new
          <5>3. drafts[p].cast.for \in Nat /\ drafts[p].cast.against \in Nat
            BY <5>1 DEF Row
          <5>4. QED
            BY <3>1, <3>2, <4>2, <5>1, <5>2, <5>3 DEF RowInv, Follows
        <4> HIDE DEF new
        <4>4. QED
          BY <2>1, <3>2, <4>1, <4>3, DraftUpdate
      <3>5. QED
        BY <2>1, <3>3, <3>4 DEF CopyInv, Sides
    <2>4. QED
      BY <2>2, <2>3
  <1>9. ASSUME NEW c \in Calls, remove_delete(c) PROVE ProposalsInv'
    <2> DEFINE p == call[c].id
               new == [drafts[p] EXCEPT !.status = "removed"]
    <2>1. /\ p \in DraftIds /\ CopyInv(call[c], drafts[p]) /\ raced' = raced
          /\ CallShape' /\ call'[c].at = "idle" /\ \A d \in Calls \ {c} : call'[d] = call[d]
      BY <1>9, EndsEffect DEF remove_delete, ProposalsInv
    <2>2. drafts' = [drafts EXCEPT ![p] = new]
      BY <1>9 DEF remove_delete
    <2>3. RowInv(drafts[p], ~raced)
      BY <2>1 DEF ProposalsInv, CopyInv
    <2>4. RowInv(new, ~raced) /\ Follows(new, drafts[p])
      BY <2>3 DEF RowInv, Follows, Row, AnyStatus
    <2> HIDE DEF new
    <2>5. QED
      BY <2>1, <2>2, <2>4, DraftUpdate DEF ProposalsInv
  <1>10. ASSUME NEW c \in Calls, Fails(c), UNCHANGED drafts PROVE ProposalsInv'
    BY <1>10, EndsEffect DEF Fails, ProposalsInv
  <1>11. ASSUME NEW p \in DraftIds, VotingEnds(p) PROVE ProposalsInv'
    <2> DEFINE new == [drafts[p] EXCEPT !.ended = TRUE]
    <2>1. /\ drafts' = [drafts EXCEPT ![p] = new] /\ UNCHANGED reqVars
          /\ RowInv(drafts[p], ~raced)
      BY <1>11 DEF VotingEnds, Kept, ProposalsInv
    <2>2. new \in Row
      BY <2>1 DEF RowInv, Row
    <2>3. RowInv(new, ~raced) /\ Follows(new, drafts[p])
      BY <2>1, <2>2 DEF RowInv, Follows, Row
    <2> HIDE DEF new
    <2>4. QED
      BY <2>1, <2>3, DraftUpdate DEF ProposalsInv, CallShape
  <1>12. QED
    BY <1>1, <1>2, <1>3, <1>4, <1>5, <1>6, <1>7, <1>8, <1>9, <1>10, <1>11
    DEF ProposalsNext, Sides

----------------------------------------------------------------------------
(* moderation items and disputes *)

\* An item not yet made is as new.  A copy that waits to be saved was open when it was
\* read.  Without a race one report waits, and an item remembers its one appeal.
ModerationInv ==
  /\ CallShape /\ raced \in BOOLEAN
  /\ ModerationTypeOK
  /\ \A i \in Items : i \notin Flagged =>
       /\ moderation.item[i].status = "pending" /\ ~moderation.item[i].appealed
       /\ moderation.appeals[i] = 0
  /\ \A c \in Calls : call[c].at \in {"idle", "flag", "save_item", "save_appeal", "save_dispute"}
  /\ \A c \in Calls : At(c, "flag") => call[c].seen = {}
  /\ \A c \in Calls : At(c, "save_item") =>
       /\ call[c].id \in Items /\ call[c].id \in Flagged
       /\ call[c].seen \in [status : {"pending", "appealed"}, appealed : BOOLEAN]
       /\ call[c].arg \in {"approved", "rejected"}
  /\ \A c \in Calls : At(c, "save_appeal") =>
       /\ call[c].id \in Items /\ call[c].id \in Flagged
       /\ call[c].seen.status = "rejected" /\ ~call[c].seen.appealed
  /\ \A c \in Calls : At(c, "save_dispute") =>
       /\ call[c].id \in Complaints /\ call[c].seen = "open"
       /\ call[c].arg \in {"resolved", "closed"}
  /\ ~raced =>
       /\ \A i, j \in PendingItems \ moderation.auto : i = j
       /\ \A i \in Items : moderation.appeals[i] = (IF moderation.item[i].appealed THEN 1 ELSE 0)

LEMMA ModerationInitInv == RequestsInit /\ ModerationInit => ModerationInv
  <1> SUFFICES ASSUME RequestsInit, ModerationInit PROVE ModerationInv
    OBVIOUS
  <1>1. ModerationTypeOK
    BY ModerationAssumption DEF ModerationInit, ModerationTypeOK
  <1>2. raced = FALSE /\ CallShape /\ \A c \in Calls : call[c].at = "idle"
    BY InitCalls DEF RequestsInit, At
  <1>3. /\ Flagged = {}
        /\ \A i \in Items : /\ moderation.item[i].status = "pending" /\ ~moderation.item[i].appealed
                            /\ moderation.appeals[i] = 0
    BY DEF ModerationInit, Flagged
  <1>4. QED
    BY <1>1, <1>2, <1>3 DEF ModerationInv, At, PendingItems

\* A step that only starts a call.
LEMMA ItemRead ==
    ASSUME ModerationInv, NEW c \in Calls, NEW i \in Items, NEW statuses, NEW status,
           NEW step \in {"save_item", "save_appeal"}, Decide(c, i, statuses, step, status),
           step = "save_item" => /\ statuses \subseteq {"pending", "appealed"}
                                /\ status \in {"approved", "rejected"},
           step = "save_appeal" => statuses = {"rejected"} /\ ~moderation.item[i].appealed
    PROVE  ModerationInv'
  <1>1. /\ CallShape' /\ call'[c].at = step /\ call'[c].id = i
        /\ call'[c].seen = moderation.item[i] /\ call'[c].arg = status
        /\ raced' = raced /\ moderation' = moderation
        /\ \A d \in Calls \ {c} : call'[d] = call[d]
    BY ReadsEffect DEF Decide, ModerationInv
  <1>2. /\ i \in Flagged /\ moderation.item[i].status \in statuses
        /\ moderation.item[i] \in [status : {"pending", "approved", "rejected", "appealed"},
                                  appealed : BOOLEAN]
    BY DEF Decide, ModerationInv, ModerationTypeOK
  <1>3. step = "save_item" =>
          moderation.item[i] \in [status : {"pending", "appealed"}, appealed : BOOLEAN]
    BY <1>2
  <1>4. UNCHANGED <<Flagged, PendingItems, ModerationTypeOK>>
    BY <1>1 DEF Flagged, PendingItems, ModerationTypeOK
  <1>5. QED
    BY <1>1, <1>2, <1>3, <1>4 DEF ModerationInv, At

\* A step that replaces the record of one item.
LEMMA ItemUpdate ==
    ASSUME ModerationInv, NEW i \in Items, i \in Flagged,
           NEW new \in [status : {"approved", "rejected", "appealed"}, appealed : BOOLEAN],
           NEW appeals \in [Items -> 0 .. 2],
           moderation' = [moderation EXCEPT !.item = [moderation.item EXCEPT ![i] = new],
                                            !.appeals = appeals],
           \A j \in Items \ {i} : appeals[j] = moderation.appeals[j],
           ~raced' => appeals[i] = (IF new.appealed THEN 1 ELSE 0),
           raced' \in BOOLEAN, raced => raced', CallShape',
           \A c \in Calls : call'[c] = call[c] \/ call'[c].at = "idle"
    PROVE  ModerationInv'
  <1>1. ModerationTypeOK'
    BY DEF ModerationInv, ModerationTypeOK
  <1>2. /\ Flagged' = Flagged /\ moderation'.auto = moderation.auto
        /\ moderation'.appeals = appeals /\ moderation'.item[i] = new
        /\ \A j \in Items \ {i} : moderation'.item[j] = moderation.item[j]
    BY DEF ModerationInv, ModerationTypeOK, Flagged
  <1>3. PendingItems' \subseteq PendingItems
    BY <1>2 DEF PendingItems, ModerationInv, ModerationTypeOK, Items, Flagged
  <1>4. QED
    BY <1>1, <1>2, <1>3 DEF ModerationInv, At

LEMMA ModerationStep == ModerationInv /\ ModerationNext => ModerationInv'
  <1> SUFFICES ASSUME ModerationInv, ModerationNext PROVE ModerationInv'
    OBVIOUS
  <1> USE ModerationAssumption DEF At, reqVars
  <1>1. ASSUME NEW c \in Calls, NEW i \in Items, NEW status \in {"approved", "rejected"},
               reviewItem(c, i, status) \/ resolveAppeal(c, i, status)
        PROVE  ModerationInv'
    BY <1>1, ItemRead DEF reviewItem, resolveAppeal
  <1>2. ASSUME NEW c \in Calls, NEW i \in Items, submitAppeal(c, i) PROVE ModerationInv'
    BY <1>2, ItemRead DEF submitAppeal
  <1>3. ASSUME NEW c \in Calls, NEW d \in Complaints, NEW status \in {"resolved", "closed"},
               resolveDispute(c, d, status)
        PROVE  ModerationInv'
    BY <1>3, ReadsEffect
    DEF resolveDispute, ModerationInv, Flagged, PendingItems, ModerationTypeOK
  <1>4. ASSUME NEW c \in Calls, flagContent(c) PROVE ModerationInv'
    BY <1>4, ReadsEffect DEF flagContent, ModerationInv, Flagged, PendingItems, ModerationTypeOK
  <1>5. ASSUME NEW auto \in {moderation.auto, moderation.auto \cup {moderation.next}},
               moderation.next < MaxItems,
               moderation' = [moderation EXCEPT !.next = @ + 1, !.auto = auto],
               raced' \in BOOLEAN, raced => raced', CallShape',
               \A d \in Calls : call'[d] = call[d] \/ call'[d].at = "idle",
               ~raced' => moderation.next \in auto \/ PendingItems = {}
        PROVE  ModerationInv'
    <2> DEFINE n == moderation.next
    <2>1. /\ n \in Items /\ n \notin Flagged /\ auto \subseteq Items /\ n + 1 \in 0 .. MaxItems
      BY <1>5 DEF ModerationInv, ModerationTypeOK, Items, Flagged
    <2>2. /\ moderation'.next = n + 1 /\ moderation'.auto = auto
          /\ moderation'.item = moderation.item /\ moderation'.appeals = moderation.appeals
          /\ moderation'.complaint = moderation.complaint
          /\ ModerationTypeOK'
      BY <1>5, <2>1 DEF ModerationInv, ModerationTypeOK
    <2>3. Flagged' = Flagged \cup {n}
      BY <2>1, <2>2 DEF Flagged, ModerationInv, ModerationTypeOK, Items
    <2>4. PendingItems' \subseteq PendingItems \cup {n}
      BY <2>2, <2>3 DEF PendingItems
    <2>5. moderation.auto \subseteq auto
      BY <1>5
    <2>6. ~raced' => \A i, j \in PendingItems' \ moderation'.auto : i = j
      BY <1>5, <2>2, <2>4, <2>5 DEF ModerationInv
    <2>7. QED
      BY <1>5, <2>2, <2>3, <2>6 DEF ModerationInv
  <1>6. ASSUME NEW c \in Calls, analyzeContent(c) PROVE ModerationInv'
    <2> DEFINE auto == moderation.auto \cup {moderation.next}
    <2>1. /\ moderation' = [moderation EXCEPT !.next = @ + 1, !.auto = auto]
          /\ moderation.next < MaxItems /\ UNCHANGED reqVars
      BY <1>6 DEF analyzeContent
    <2>2. QED
      BY <1>5, <2>1 DEF ModerationInv, CallShape
  <1>7. ASSUME NEW c \in Calls, flagContent_insert(c) PROVE ModerationInv'
    <2>1. CallShape' /\ call'[c].at = "idle" /\ \A d \in Calls \ {c} : call'[d] = call[d]
      BY <1>7, EndsEffect DEF flagContent_insert, ModerationInv
    <2>2. raced' \in BOOLEAN /\ (raced => raced') /\ (~raced' => PendingItems = {})
      BY <1>7 DEF flagContent_insert, Trusts, ModerationInv
    <2>3. /\ moderation.next < MaxItems
          /\ moderation' = [moderation EXCEPT !.next = @ + 1, !.auto = moderation.auto]
      BY <1>7 DEF flagContent_insert, ModerationInv, ModerationTypeOK
    <2>4. QED
      BY <1>5, <2>1, <2>2, <2>3
  <1>8. ASSUME NEW c \in Calls, SaveItem(c) PROVE ModerationInv'
    <2> DEFINE i == call[c].id
               new == [call[c].seen EXCEPT !.status = call[c].arg]
    <2>1. /\ i \in Items /\ i \in Flagged
          /\ call[c].seen \in [status : {"pending", "appealed"}, appealed : BOOLEAN]
          /\ call[c].arg \in {"approved", "rejected"}
      BY <1>8 DEF SaveItem, ModerationInv
    <2>2. /\ new \in [status : {"approved", "rejected", "appealed"}, appealed : BOOLEAN]
          /\ new.appealed = call[c].seen.appealed
      BY <2>1
    <2>3. /\ CallShape' /\ call'[c].at = "idle" /\ \A d \in Calls \ {c} : call'[d] = call[d]
          /\ raced' \in BOOLEAN /\ (raced => raced')
          /\ ~raced' => call[c].seen = moderation.item[i]
      BY <1>8, EndsEffect DEF SaveItem, Trusts, ModerationInv
    <2>4. moderation' = [moderation EXCEPT !.item = [moderation.item EXCEPT ![i] = new],
                                           !.appeals = moderation.appeals]
      BY <1>8 DEF SaveItem, ModerationInv, ModerationTypeOK
    <2>5. /\ moderation.appeals \in [Items -> 0 .. 2]
          /\ ~raced' => moderation.appeals[i] = (IF new.appealed THEN 1 ELSE 0)
      BY <2>1, <2>2, <2>3 DEF ModerationInv, ModerationTypeOK
    <2> HIDE DEF new
    <2>6. QED
      BY <2>1, <2>2, <2>3, <2>4, <2>5, ItemUpdate, ZenonT(60)
  <1>9. ASSUME NEW c \in Calls, submitAppeal_save(c) PROVE ModerationInv'
    <2>0. PICK i \in Items : i = call[c].id
      BY <1>9 DEF submitAppeal_save, ModerationInv
    <2> DEFINE new == [status |-> "appealed", appealed |-> TRUE]
               appeals == [moderation.appeals EXCEPT ![i] = @ + 1]
    <2>1. /\ i \in Flagged /\ ~call[c].seen.appealed
          /\ moderation.appeals[i] < 2
      BY <1>9, <2>0 DEF submitAppeal_save, ModerationInv
    <2>2. new \in [status : {"approved", "rejected", "appealed"}, appealed : BOOLEAN]
      OBVIOUS
    <2>3. /\ CallShape' /\ call'[c].at = "idle" /\ \A d \in Calls \ {c} : call'[d] = call[d]
          /\ raced' \in BOOLEAN /\ (raced => raced')
          /\ ~raced' => call[c].seen = moderation.item[i]
      BY <1>9, <2>0, EndsEffect DEF submitAppeal_save, Trusts, ModerationInv
    <2>4. moderation' = [moderation EXCEPT !.item = [moderation.item EXCEPT ![i] = new],
                                           !.appeals = appeals]
      BY <1>9, <2>0 DEF submitAppeal_save
    <2>5. /\ appeals \in [Items -> 0 .. 2] /\ appeals[i] = moderation.appeals[i] + 1
          /\ \A j \in Items \ {i} : appeals[j] = moderation.appeals[j]
      BY <2>1 DEF ModerationInv, ModerationTypeOK
    <2>6. ~raced' => moderation.appeals[i] = 0
      BY <2>1, <2>3 DEF ModerationInv
    <2>7. ~raced' => appeals[i] = (IF new.appealed THEN 1 ELSE 0)
      BY <2>1, <2>5, <2>6 DEF ModerationInv, ModerationTypeOK
    <2>8. /\ \A d \in Calls : call'[d] = call[d] \/ call'[d].at = "idle"
          /\ CallShape' /\ raced' \in BOOLEAN /\ (raced => raced') /\ i \in Flagged
      BY <2>1, <2>3
    <2> HIDE DEF new, appeals
    <2>9. ModerationTypeOK'
      BY <2>2, <2>4, <2>5 DEF ModerationInv, ModerationTypeOK
    <2>10. /\ Flagged' = Flagged /\ moderation'.auto = moderation.auto
           /\ moderation'.appeals = appeals /\ moderation'.item[i] = new
           /\ \A j \in Items \ {i} : moderation'.item[j] = moderation.item[j]
      BY <2>2, <2>4 DEF ModerationInv, ModerationTypeOK, Flagged
    <2>11. PendingItems' \subseteq PendingItems
      <3>1. new.status # "pending" /\ Flagged \subseteq Items
        BY <2>2 DEF Flagged, Items, ModerationInv, ModerationTypeOK
      <3>2. QED
        BY <2>10, <3>1 DEF PendingItems
    <2>12. QED
      BY <2>2, <2>5, <2>7, <2>8, <2>9, <2>10, <2>11 DEF ModerationInv
  <1>10. ASSUME NEW c \in Calls, createDispute(c) PROVE ModerationInv'
    <2>1. /\ moderation'.next = moderation.next /\ moderation'.auto = moderation.auto
          /\ moderation'.item = moderation.item /\ moderation'.appeals = moderation.appeals
          /\ ModerationTypeOK' /\ UNCHANGED reqVars
      BY <1>10 DEF createDispute, ModerationInv, ModerationTypeOK
    <2>2. QED
      BY <2>1 DEF ModerationInv, CallShape, Flagged, PendingItems
  <1>11. ASSUME NEW c \in Calls, resolveDispute_save(c) PROVE ModerationInv'
    <2>1. /\ CallShape' /\ call'[c].at = "idle" /\ \A d \in Calls \ {c} : call'[d] = call[d]
          /\ raced' \in BOOLEAN /\ (raced => raced')
      BY <1>11, EndsEffect DEF resolveDispute_save, Trusts, ModerationInv
    <2>2. /\ moderation'.next = moderation.next /\ moderation'.auto = moderation.auto
          /\ moderation'.item = moderation.item /\ moderation'.appeals = moderation.appeals
          /\ ModerationTypeOK'
      BY <1>11 DEF resolveDispute_save, ModerationInv, ModerationTypeOK
    <2>3. QED
      BY <2>1, <2>2 DEF ModerationInv, Flagged, PendingItems
  <1>12. ASSUME NEW c \in Calls, Fails(c), UNCHANGED moderation PROVE ModerationInv'
    BY <1>12, EndsEffect DEF Fails, ModerationInv, Flagged, PendingItems, ModerationTypeOK
  <1>13. QED
    BY <1>1, <1>2, <1>3, <1>4, <1>6, <1>7, <1>8, <1>9, <1>10, <1>11, <1>12 DEF ModerationNext

----------------------------------------------------------------------------
(* e-mails *)

EmailRow == [status : {"pending", "sent", "failed"}, attempts : 0 .. MaxAttempts, waits : BOOLEAN]

EmailState ==
  [next : 0 .. MaxEmails, row : [Emails -> EmailRow],
   delivered : [Emails -> Nat], unsaved : [Emails -> Nat]]

\* A pending e-mail has an attempt left, and only a pending one waits for it.
EmailRowInv(r) ==
  /\ r.status = "pending" => r.attempts < MaxAttempts
  /\ r.status = "failed" => r.attempts = MaxAttempts
  /\ r.status # "pending" => ~r.waits

EmailInv ==
  /\ CallShape /\ raced \in BOOLEAN
  /\ emails \in EmailState
  /\ \A e \in Emails : EmailRowInv(emails.row[e])
  /\ \A e \in Emails : emails.row[e].status = "sent" => emails.delivered[e] > 0
  /\ \A c \in Calls : call[c].at \in {"idle", "send", "save"}
  /\ \A c \in Calls : ~At(c, "idle") =>
       /\ call[c].seen \in [Emails -> EmailRow]
       /\ \A e \in Emails : EmailRowInv(call[c].seen[e])
       /\ call[c].arg \subseteq Emails
       /\ \A e \in call[c].arg :
            ~(At(c, "save") /\ e = call[c].id) => call[c].seen[e].status = "pending"
  /\ \A c \in Calls : At(c, "save") =>
       /\ call[c].id \in Emails
       /\ call[c].seen[call[c].id].status = "sent" => emails.delivered[call[c].id] > 0
  /\ ~raced => \A e \in Emails :
       emails.delivered[e] = emails.unsaved[e] + Cardinality(Sending(e))
                             + (IF emails.row[e].status = "sent" THEN 1 ELSE 0)

LEMMA SendingIsFinite ==
    \A e : IsFiniteSet(Sending(e)) /\ Cardinality(Sending(e)) \in Nat
  <1> SUFFICES ASSUME NEW e PROVE IsFiniteSet(Sending(e)) /\ Cardinality(Sending(e)) \in Nat
    OBVIOUS
  <1>1. IsFiniteSet(Sending(e))
    BY RequestsAssumption, FS_Subset DEF Sending
  <1>2. QED
    BY <1>1, FS_CardinalityType

\* The oldest e-mail of a pass is one of them.
LEMMA OldestIsOne == ASSUME NEW S \in SUBSET Emails, S # {} PROVE Oldest(S) \in S
  <1>1. S \subseteq Nat
    BY DEF Emails
  <1>2. PICK e \in S : \A f \in S : ~(<<f, e>> \in OpToRel(<, Nat))
    BY <1>1, NatLessThanWellFounded, WFMin
  <1>3. ASSUME NEW f \in S PROVE e <= f
    <2>1. e \in Nat /\ f \in Nat
      BY <1>1
    <2>2. ~(f < e)
      BY <1>2, <2>1 DEF OpToRel
    <2>3. QED
      BY <2>1, <2>2
  <1>4. QED
    BY <1>3 DEF Oldest

LEMMA EmailInitInv == RequestsInit /\ EmailInit => EmailInv
  <1> SUFFICES ASSUME RequestsInit, EmailInit PROVE EmailInv
    OBVIOUS
  <1>1. emails \in EmailState
    BY EmailAssumption DEF EmailInit, EmailState, EmailRow
  <1>2. raced = FALSE /\ CallShape /\ \A c \in Calls : call[c].at = "idle"
    BY InitCalls DEF RequestsInit, At
  <1>3. \A e \in Emails : /\ emails.row[e].status = "pending" /\ emails.row[e].attempts = 0
                          /\ emails.delivered[e] = 0 /\ emails.unsaved[e] = 0
    BY DEF EmailInit
  <1>4. \A e \in Emails : Sending(e) = {}
    BY <1>2 DEF Sending, At
  <1>5. Cardinality({}) = 0
    BY FS_EmptySet
  <1>6. ASSUME NEW e \in Emails
        PROVE  emails.delivered[e] = emails.unsaved[e] + Cardinality(Sending(e))
                                     + (IF emails.row[e].status = "sent" THEN 1 ELSE 0)
    <2>1. Cardinality(Sending(e)) = 0
      BY <1>4, <1>5, Zenon
    <2>2. QED
      BY <1>3, <2>1
  <1>7. ASSUME NEW e \in Emails
        PROVE  EmailRowInv(emails.row[e]) /\ emails.row[e].status # "sent"
    BY <1>1, <1>3, EmailAssumption DEF EmailRowInv, EmailState, EmailRow
  <1>8. QED
    BY <1>1, <1>2, <1>6, <1>7 DEF EmailInv, At

LEMMA EmailStep == EmailInv /\ EmailNext => EmailInv'
  <1> SUFFICES ASSUME EmailInv, EmailNext PROVE EmailInv'
    OBVIOUS
  <1> USE EmailAssumption DEF At, reqVars
  <1>1. ASSUME enqueue PROVE EmailInv'
    <2>1. /\ emails' \in EmailState /\ UNCHANGED reqVars
          /\ emails'.row = emails.row /\ emails'.delivered = emails.delivered
          /\ emails'.unsaved = emails.unsaved
      BY <1>1 DEF enqueue, EmailInv, EmailState
    <2>2. UNCHANGED <<CallShape>> /\ \A e : UNCHANGED Sending(e)
      BY <2>1 DEF CallShape, Sending
    <2>3. QED
      BY <2>1, <2>2 DEF EmailInv
  <1>2. ASSUME NEW c \in Calls, processQueue(c) PROVE EmailInv'
    <2> DEFINE due == {e \in Queued : emails.row[e].status = "pending" /\ ~emails.row[e].waits}
    <2>1. Reads(c, "send", None, emails.row, due) /\ emails' = emails
      BY <1>2 DEF processQueue
    <2>2. due \subseteq Emails /\ \A e \in due : emails.row[e].status = "pending"
      BY DEF EmailInv, EmailState, Emails, Queued
    <2> HIDE DEF due
    <2>3. /\ CallShape' /\ raced' = raced /\ call[c].at = "idle" /\ call'[c].at = "send"
          /\ call'[c].seen = emails.row /\ call'[c].arg = due
          /\ \A d \in Calls \ {c} : call'[d] = call[d]
      BY <2>1, ReadsEffect DEF EmailInv
    <2>4. \A e : Sending(e)' = Sending(e)
      BY <2>3 DEF Sending
    <2>5. QED
      BY <2>1, <2>2, <2>3, <2>4 DEF EmailInv, EmailState
  <1>3. ASSUME NEW c \in Calls, NEW ok \in BOOLEAN, sendJob(c, ok) PROVE EmailInv'
    <2>0. PICK e \in Emails : e = Oldest(call[c].arg) /\ e \in call[c].arg
      BY <1>3, OldestIsOne DEF sendJob, EmailInv
    <2> DEFINE n == call[c].seen[e].attempts + 1
               row == IF ok THEN [status |-> "sent", attempts |-> n, waits |-> FALSE]
                      ELSE IF n >= MaxAttempts
                      THEN [status |-> "failed", attempts |-> n, waits |-> FALSE]
                      ELSE [status |-> "pending", attempts |-> n, waits |-> TRUE]
               seen == [call[c].seen EXCEPT ![e] = row]
    <2>1. /\ call[c].at = "send" /\ call[c].arg # {}
          /\ emails' = IF ok THEN [emails EXCEPT !.delivered[e] = @ + 1] ELSE emails
          /\ raced' = (raced \/ emails.row[e] # call[c].seen[e])
          /\ call' = [call EXCEPT ![c] = [@ EXCEPT !.at = "save", !.id = e, !.seen = seen]]
      BY <1>3, <2>0 DEF sendJob
    <2>3. /\ e \in Emails /\ call[c].seen \in [Emails -> EmailRow]
          /\ EmailRowInv(call[c].seen[e]) /\ call[c].seen[e].status = "pending"
          /\ call[c].arg \subseteq Emails
      BY <2>0, <2>1 DEF EmailInv
    <2>4. n \in 1 .. MaxAttempts
      BY <2>3 DEF EmailRowInv, EmailRow
    <2> HIDE DEF n
    <2>5. row \in EmailRow /\ EmailRowInv(row) /\ (row.status = "sent" <=> ok)
      <3>1. CASE ok
        BY <2>4, <3>1 DEF EmailRow, EmailRowInv
      <3>2. CASE ~ok /\ n >= MaxAttempts
        BY <2>4, <3>2 DEF EmailRow, EmailRowInv
      <3>3. CASE ~ok /\ ~(n >= MaxAttempts)
        BY <2>4, <3>3 DEF EmailRow, EmailRowInv
      <3>4. QED
        BY <3>1, <3>2, <3>3
    <2> HIDE DEF row
    <2>6. seen \in [Emails -> EmailRow] /\ seen[e] = row
          /\ \A f \in Emails \ {e} : seen[f] = call[c].seen[f]
      BY <2>3, <2>5
    <2> HIDE DEF seen
    <2>7. /\ CallShape' /\ call'[c].at = "save" /\ call'[c].id = e /\ call'[c].seen = seen
          /\ call'[c].arg = call[c].arg
          /\ \A d \in Calls \ {c} : call'[d] = call[d]
      BY <2>1 DEF EmailInv, CallShape, Fields
    <2>8. /\ emails' \in EmailState /\ emails'.row = emails.row
          /\ emails'.unsaved = emails.unsaved
          /\ emails'.delivered[e] = emails.delivered[e] + (IF ok THEN 1 ELSE 0)
          /\ \A f \in Emails \ {e} : emails'.delivered[f] = emails.delivered[f]
          /\ \A f \in Emails : emails.delivered[f] \in Nat
      BY <2>1, <2>3 DEF EmailInv, EmailState
    <2>9. \A f \in Emails \ {e} : Sending(f)' = Sending(f)
      BY <2>1, <2>7 DEF Sending
    <2>10. /\ ok => Sending(e)' = Sending(e) \cup {c} /\ c \notin Sending(e)
           /\ ~ok => Sending(e)' = Sending(e)
      <3>1. call'[c].id = e /\ (call'[c].seen[e].status = "sent" <=> ok)
        BY <2>5, <2>6, <2>7
      <3>2. \A d \in Calls \ {c} : d \in Sending(e)' <=> d \in Sending(e)
        BY <2>7 DEF Sending
      <3>3. c \notin Sending(e) /\ (c \in Sending(e)' <=> ok)
        BY <2>1, <2>7, <3>1 DEF Sending
      <3>4. Sending(e)' \subseteq Calls /\ Sending(e) \subseteq Calls
        BY DEF Sending
      <3>5. QED
        BY <3>2, <3>3, <3>4
    <2>11. Cardinality(Sending(e)') = Cardinality(Sending(e)) + (IF ok THEN 1 ELSE 0)
      BY <2>10, SendingIsFinite, FS_AddElement
    <2>12. raced' \in BOOLEAN /\ (raced => raced')
      BY <2>1 DEF EmailInv
    <2>13. ASSUME ~raced', NEW f \in Emails
           PROVE  emails'.delivered[f] = emails'.unsaved[f] + Cardinality(Sending(f)')
                                         + (IF emails'.row[f].status = "sent" THEN 1 ELSE 0)
      <3>1. /\ emails.delivered[f] = emails.unsaved[f] + Cardinality(Sending(f))
                                     + (IF emails.row[f].status = "sent" THEN 1 ELSE 0)
            /\ emails.unsaved[f] \in Nat /\ Cardinality(Sending(f)) \in Nat
        BY <2>12, <2>13, SendingIsFinite DEF EmailInv, EmailState
      <3>2. CASE f = e
        BY <2>8, <2>11, <3>1, <3>2
      <3>3. CASE f # e
        BY <2>8, <2>9, <3>1, <3>3
      <3>4. QED
        BY <3>2, <3>3
    <2>14. \A f \in Emails : emails.delivered[f] > 0 => emails'.delivered[f] > 0
      BY <2>8
    <2>15. ok => emails'.delivered[e] > 0
      BY <2>3, <2>8
    <2>16. \A f \in Emails : EmailRowInv(seen[f])
      BY <2>1, <2>5, <2>6 DEF EmailInv
    <2>17. ASSUME NEW d \in Calls, call'[d].at # "idle"
           PROVE  /\ call'[d].seen \in [Emails -> EmailRow]
                  /\ \A f \in Emails : EmailRowInv(call'[d].seen[f])
                  /\ call'[d].arg \subseteq Emails
                  /\ \A f \in call'[d].arg :
                       ~(call'[d].at = "save" /\ f = call'[d].id)
                         => call'[d].seen[f].status = "pending"
                  /\ call'[d].at = "save" =>
                       /\ call'[d].id \in Emails
                       /\ call'[d].seen[call'[d].id].status = "sent"
                            => emails'.delivered[call'[d].id] > 0
      <3>1. CASE d = c
        BY <2>1, <2>3, <2>5, <2>6, <2>7, <2>15, <2>16, <3>1 DEF EmailInv
      <3>2. CASE d # c
        BY <2>7, <2>14, <2>17, <3>2 DEF EmailInv
      <3>3. QED
        BY <3>1, <3>2
    <2>18. QED
      BY <2>7, <2>8, <2>12, <2>13, <2>14, <2>17 DEF EmailInv
  <1>4. ASSUME NEW c \in Calls, sendJob_save(c) PROVE EmailInv'
    <2>0. PICK e \in Emails : e = call[c].id
      BY <1>4 DEF sendJob_save, EmailInv
    <2> DEFINE new == call[c].seen[e]
               row == [emails.row EXCEPT ![e] = new]
               rest == call[c].arg \ {e}
    <2>1. /\ call[c].at = "save" /\ e \in Emails /\ new \in EmailRow /\ EmailRowInv(new)
          /\ new.status = "sent" => emails.delivered[e] > 0
          /\ call[c].seen \in [Emails -> EmailRow] /\ rest \subseteq Emails
          /\ \A f \in rest : call[c].seen[f].status = "pending"
          /\ \A f \in Emails : EmailRowInv(call[c].seen[f])
      BY <1>4, <2>0 DEF sendJob_save, EmailInv
    <2>2. /\ emails' = [emails EXCEPT !.row = row]
          /\ IF rest = {} THEN Ends(c)
             ELSE call' = [call EXCEPT ![c] = [@ EXCEPT !.at = "send", !.id = None, !.arg = rest]]
          /\ raced' = (raced \/ emails.row[e].status # "pending"
                             \/ emails.row[e].attempts + 1 # new.attempts)
      BY <1>4, <2>0 DEF sendJob_save
    <2> HIDE DEF new, rest
    <2>3. /\ row \in [Emails -> EmailRow] /\ row[e] = new
          /\ \A f \in Emails \ {e} : row[f] = emails.row[f]
      BY <2>1 DEF EmailInv, EmailState
    <2> HIDE DEF row
    <2>4. /\ emails' \in EmailState /\ emails'.row = row
          /\ emails'.delivered = emails.delivered /\ emails'.unsaved = emails.unsaved
      BY <2>2, <2>3 DEF EmailInv, EmailState
    <2>5. /\ CallShape' /\ call'[c].at \in {"idle", "send"}
          /\ call'[c].at = "send" => call'[c].arg = rest /\ call'[c].seen = call[c].seen
          /\ \A d \in Calls \ {c} : call'[d] = call[d]
      <3>1. CASE rest = {}
        BY <2>2, <3>1, EndsEffect DEF EmailInv
      <3>2. CASE rest # {}
        <4>1. call' = [call EXCEPT ![c] = [@ EXCEPT !.at = "send", !.id = None, !.arg = rest]]
          BY <2>2, <3>2
        <4>2. QED
          BY <4>1 DEF EmailInv, CallShape, Fields
      <3>3. QED
        BY <3>1, <3>2
    <2>6. \A f \in Emails \ {e} : Sending(f)' = Sending(f)
      <3>1. \A d \in Calls \ {c} : \A f : d \in Sending(f)' <=> d \in Sending(f)
        <4>1. \A d \in Calls \ {c} : call'[d] = call[d]
          BY <2>5
        <4>2. QED
          BY <4>1 DEF Sending
      <3>2. \A f \in Emails \ {e} : c \notin Sending(f)' /\ c \notin Sending(f)
        BY <2>0, <2>5 DEF Sending
      <3>3. \A f : Sending(f)' \subseteq Calls /\ Sending(f) \subseteq Calls
        BY DEF Sending
      <3>4. QED
        BY <3>1, <3>2, <3>3
    <2>7. /\ new.status = "sent" => Sending(e)' = Sending(e) \ {c} /\ c \in Sending(e)
          /\ new.status # "sent" => Sending(e)' = Sending(e)
      <3>1. \A d \in Calls \ {c} : d \in Sending(e)' <=> d \in Sending(e)
        <4>1. \A d \in Calls \ {c} : call'[d] = call[d]
          BY <2>5
        <4>2. QED
          BY <4>1 DEF Sending
      <3>2. c \notin Sending(e)' /\ (c \in Sending(e) <=> new.status = "sent")
        BY <2>0, <2>1, <2>5 DEF Sending, new
      <3>3. Sending(e)' \subseteq Calls /\ Sending(e) \subseteq Calls
        BY DEF Sending
      <3>4. QED
        BY <3>1, <3>2, <3>3
    <2>8. Cardinality(Sending(e)') = Cardinality(Sending(e))
                                     - (IF new.status = "sent" THEN 1 ELSE 0)
      <3>1. IsFiniteSet(Sending(e)) /\ Cardinality(Sending(e)) \in Nat
        BY SendingIsFinite
      <3>2. CASE new.status = "sent"
        BY <2>7, <3>1, <3>2, FS_RemoveElement
      <3>3. CASE new.status # "sent"
        BY <2>7, <3>1, <3>3
      <3>4. QED
        BY <3>2, <3>3
    <2>9. raced' \in BOOLEAN /\ (raced => raced') /\ (~raced' => emails.row[e].status = "pending")
      BY <2>2 DEF EmailInv
    <2>10. ASSUME ~raced', NEW f \in Emails
           PROVE  emails'.delivered[f] = emails'.unsaved[f] + Cardinality(Sending(f)')
                                         + (IF emails'.row[f].status = "sent" THEN 1 ELSE 0)
      <3>1. /\ emails.delivered[f] = emails.unsaved[f] + Cardinality(Sending(f))
                                     + (IF emails.row[f].status = "sent" THEN 1 ELSE 0)
            /\ emails.unsaved[f] \in Nat /\ Cardinality(Sending(f)) \in Nat
        BY <2>9, <2>10, SendingIsFinite DEF EmailInv, EmailState
      <3>2. CASE f = e
        BY <2>3, <2>4, <2>8, <2>9, <2>10, <3>1, <3>2
      <3>3. CASE f # e
        BY <2>3, <2>4, <2>6, <3>1, <3>3
      <3>4. QED
        BY <3>2, <3>3
    <2>11. ASSUME NEW d \in Calls, call'[d].at # "idle"
           PROVE  /\ call'[d].seen \in [Emails -> EmailRow]
                  /\ \A f \in Emails : EmailRowInv(call'[d].seen[f])
                  /\ call'[d].arg \subseteq Emails
                  /\ \A f \in call'[d].arg :
                       ~(call'[d].at = "save" /\ f = call'[d].id)
                         => call'[d].seen[f].status = "pending"
                  /\ call'[d].at = "save" =>
                       /\ call'[d].id \in Emails
                       /\ call'[d].seen[call'[d].id].status = "sent"
                            => emails'.delivered[call'[d].id] > 0
      <3>1. CASE d = c
        BY <2>1, <2>5, <2>11, <3>1
      <3>2. CASE d # c
        BY <2>4, <2>5, <2>11, <3>2 DEF EmailInv
      <3>3. QED
        BY <3>1, <3>2
    <2>12. \A f \in Emails : /\ EmailRowInv(emails'.row[f])
                             /\ emails'.row[f].status = "sent" => emails'.delivered[f] > 0
      BY <2>1, <2>3, <2>4 DEF EmailInv
    <2>13. \A d \in Calls : call'[d].at \in {"idle", "send", "save"}
      BY <2>5 DEF EmailInv
    <2>14. QED
      BY <2>4, <2>5, <2>9, <2>10, <2>11, <2>12, <2>13 DEF EmailInv
  <1>5. ASSUME NEW c \in Calls, PassFails(c) PROVE EmailInv'
    <2> DEFINE lost == call[c].at = "save" /\ call[c].seen[call[c].id].status = "sent"
    <2>1. /\ CallShape' /\ raced' = raced /\ call'[c].at = "idle"
          /\ \A d \in Calls \ {c} : call'[d] = call[d]
      BY <1>5, EndsEffect DEF PassFails, Fails, EmailInv
    <2>2. CASE lost
      <3>0. PICK e \in Emails : e = call[c].id
        BY <2>2 DEF EmailInv
      <3> DEFINE unsaved == [emails.unsaved EXCEPT ![e] = @ + 1]
      <3>1. emails' = [emails EXCEPT !.unsaved = unsaved]
        BY <1>5, <2>2, <3>0 DEF PassFails, EmailInv
      <3>2. /\ unsaved \in [Emails -> Nat] /\ unsaved[e] = emails.unsaved[e] + 1
            /\ \A f \in Emails \ {e} : unsaved[f] = emails.unsaved[f]
        BY <3>1 DEF EmailInv, EmailState
      <3> HIDE DEF unsaved
      <3>3. /\ emails' \in EmailState /\ emails'.row = emails.row
            /\ emails'.delivered = emails.delivered /\ emails'.unsaved = unsaved
        BY <3>1, <3>2 DEF EmailInv, EmailState
      <3>4. /\ \A f \in Emails \ {e} : Sending(f)' = Sending(f)
            /\ Sending(e)' = Sending(e) \ {c} /\ c \in Sending(e)
        <4>1. \A d \in Calls \ {c} : \A f : d \in Sending(f)' <=> d \in Sending(f)
          BY <2>1 DEF Sending
        <4>2. /\ c \in Sending(e) /\ \A f \in Emails : c \notin Sending(f)'
              /\ \A f \in Emails \ {e} : c \notin Sending(f)
          BY <2>1, <2>2, <3>0 DEF Sending
        <4>3. \A f : Sending(f)' \subseteq Calls /\ Sending(f) \subseteq Calls
          BY DEF Sending
        <4>4. QED
          BY <4>1, <4>2, <4>3
      <3>5. Cardinality(Sending(e)') = Cardinality(Sending(e)) - 1
        <4>1. IsFiniteSet(Sending(e))
          BY SendingIsFinite
        <4>2. QED
          BY <3>4, <4>1, FS_RemoveElement
      <3>6. ASSUME ~raced, NEW f \in Emails
            PROVE  emails'.delivered[f] = emails'.unsaved[f] + Cardinality(Sending(f)')
                                          + (IF emails'.row[f].status = "sent" THEN 1 ELSE 0)
        <4>1. /\ emails.delivered[f] = emails.unsaved[f] + Cardinality(Sending(f))
                                       + (IF emails.row[f].status = "sent" THEN 1 ELSE 0)
              /\ emails.unsaved[f] \in Nat /\ Cardinality(Sending(f)) \in Nat
          BY <3>6, SendingIsFinite DEF EmailInv, EmailState
        <4>2. CASE f = e
          BY <3>2, <3>3, <3>5, <4>1, <4>2
        <4>3. CASE f # e
          BY <3>2, <3>3, <3>4, <4>1, <4>3
        <4>4. QED
          BY <4>2, <4>3
      <3>7. QED
        BY <2>1, <3>3, <3>6 DEF EmailInv
    <2>3. CASE ~lost
      <3>1. emails' = emails
        BY <1>5, <2>3 DEF PassFails
      <3>2. \A f : Sending(f)' = Sending(f)
        BY <2>1, <2>3 DEF Sending
      <3>3. QED
        BY <2>1, <3>1, <3>2 DEF EmailInv
    <2>4. QED
      BY <2>2, <2>3
  <1>6. ASSUME NEW e \in Emails, RetryComesDue(e) PROVE EmailInv'
    <2> DEFINE new == [emails.row[e] EXCEPT !.waits = FALSE]
               row == [emails.row EXCEPT ![e] = new]
    <2>1. emails' = [emails EXCEPT !.row = row] /\ UNCHANGED reqVars
      BY <1>6 DEF RetryComesDue
    <2>2. emails.row[e] \in EmailRow /\ EmailRowInv(emails.row[e])
      BY DEF EmailInv, EmailState
    <2>3. /\ new \in EmailRow /\ new.status = emails.row[e].status
          /\ new.attempts = emails.row[e].attempts /\ ~new.waits
      BY <2>2 DEF EmailRow
    <2> HIDE DEF new
    <2>4. /\ row \in [Emails -> EmailRow] /\ row[e] = new
          /\ \A f \in Emails \ {e} : row[f] = emails.row[f]
      BY <2>3 DEF EmailInv, EmailState
    <2> HIDE DEF row
    <2>5. /\ emails' \in EmailState /\ emails'.row = row
          /\ emails'.delivered = emails.delivered /\ emails'.unsaved = emails.unsaved
      BY <2>1, <2>4 DEF EmailInv, EmailState
    <2>6. \A f \in Emails : emails'.row[f].status = emails.row[f].status /\ EmailRowInv(emails'.row[f])
      BY <2>2, <2>3, <2>4, <2>5 DEF EmailInv, EmailRowInv
    <2>7. CallShape' /\ \A f : Sending(f)' = Sending(f)
      BY <2>1 DEF CallShape, Sending, EmailInv
    <2>8. QED
      BY <2>1, <2>5, <2>6, <2>7 DEF EmailInv
  <1>7. QED
    BY <1>1, <1>2, <1>3, <1>4, <1>5, <1>6 DEF EmailNext

----------------------------------------------------------------------------
(* opt-outs *)

\* A call that mails or saves holds what it read before the user's next choice.
OptOutsInv ==
  /\ CallShape /\ raced \in BOOLEAN /\ OptOutsTypeOK
  /\ \A c \in Calls : call[c].at \in {"idle", "enqueue", "save_prefs", "remind", "save_reminder"}
  /\ prefs = None => wish.enrollment = TRUE /\ wish.unsubscribedAll = FALSE
  /\ \A c \in Calls : At(c, "save_prefs") =>
       /\ call[c].seen \in EmailPreference /\ call[c].arg \in EmailPreference
       /\ call[c].seen.unsubscribedAll = TRUE => call[c].arg.unsubscribedAll = TRUE
  /\ \A c \in Calls : call[c].at \in {"remind", "save_reminder"} =>
       call[c].id \in Reminders /\ call[c].seen \in Reminder
  /\ \A c \in Calls : call[c].at \in {"enqueue", "remind"} => call[c].arg \in BOOLEAN
  /\ ~raced =>
       /\ wish.unwanted = FALSE
       /\ prefs # None => /\ prefs.enrollment = wish.enrollment
                          /\ prefs.unsubscribedAll = wish.unsubscribedAll
       /\ RemindersShowWish
       /\ \A c \in Calls : call[c].at \in {"enqueue", "remind"} => call[c].arg = FALSE

LEMMA OptOutsInitInv == RequestsInit /\ OptOutsInit => OptOutsInv
  <1> SUFFICES ASSUME RequestsInit, OptOutsInit PROVE OptOutsInv
    OBVIOUS
  <1>1. raced = FALSE /\ CallShape /\ \A c \in Calls : call[c].at = "idle"
    BY InitCalls DEF RequestsInit, At
  <1>2. QED
    BY <1>1 DEF OptOutsInv, OptOutsInit, OptOutsTypeOK, RemindersShowWish, InPlace, At

\* A step that switches no reminder on or off, nor the wish.
LEMMA RemindersStay ==
    ASSUME wish'.isActive = wish.isActive,
           \A r \in Reminders : /\ reminders'[r] = None <=> reminders[r] = None
                                /\ reminders[r] # None =>
                                     reminders'[r].isActive = reminders[r].isActive
    PROVE  RemindersShowWish' = RemindersShowWish
  BY DEF RemindersShowWish, InPlace

LEMMA OptOutsStep == OptOutsInv /\ OptOutsNext => OptOutsInv'
  <1> SUFFICES ASSUME OptOutsInv, OptOutsNext PROVE OptOutsInv'
    OBVIOUS
  <1> USE OptOutsAssumption DEF OptOutsInv, OptOutsTypeOK, At, reqVars, optVars
  <1>1. ASSUME NEW c \in Calls, getOrCreatePrefs(c) PROVE OptOutsInv'
    <2>1. RemindersShowWish' = RemindersShowWish
      BY <1>1, RemindersStay DEF getOrCreatePrefs
    <2>2. QED
      BY <1>1, <2>1 DEF getOrCreatePrefs, Default, EmailPreference, CallShape
  <1>2. ASSUME NEW c \in Calls, onEnrollment(c) PROVE OptOutsInv'
    <2>1. /\ CallShape' /\ call'[c].at = "enqueue" /\ call'[c].arg = MailIsUnwanted
          /\ \A d \in Calls \ {c} : call'[d] = call[d]
          /\ UNCHANGED <<prefs, reminders, wish, raced>>
      BY <1>2, ReadsEffect DEF onEnrollment
    <2>2. MailIsUnwanted \in BOOLEAN /\ (~raced => MailIsUnwanted = FALSE)
      BY <1>2 DEF onEnrollment, Willing, MailIsUnwanted, EmailPreference
    <2>3. RemindersShowWish' = RemindersShowWish
      BY <2>1, RemindersStay
    <2>4. QED
      BY <2>1, <2>2, <2>3
  <1>3. ASSUME NEW c \in Calls, onEnrollment_enqueue(c) PROVE OptOutsInv'
    <2>1. /\ CallShape' /\ call'[c].at = "idle" /\ UNCHANGED <<prefs, reminders, raced>>
          /\ \A d \in Calls \ {c} : call'[d] = call[d]
      BY <1>3, EndsEffect DEF onEnrollment_enqueue
    <2>2. /\ wish' \in [enrollment : BOOLEAN, unsubscribedAll : BOOLEAN, isActive : BOOLEAN,
                        unwanted : BOOLEAN]
          /\ wish'.enrollment = wish.enrollment /\ wish'.isActive = wish.isActive
          /\ wish'.unsubscribedAll = wish.unsubscribedAll
          /\ ~raced => wish'.unwanted = FALSE
      BY <1>3 DEF onEnrollment_enqueue
    <2>3. RemindersShowWish' = RemindersShowWish
      BY <2>1, <2>2, RemindersStay
    <2>4. QED
      BY <2>1, <2>2, <2>3
  <1>4. ASSUME NEW c \in Calls, NEW value \in BOOLEAN, updatePreferences(c, value) PROVE OptOutsInv'
    <2>1. /\ CallShape' /\ call'[c].at = "save_prefs" /\ call'[c].seen = prefs
          /\ call'[c].arg = [prefs EXCEPT !.enrollment = value] /\ prefs \in EmailPreference
          /\ \A d \in Calls \ {c} : call'[d] = call[d]
          /\ UNCHANGED <<prefs, reminders, wish, raced>>
      BY <1>4, ReadsEffect DEF updatePreferences
    <2>2. /\ call'[c].arg \in EmailPreference /\ call'[c].seen \in EmailPreference
          /\ call'[c].seen.unsubscribedAll = TRUE => call'[c].arg.unsubscribedAll = TRUE
      BY <2>1 DEF EmailPreference
    <2>3. /\ CallShape' /\ call'[c].at = "save_prefs"
          /\ \A d \in Calls \ {c} : call'[d] = call[d]
          /\ UNCHANGED <<prefs, reminders, wish, raced>>
      BY <2>1
    <2>4. RemindersShowWish' = RemindersShowWish
      BY <2>3, RemindersStay
    <2>5. QED
      BY <2>2, <2>3, <2>4
  <1>5. ASSUME NEW c \in Calls, unsubscribeByToken(c) PROVE OptOutsInv'
    <2>1. /\ CallShape' /\ call'[c].at = "save_prefs" /\ call'[c].seen = prefs
          /\ call'[c].arg = [prefs EXCEPT !.unsubscribedAll = TRUE] /\ prefs \in EmailPreference
          /\ \A d \in Calls \ {c} : call'[d] = call[d]
          /\ UNCHANGED <<prefs, reminders, wish, raced>>
      BY <1>5, ReadsEffect DEF unsubscribeByToken
    <2>2. /\ call'[c].arg \in EmailPreference /\ call'[c].seen \in EmailPreference
          /\ call'[c].seen.unsubscribedAll = TRUE => call'[c].arg.unsubscribedAll = TRUE
      BY <2>1 DEF EmailPreference
    <2>3. /\ CallShape' /\ call'[c].at = "save_prefs"
          /\ \A d \in Calls \ {c} : call'[d] = call[d]
          /\ UNCHANGED <<prefs, reminders, wish, raced>>
      BY <2>1
    <2>4. RemindersShowWish' = RemindersShowWish
      BY <2>3, RemindersStay
    <2>5. QED
      BY <2>2, <2>3, <2>4
  <1>6. ASSUME NEW c \in Calls, SavePrefs(c) PROVE OptOutsInv'
    <2>1. /\ CallShape' /\ call'[c].at = "idle" /\ reminders' = reminders
          /\ \A d \in Calls \ {c} : call'[d] = call[d]
          /\ raced' \in BOOLEAN /\ (raced => raced') /\ (~raced' => prefs = call[c].seen)
      BY <1>6, EndsEffect DEF SavePrefs, Trusts
    <2>2. /\ call[c].seen \in EmailPreference /\ call[c].arg \in EmailPreference
          /\ call[c].seen.unsubscribedAll = TRUE => call[c].arg.unsubscribedAll = TRUE
          /\ prefs' = call[c].arg
      BY <1>6 DEF SavePrefs
    <2>3. /\ wish' \in [enrollment : BOOLEAN, unsubscribedAll : BOOLEAN, isActive : BOOLEAN,
                        unwanted : BOOLEAN]
          /\ wish'.unwanted = wish.unwanted /\ wish'.isActive = wish.isActive
      BY <1>6, <2>2, ZenonT(60) DEF SavePrefs, EmailPreference
    <2>4. ~raced' => /\ prefs'.enrollment = wish'.enrollment
                     /\ prefs'.unsubscribedAll = wish'.unsubscribedAll
      BY <1>6, <2>1, <2>2 DEF SavePrefs, EmailPreference
    <2>5. RemindersShowWish' = RemindersShowWish
      BY <2>1, <2>3, RemindersStay
    <2>6. QED
      BY <2>1, <2>2, <2>3, <2>4, <2>5
  <1>7. ASSUME NEW c \in Calls, NEW r \in Reminders, createReminder(c, r) PROVE OptOutsInv'
    <2> DEFINE new == [isActive |-> TRUE, due |-> FALSE]
    <2>1. /\ reminders' = [reminders EXCEPT ![r] = new]
          /\ wish' = [wish EXCEPT !.isActive = TRUE] /\ UNCHANGED <<prefs, call, raced>>
      BY <1>7 DEF createReminder
    <2>2. new \in Reminder /\ new.isActive = TRUE
      BY DEF Reminder
    <2> HIDE DEF new
    <2>3. reminders' \in [Reminders -> Reminder \cup {None}] /\ reminders'[r] = new /\ new # None
      BY <2>1, <2>2
    <2>4. /\ wish' \in [enrollment : BOOLEAN, unsubscribedAll : BOOLEAN, isActive : BOOLEAN,
                        unwanted : BOOLEAN]
          /\ wish'.enrollment = wish.enrollment /\ wish'.unwanted = wish.unwanted
          /\ wish'.unsubscribedAll = wish.unsubscribedAll /\ wish'.isActive = TRUE
      BY <2>1
    <2>5. RemindersShowWish'
      BY <2>2, <2>3, <2>4 DEF RemindersShowWish, InPlace
    <2>6. QED
      BY <2>1, <2>3, <2>4, <2>5 DEF CallShape
  <1>8. ASSUME NEW c \in Calls, NEW active \in BOOLEAN, SetReminders(c, active) PROVE OptOutsInv'
    <2>1. /\ reminders' = [r \in Reminders |->
               IF reminders[r] = None THEN None ELSE [reminders[r] EXCEPT !.isActive = active]]
          /\ wish' = [wish EXCEPT !.isActive = active] /\ UNCHANGED <<prefs, call, raced>>
      BY <1>8 DEF SetReminders
    <2>2. ASSUME NEW r \in Reminders, reminders[r] # None
          PROVE  /\ [reminders[r] EXCEPT !.isActive = active] \in Reminder
                 /\ [reminders[r] EXCEPT !.isActive = active].isActive = active
      <3>1. reminders[r] \in Reminder
        BY <2>2
      <3>2. QED
        BY <3>1 DEF Reminder
    <2>3. /\ reminders' \in [Reminders -> Reminder \cup {None}]
          /\ \A r \in Reminders : /\ reminders[r] = None => reminders'[r] = None
                                  /\ reminders[r] # None => reminders'[r].isActive = active
      BY <2>1, <2>2
    <2>4. /\ wish' \in [enrollment : BOOLEAN, unsubscribedAll : BOOLEAN, isActive : BOOLEAN,
                        unwanted : BOOLEAN]
          /\ wish'.enrollment = wish.enrollment /\ wish'.unwanted = wish.unwanted
          /\ wish'.unsubscribedAll = wish.unsubscribedAll /\ wish'.isActive = active
      BY <2>1
    <2>5. RemindersShowWish'
      BY <2>3, <2>4 DEF RemindersShowWish, InPlace
    <2>6. QED
      BY <2>1, <2>3, <2>4, <2>5 DEF CallShape
  <1>9. ASSUME NEW r \in Reminders, ReminderComesDue(r) PROVE OptOutsInv'
    <2>1. /\ reminders[r] \in Reminder /\ UNCHANGED <<prefs, wish, call, raced>>
          /\ reminders' = [reminders EXCEPT ![r] = [reminders[r] EXCEPT !.due = TRUE]]
      BY <1>9 DEF ReminderComesDue
    <2>2. /\ [reminders[r] EXCEPT !.due = TRUE] \in Reminder
          /\ [reminders[r] EXCEPT !.due = TRUE].isActive = reminders[r].isActive
      BY <2>1 DEF Reminder
    <2>3. reminders' \in [Reminders -> Reminder \cup {None}]
      BY <2>1, <2>2
    <2>4. RemindersShowWish' = RemindersShowWish
      BY <2>1, <2>2, RemindersStay
    <2>5. QED
      BY <2>1, <2>3, <2>4 DEF CallShape
  <1>10. ASSUME NEW c \in Calls, NEW r \in Reminders, sendInactiveReminders(c, r)
         PROVE  OptOutsInv'
    <2>1. /\ CallShape' /\ call'[c].at = "remind" /\ call'[c].arg = ~wish.isActive
          /\ call'[c].id = r /\ call'[c].seen = reminders[r] /\ reminders[r] \in Reminder
          /\ \A d \in Calls \ {c} : call'[d] = call[d]
          /\ UNCHANGED <<prefs, reminders, wish, raced>>
      BY <1>10, ReadsEffect DEF sendInactiveReminders
    <2>2. ~raced => wish.isActive
      BY <1>10 DEF sendInactiveReminders, RemindersShowWish, InPlace
    <2>3. RemindersShowWish' = RemindersShowWish
      BY <2>1, RemindersStay
    <2>4. QED
      BY <2>1, <2>2, <2>3, ZenonT(60)
  <1>11. ASSUME NEW c \in Calls, sendInactiveReminders_mailed(c) PROVE OptOutsInv'
    <2>1. /\ CallShape' /\ call'[c].at = "save_reminder" /\ call'[c].seen = call[c].seen
          /\ call'[c].id = call[c].id
          /\ \A d \in Calls \ {c} : call'[d] = call[d]
          /\ call[c].at = "remind" /\ UNCHANGED <<prefs, reminders, raced>>
      BY <1>11, MovesEffect DEF sendInactiveReminders_mailed
    <2>2. /\ wish' \in [enrollment : BOOLEAN, unsubscribedAll : BOOLEAN, isActive : BOOLEAN,
                        unwanted : BOOLEAN]
          /\ wish'.enrollment = wish.enrollment /\ wish'.isActive = wish.isActive
          /\ wish'.unsubscribedAll = wish.unsubscribedAll
          /\ ~raced => wish'.unwanted = FALSE
      BY <1>11 DEF sendInactiveReminders_mailed
    <2>3. RemindersShowWish' = RemindersShowWish
      BY <2>1, <2>2, RemindersStay
    <2>4. QED
      BY <2>1, <2>2, <2>3
  <1>12. ASSUME NEW c \in Calls, sendInactiveReminders_save(c) PROVE OptOutsInv'
    <2> DEFINE r == call[c].id
               row == [call[c].seen EXCEPT !.due = FALSE]
    <2>1. /\ CallShape' /\ call'[c].at = "idle" /\ UNCHANGED <<prefs, wish>>
          /\ \A d \in Calls \ {c} : call'[d] = call[d]
          /\ raced' \in BOOLEAN /\ (raced => raced') /\ (~raced' => reminders[r] = call[c].seen)
          /\ reminders' = [reminders EXCEPT ![r] = row]
      BY <1>12, EndsEffect DEF sendInactiveReminders_save, Trusts
    <2>2. r \in Reminders /\ call[c].seen \in Reminder
      BY <1>12 DEF sendInactiveReminders_save
    <2>3. row \in Reminder /\ row.isActive = call[c].seen.isActive
      BY <2>2 DEF Reminder
    <2> HIDE DEF row
    <2>4. reminders' \in [Reminders -> Reminder \cup {None}]
      BY <2>1, <2>2, <2>3
    <2>5. ~raced' => RemindersShowWish' = RemindersShowWish
      BY <2>1, <2>2, <2>3, RemindersStay
    <2>6. QED
      BY <2>1, <2>4, <2>5
  <1>13. ASSUME NEW c \in Calls, Fails(c), UNCHANGED optVars PROVE OptOutsInv'
    <2>1. RemindersShowWish' = RemindersShowWish
      BY <1>13, RemindersStay
    <2>2. QED
      BY <1>13, <2>1, EndsEffect DEF Fails
  <1>14. QED
    BY <1>1, <1>2, <1>3, <1>4, <1>5, <1>6, <1>7, <1>8, <1>9, <1>10, <1>11, <1>12, <1>13
    DEF OptOutsNext, disableReminder, enableReminder

----------------------------------------------------------------------------
(* rate limits and cohorts *)

Lists == [Moments -> Nat]

LimitsState ==
  [now : Moments, timestamps : Lists, daily : Nat, admitted : Lists, charged : Nat]

\* What a list says of the moments after w, up to m.
Between(list, w, m) == [t \in Moments |-> IF w < t /\ t <= m THEN list[t] ELSE 0]

\* What a call knows: the list as it was when the call began, at k.id, with
\* room in its last window; and a daily count with room for one more.
RateCall(k) ==
  LET list == IF k.at = "count" THEN k.seen.list ELSE k.seen
  IN  /\ k.at \in {"idle", "daily", "count", "push"}
      /\ k.at # "idle" =>
           /\ list \in Lists /\ k.id \in Moments /\ k.id <= limits.now
           /\ \A t \in Moments : t > k.id => list[t] = 0
           /\ k.arg = Between(list, k.id - Window, LastMoment)
           /\ Count(k.arg) < Limit
      /\ k.at = "count" => k.seen.daily \in Nat /\ k.seen.daily < DailyQuota

\* n is the moment of the last request let in: the list holds the window before it.
LastIs(n) ==
  /\ n <= limits.now
  /\ \A t \in Moments : t > n => limits.admitted[t] = 0
  /\ limits.timestamps = Between(limits.admitted, n - Window, LastMoment)
  /\ limits.admitted[n] > 0 \/ \A t \in Moments : limits.admitted[t] = 0

WindowsHold ==
  \A m \in Moments : Count(Between(limits.admitted, m - Window, m)) <= Limit

DailyHolds == limits.daily = limits.charged /\ limits.daily <= DailyQuota

RateInv ==
  /\ CallShape /\ raced \in BOOLEAN
  /\ limits \in LimitsState
  /\ \A t \in Moments : t > limits.now => limits.timestamps[t] = 0
  /\ \A c \in Calls : RateCall(call[c])
  /\ ~raced => WindowsHold /\ DailyHolds /\ \E n \in Moments : LastIs(n)

CohortInv ==
  /\ CallShape /\ raced \in BOOLEAN
  /\ members \in 0 .. MaxJoins
  /\ \A c \in Calls :
       /\ call[c].at \in {"idle", "insert"}
       /\ call[c].at = "insert" => call[c].seen \in Nat /\ (MaxMembers > 0 => call[c].seen < MaxMembers)
  /\ ~raced /\ MaxMembers > 0 => members <= MaxMembers

LEMMA BetweenType ==
    ASSUME NEW list \in Lists, NEW w \in Int, NEW m \in Int
    PROVE  /\ Between(list, w, m) \in Lists
           /\ Count(Between(list, w, m)) \in Nat
           /\ \A t \in Moments : Between(list, w, m)[t] = IF w < t /\ t <= m THEN list[t] ELSE 0
           /\ m = LastMoment =>
                \A t \in Moments : Between(list, w, m)[t] = IF w < t THEN list[t] ELSE 0
  <1>1. /\ Between(list, w, m) \in Lists
        /\ \A t \in Moments : Between(list, w, m)[t] = IF w < t /\ t <= m THEN list[t] ELSE 0
    BY DEF Between, Lists
  <1>2. IsFiniteSet(Moments)
    BY RateAssumption, FS_Interval DEF Moments
  <1>3. Count(Between(list, w, m)) \in Nat
    <2> DEFINE f == Between(list, w, m)
    <2>1. f \in [Moments -> Nat]
      BY <1>1 DEF Lists
    <2> HIDE DEF f
    <2>2. SumFunction(f) \in Nat
      BY <1>2, <2>1, SumFunctionType
    <2>3. QED
      BY <2>2 DEF Count, f
  <1>4. \A t \in Moments : t <= LastMoment
    BY RateAssumption DEF Moments
  <1>5. QED
    BY <1>1, <1>3, <1>4

\* A list that says less counts less, and one request more counts one more.
LEMMA CountMonotone ==
    ASSUME NEW f \in Lists, NEW g \in Lists, \A t \in Moments : f[t] <= g[t]
    PROVE  Count(f) <= Count(g)
  <1>1. IsFiniteSet(Moments)
    BY RateAssumption, FS_Interval DEF Moments
  <1>2. \A t \in Moments : f[t] \in Int /\ g[t] \in Int /\ f[t] <= g[t]
    BY DEF Lists
  <1>3. SumFunction(f) = SumFunctionOnSet(f, Moments)
        /\ SumFunction(g) = SumFunctionOnSet(g, Moments)
    BY SumOverDomain DEF Lists
  <1>4. QED
    BY <1>1, <1>2, <1>3, SumMonotone DEF Count

LEMMA CountAdds ==
    ASSUME NEW f \in Lists, NEW n \in Moments
    PROVE  /\ [f EXCEPT ![n] = f[n] + 1] \in Lists
           /\ Count([f EXCEPT ![n] = f[n] + 1]) = Count(f) + 1
  <1> DEFINE v == f[n] + 1
  <1>0. IsFiniteSet(Moments)
    BY RateAssumption, FS_Interval DEF Moments
  <1>1. IsFiniteSet(Moments) /\ f \in [Moments -> Nat] /\ f \in [Moments -> Int]
    BY <1>0 DEF Lists
  <1>2. v \in Nat /\ v \in Int /\ f[n] \in Nat /\ v - f[n] = 1
    BY <1>1
  <1>3. SumFunction(f) \in Nat
    BY <1>1, SumFunctionType
  <1> HIDE DEF v
  <1>4. SumFunction([f EXCEPT ![n] = v]) = SumFunction(f) + v - f[n]
    BY <1>1, <1>2, SumExcept
  <1>5. [f EXCEPT ![n] = v] \in Lists
    BY <1>1, <1>2 DEF Lists
  <1>6. SumFunction([f EXCEPT ![n] = v]) = SumFunction(f) + 1
    BY <1>2, <1>3, <1>4
  <1>7. QED
    BY <1>5, <1>6 DEF Count, v

LEMMA RateInitInv == RequestsInit /\ RateInit => RateInv /\ CohortInv
  <1> SUFFICES ASSUME RequestsInit, RateInit PROVE RateInv /\ CohortInv
    OBVIOUS
  <1> USE RateAssumption
  <1> DEFINE zero == [t \in Moments |-> 0]
  <1>1. 0 \in Moments /\ zero \in Lists /\ \A t \in Moments : zero[t] = 0
    BY DEF Moments, Lists
  <1>2. /\ limits = [now |-> 0, timestamps |-> zero, daily |-> 0, admitted |-> zero, charged |-> 0]
        /\ members = 0 /\ raced = FALSE
    BY DEF RateInit, RequestsInit
  <1>3. \A w, m \in Int : Between(zero, w, m) = zero /\ Count(Between(zero, w, m)) = 0
    <2>1. Count(zero) = 0
      <3>1. IsFiniteSet(Moments)
        BY FS_Interval DEF Moments
      <3>2. SumFunction(zero) = SumFunctionOnSet(zero, Moments)
        BY SumOverDomain
      <3> HIDE DEF zero
      <3>3. QED
        BY <1>1, <3>1, <3>2, SumZeros DEF Count
    <2>2. ASSUME NEW w \in Int, NEW m \in Int PROVE Between(zero, w, m) = zero
      BY DEF Between
    <2>3. QED
      BY <2>1, <2>2
  <1> HIDE DEF zero
  <1>4. LimitsState = [now : Moments, timestamps : Lists, daily : Nat, admitted : Lists, charged : Nat]
    BY DEF LimitsState
  <1>5. limits \in LimitsState
    BY <1>1, <1>2, <1>4
  <1>6. WindowsHold /\ DailyHolds
    <2>1. \A m \in Moments : m \in Int /\ m - Window \in Int
      BY DEF Moments
    <2>2. QED
      BY <1>2, <1>3, <2>1 DEF WindowsHold, DailyHolds
  <1>7. LastIs(0)
    <2>1. 0 - Window \in Int /\ LastMoment \in Int
      OBVIOUS
    <2>2. QED
      BY <1>1, <1>2, <1>3, <2>1 DEF LastIs
  <1>8. \A c \in Calls : RateCall(call[c]) /\ call[c].at = "idle"
    BY InitCalls DEF RateCall, At
  <1>9. CallShape
    BY InitCalls
  <1>10. RateInv
    BY <1>1, <1>2, <1>5, <1>6, <1>7, <1>8, <1>9 DEF RateInv
  <1>11. CohortInv
    <2>1. members = 0 /\ 0 \in 0 .. MaxJoins /\ 0 <= MaxMembers
      BY <1>2
    <2>2. raced = FALSE
      BY <1>2
    <2>3. QED
      BY <1>8, <1>9, <2>1, <2>2 DEF CohortInv
  <1>12. QED
    BY <1>10, <1>11

LEMMA CohortStep == CohortInv /\ CohortNext => CohortInv'
  <1> SUFFICES ASSUME CohortInv, CohortNext PROVE CohortInv'
    OBVIOUS
  <1> USE RateAssumption DEF CohortInv, At, reqVars
  <1>1. ASSUME NEW c \in Calls, addMember(c) PROVE CohortInv'
    <2>1. Reads(c, "insert", None, members, None) /\ members' = members
      BY <1>1 DEF addMember
    <2>2. /\ CallShape' /\ raced' = raced /\ call'[c].at = "insert" /\ call'[c].seen = members
          /\ \A d \in Calls \ {c} : call'[d] = call[d]
      BY <2>1, ReadsEffect
    <2>3. MaxMembers > 0 => members < MaxMembers
      BY <1>1 DEF addMember
    <2>4. QED
      BY <2>1, <2>2, <2>3
  <1>2. ASSUME NEW c \in Calls, addMember_insert(c) PROVE CohortInv'
    <2>1. /\ CallShape' /\ call'[c].at = "idle" /\ \A d \in Calls \ {c} : call'[d] = call[d]
      BY <1>2, EndsEffect DEF addMember_insert
    <2>2. /\ members' = members + 1 /\ members' \in 0 .. MaxJoins
          /\ raced' = (raced \/ call[c].seen # members) /\ call[c].at = "insert"
      BY <1>2 DEF addMember_insert, Trusts
    <2>3. ASSUME ~raced', MaxMembers > 0 PROVE members' <= MaxMembers
      <3>1. call[c].seen = members
        BY <2>2, <2>3
      <3>2. call[c].seen < MaxMembers /\ members \in Nat
        BY <2>2, <2>3
      <3>3. QED
        BY <2>2, <3>1, <3>2
    <2>4. raced' \in BOOLEAN
      <3>1. raced' = (raced \/ call[c].seen # members)
        BY <2>2
      <3>2. QED
        BY <3>1, Zenon
    <2>5. QED
      BY <2>1, <2>2, <2>3, <2>4
  <1>3. ASSUME NEW c \in Calls, removeMember(c) PROVE CohortInv'
    BY <1>3 DEF removeMember, CallShape
  <1>4. ASSUME NEW c \in Calls, Fails(c), members' = members PROVE CohortInv'
    BY <1>4, EndsEffect DEF Fails
  <1>5. QED
    BY <1>1, <1>2, <1>3, <1>4 DEF CohortNext

LEMMA RateStep == RateInv /\ RateNext => RateInv'
  <1> SUFFICES ASSUME RateInv, RateNext PROVE RateInv'
    OBVIOUS
  <1> USE RateAssumption
  <1>0. /\ CallShape /\ limits \in LimitsState /\ raced \in BOOLEAN
        /\ limits.now \in Moments /\ limits.timestamps \in Lists /\ limits.admitted \in Lists
        /\ limits.now \in Nat /\ limits.daily \in Nat /\ limits.charged \in Nat
        /\ \A t \in Moments : t \in Nat /\ t <= LastMoment /\ t - Window \in Int
        /\ LastMoment \in Int
    BY DEF RateInv, LimitsState, Moments
  <1>1. ASSUME NEW c \in Calls, CallShape', limits'.now >= limits.now,
               \A d \in Calls \ {c} : call'[d] = call[d], RateCall(call[c])',
               limits'.now \in Nat
        PROVE  CallShape' /\ \A d \in Calls : RateCall(call[d])'
    <2>1. ASSUME NEW d \in Calls \ {c} PROVE RateCall(call[d])'
      <3>1. RateCall(call[d]) /\ call'[d] = call[d]
        BY <1>1 DEF RateInv
      <3>2. QED
        BY <1>0, <1>1, <3>1 DEF RateCall
    <2>2. QED
      BY <1>1, <2>1
  <1>2. ASSUME UNCHANGED limits, raced' = raced,
               CallShape' /\ \A d \in Calls : RateCall(call[d])'
        PROVE  RateInv'
    BY <1>2 DEF RateInv, WindowsHold, DailyHolds, LastIs
  <1>3. ASSUME NEW c \in Calls, checkRateLimit(c) PROVE RateInv'
    <2> DEFINE list == limits.timestamps
    <2>1. Recent(list) = Between(list, limits.now - Window, LastMoment)
      BY <1>0 DEF Recent, Between
    <2>2. /\ CallShape' /\ raced' = raced /\ limits' = limits
          /\ call'[c].at \in {"daily", "push"} /\ call'[c].id = limits.now
          /\ call'[c].seen = list /\ call'[c].arg = Recent(list)
          /\ \A d \in Calls \ {c} : call'[d] = call[d]
          /\ Count(Recent(list)) < Limit
      BY <1>0, <1>3, ReadsEffect DEF checkRateLimit
    <2>3. RateCall(call[c])'
      BY <1>0, <2>1, <2>2 DEF RateCall, RateInv
    <2>4. QED
      BY <1>0, <1>1, <1>2, <2>2, <2>3
  <1>4. ASSUME NEW c \in Calls, CallShape', call'[c].at = "idle", raced' = raced,
               UNCHANGED limits, \A d \in Calls \ {c} : call'[d] = call[d]
        PROVE  RateInv'
    <2>1. RateCall(call[c])'
      BY <1>4 DEF RateCall
    <2>2. QED
      BY <1>0, <1>1, <1>2, <1>4, <2>1
  <1>5. ASSUME NEW c \in Calls, checkRateLimit_daily(c) PROVE RateInv'
    <2>1. CASE limits.daily >= DailyQuota
      BY <1>0, <1>4, <1>5, <2>1, EndsEffect DEF checkRateLimit_daily
    <2>2. CASE ~(limits.daily >= DailyQuota)
      <3> DEFINE k == [list |-> call[c].seen, daily |-> limits.daily]
      <3>1. call' = [call EXCEPT ![c].at = "count", ![c].seen = k] /\ call[c].at = "daily"
            /\ limits' = limits /\ raced' = raced
        BY <1>5, <2>2 DEF checkRateLimit_daily, At
      <3>2. k.list = call[c].seen /\ k.daily = limits.daily
        OBVIOUS
      <3> HIDE DEF k
      <3>3. /\ CallShape' /\ call'[c].at = "count" /\ call'[c].seen = k
            /\ call'[c].id = call[c].id /\ call'[c].arg = call[c].arg
            /\ \A d \in Calls \ {c} : call'[d] = call[d]
        BY <1>0, <3>1 DEF CallShape, Fields
      <3>4. /\ call[c].seen \in Lists /\ call[c].id \in Moments /\ call[c].id <= limits.now
            /\ \A t \in Moments : t > call[c].id => call[c].seen[t] = 0
            /\ call[c].arg = Between(call[c].seen, call[c].id - Window, LastMoment)
            /\ Count(call[c].arg) < Limit
        BY <3>1 DEF RateInv, RateCall
      <3>5. limits.daily < DailyQuota
        BY <1>0, <2>2
      <3>6. RateCall(call[c])'
        BY <1>0, <3>1, <3>2, <3>3, <3>4, <3>5 DEF RateCall
      <3>7. CallShape' /\ \A d \in Calls : RateCall(call[d])'
        <4>1. limits'.now >= limits.now /\ limits'.now \in Nat
          BY <1>0, <3>1
        <4>2. QED
          BY <1>1, <3>3, <3>6, <4>1
      <3>8. QED
        BY <1>2, <3>1, <3>7
    <2>3. QED
      BY <2>1, <2>2
  <1>6. ASSUME NEW c \in Calls, checkRateLimit_count(c) PROVE RateInv'
    <2> DEFINE list == call[c].seen.list
               n == call[c].seen.daily
    <2>1. /\ call[c].at = "count" /\ call' = [call EXCEPT ![c].at = "push", ![c].seen = list]
          /\ limits' = [limits EXCEPT !.daily = n + 1, !.charged = limits.charged + 1]
          /\ raced' = (raced \/ limits.daily # n)
      BY <1>0, <1>6 DEF checkRateLimit_count, At, LimitsState
    <2>2. RateCall(call[c]) /\ n \in Nat /\ n < DailyQuota
      BY <2>1 DEF RateInv, RateCall
    <2> HIDE DEF list, n
    <2>3. /\ CallShape' /\ call'[c].at = "push" /\ call'[c].seen = list
          /\ call'[c].id = call[c].id /\ call'[c].arg = call[c].arg
          /\ \A d \in Calls \ {c} : call'[d] = call[d]
      BY <1>0, <2>1 DEF CallShape, Fields
    <2>4. /\ limits' \in LimitsState /\ limits'.now = limits.now
          /\ limits'.timestamps = limits.timestamps /\ limits'.admitted = limits.admitted
          /\ limits'.daily = n + 1 /\ limits'.charged = limits.charged + 1
      <3> DEFINE p == n + 1
                 q == limits.charged + 1
      <3>1. p \in Nat /\ q \in Nat /\ limits' = [limits EXCEPT !.daily = p, !.charged = q]
        BY <1>0, <2>1, <2>2
      <3> HIDE DEF p, q
      <3>2. QED
        BY <1>0, <3>1 DEF LimitsState, p, q
    <2>5. RateCall(call[c])'
      BY <2>1, <2>2, <2>3, <2>4 DEF RateCall, list
    <2>6. CallShape' /\ \A d \in Calls : RateCall(call[d])'
      BY <1>0, <1>1, <2>3, <2>4, <2>5
    <2>7. ASSUME ~raced' PROVE (WindowsHold /\ DailyHolds /\ \E m \in Moments : LastIs(m))'
      <3>1. ~raced /\ limits.daily = n
        BY <1>0, <2>1, <2>7
      <3>2. limits.daily = limits.charged /\ WindowsHold /\ \E m \in Moments : LastIs(m)
        BY <3>1 DEF RateInv, DailyHolds
      <3>3. DailyHolds'
        BY <1>0, <2>2, <2>4, <3>1, <3>2 DEF DailyHolds
      <3>4. QED
        BY <2>4, <3>2, <3>3 DEF WindowsHold, LastIs
    <2>8. raced' \in BOOLEAN
      BY <2>1
    <2>9. QED
      BY <2>4, <2>6, <2>7, <2>8 DEF RateInv
  <1>7. ASSUME resetUserLimit PROVE RateInv'
    <2>1. /\ limits' \in LimitsState /\ limits'.now = limits.now
          /\ limits'.timestamps = limits.timestamps /\ limits'.admitted = limits.admitted
          /\ limits'.daily = 0 /\ limits'.charged = 0 /\ raced' = raced /\ call' = call
      BY <1>0, <1>7 DEF resetUserLimit, reqVars, LimitsState
    <2>2. CallShape' /\ \A d \in Calls : RateCall(call[d])'
      BY <2>1 DEF RateInv, RateCall, CallShape
    <2>3. QED
      BY <2>1, <2>2 DEF RateInv, WindowsHold, DailyHolds, LastIs
  <1>8. ASSUME TimePasses PROVE RateInv'
    <2>1. /\ limits' \in LimitsState /\ limits'.now = limits.now + 1
          /\ limits'.timestamps = limits.timestamps /\ limits'.admitted = limits.admitted
          /\ limits'.daily = limits.daily /\ limits'.charged = limits.charged
          /\ raced' = raced /\ call' = call
      <3> DEFINE n == limits.now + 1
      <3>1. n \in Moments /\ limits' = [limits EXCEPT !.now = n]
        BY <1>0, <1>8 DEF TimePasses, Moments, LimitsState
      <3> HIDE DEF n
      <3>2. QED
        BY <1>0, <1>8, <3>1 DEF TimePasses, reqVars, LimitsState, n
    <2>2. CallShape' /\ \A d \in Calls : RateCall(call[d])'
      <3>1. ASSUME NEW d \in Calls PROVE RateCall(call[d])'
        <4>1. RateCall(call[d])
          BY DEF RateInv
        <4>2. QED
          BY <1>0, <2>1, <4>1 DEF RateCall
      <3>2. QED
        BY <1>0, <2>1, <3>1 DEF CallShape
    <2>3. \A n \in Moments : LastIs(n) => LastIs(n)'
      BY <1>0, <2>1 DEF LastIs
    <2>4. QED
      BY <1>0, <2>1, <2>2, <2>3 DEF RateInv, WindowsHold, DailyHolds
  <1>9. ASSUME NEW c \in Calls, checkRateLimit_push(c) PROVE RateInv'
    <2>0. PICK n \in Moments : n = call[c].id
      BY <1>9 DEF RateInv, RateCall, checkRateLimit_push, At
    <2> DEFINE list == call[c].seen
               kept == call[c].arg
               stamps == [kept EXCEPT ![n] = kept[n] + 1]
               let == [limits.admitted EXCEPT ![n] = limits.admitted[n] + 1]
    <2>1. /\ call[c].at = "push" /\ Ends(c)
          /\ raced' = (raced \/ list # limits.timestamps)
          /\ limits' = [limits EXCEPT !.timestamps = stamps, !.admitted = let]
      BY <1>0, <1>9, <2>0 DEF checkRateLimit_push, At, Trusts, LimitsState
    <2>2. /\ list \in Lists /\ n \in Moments /\ n <= limits.now
          /\ \A t \in Moments : t > n => list[t] = 0
          /\ kept = Between(list, n - Window, LastMoment)
          /\ Count(kept) < Limit
      BY <2>0, <2>1 DEF RateInv, RateCall
    <2>3. /\ kept \in Lists /\ Count(kept) \in Nat
          /\ \A t \in Moments : kept[t] = IF n - Window < t THEN list[t] ELSE 0
      BY <1>0, <2>2, BetweenType
    <2>4. stamps \in Lists /\ Count(stamps) = Count(kept) + 1 /\ let \in Lists
      BY <1>0, <2>2, <2>3, CountAdds
    <2>5. \A t \in Moments :
            /\ stamps[t] = IF t = n THEN kept[t] + 1 ELSE kept[t]
            /\ let[t] = IF t = n THEN limits.admitted[t] + 1 ELSE limits.admitted[t]
            /\ kept[t] \in Nat /\ limits.admitted[t] \in Nat /\ list[t] \in Nat
      BY <1>0, <2>2, <2>3 DEF Lists
    <2> HIDE DEF list, kept, stamps, let
    <2>6. /\ limits' \in LimitsState /\ limits'.now = limits.now
          /\ limits'.timestamps = stamps /\ limits'.admitted = let
          /\ limits'.daily = limits.daily /\ limits'.charged = limits.charged
      BY <1>0, <2>1, <2>4 DEF LimitsState
    <2>7. CallShape' /\ \A d \in Calls : RateCall(call[d])'
      <3>1. /\ CallShape' /\ call'[c].at = "idle"
            /\ \A d \in Calls \ {c} : call'[d] = call[d]
        BY <1>0, <2>1, EndsEffect
      <3>2. RateCall(call[c])'
        BY <3>1 DEF RateCall
      <3>3. QED
        BY <1>0, <1>1, <2>6, <3>1, <3>2
    <2>8. \A t \in Moments : t > limits'.now => stamps[t] = 0
      BY <1>0, <2>2, <2>3, <2>5, <2>6
    <2>9. ASSUME ~raced' PROVE (WindowsHold /\ DailyHolds /\ \E m \in Moments : LastIs(m))'
      <3>1. ~raced /\ limits.timestamps = list /\ WindowsHold /\ DailyHolds
        BY <1>0, <2>1, <2>9 DEF RateInv
      <3>2. PICK last \in Moments : LastIs(last)
        BY <3>1 DEF RateInv
      <3>3. \A t \in Moments : list[t] = IF last - Window < t THEN limits.admitted[t] ELSE 0
        BY <1>0, <3>1, <3>2, BetweenType DEF LastIs
      <3>4. last <= n \/ \A t \in Moments : limits.admitted[t] = 0
        BY <1>0, <2>2, <2>5, <3>2, <3>3 DEF LastIs
      <3>5. \A t \in Moments : /\ t > n => limits.admitted[t] = 0
                               /\ kept[t] = IF n - Window < t THEN limits.admitted[t] ELSE 0
        BY <1>0, <2>2, <2>3, <2>5, <3>2, <3>3, <3>4 DEF LastIs
      <3>6. \A t \in Moments : /\ t > n => let[t] = 0
                               /\ stamps[t] = IF n - Window < t THEN let[t] ELSE 0
        BY <1>0, <2>2, <2>5, <3>5
      <3>7. stamps = Between(let, n - Window, LastMoment)
        <4>1. stamps = [t \in Moments |-> stamps[t]]
          BY <2>4 DEF Lists
        <4>2. QED
          BY <1>0, <3>6, <4>1 DEF Between
      <3>8. LastIs(n)'
        BY <1>0, <2>2, <2>5, <2>6, <3>6, <3>7 DEF LastIs
      <3>9. ASSUME NEW m \in Moments PROVE Count(Between(let, m - Window, m)) <= Limit
        <4> DEFINE new == Between(let, m - Window, m)
                   old == Between(limits.admitted, m - Window, m)
        <4>1. /\ new \in Lists /\ old \in Lists
              /\ \A t \in Moments :
                   /\ new[t] = IF m - Window < t /\ t <= m THEN let[t] ELSE 0
                   /\ old[t] = IF m - Window < t /\ t <= m THEN limits.admitted[t] ELSE 0
          BY <1>0, <2>4, BetweenType
        <4>2. Count(new) \in Nat /\ Count(old) \in Nat /\ Count(old) <= Limit
          BY <1>0, <2>4, <3>1, BetweenType DEF WindowsHold
        <4> HIDE DEF new, old
        <4>3. CASE m - Window < n /\ n <= m
          <5>1. \A t \in Moments : new[t] <= stamps[t]
            BY <1>0, <2>2, <2>5, <3>6, <4>1, <4>3
          <5>2. Count(new) <= Count(stamps)
            BY <2>4, <4>1, <5>1, CountMonotone
          <5>3. QED
            BY <2>2, <2>3, <2>4, <4>2, <5>2 DEF new
        <4>4. CASE ~(m - Window < n /\ n <= m)
          <5>1. \A t \in Moments : new[t] <= old[t]
            BY <1>0, <2>5, <4>1, <4>4
          <5>2. Count(new) <= Count(old)
            BY <4>1, <5>1, CountMonotone
          <5>3. QED
            BY <4>2, <5>2 DEF new
        <4>5. QED
          BY <4>3, <4>4
      <3>10. WindowsHold'
        BY <2>6, <3>9 DEF WindowsHold
      <3>11. DailyHolds'
        BY <2>6, <3>1 DEF DailyHolds
      <3>12. QED
        BY <2>2, <3>8, <3>10, <3>11
    <2>10. raced' \in BOOLEAN
      BY <2>1
    <2>11. QED
      BY <2>6, <2>7, <2>8, <2>9, <2>10 DEF RateInv
  <1>10. ASSUME NEW c \in Calls, Fails(c), UNCHANGED limits PROVE RateInv'
    BY <1>0, <1>4, <1>10, EndsEffect DEF Fails
  <1>11. QED
    BY <1>3, <1>5, <1>6, <1>7, <1>8, <1>9, <1>10 DEF RateNext

LEMMA LimitsHoldIs ==
    ASSUME ~raced => WindowsHold /\ DailyHolds /\ (MaxMembers > 0 => members <= MaxMembers)
    PROVE  LimitsHold
  BY RateAssumption DEF LimitsHold, WindowsHold, DailyHolds, Between

----------------------------------------------------------------------------
\* When one call moves, a set of calls gains or loses at most that one.
LEMMA OneCallMoves ==
    ASSUME NEW c \in Calls, NEW S \in SUBSET Calls, NEW T \in SUBSET Calls,
           \A d \in Calls \ {c} : d \in S <=> d \in T
    PROVE  /\ Cardinality(S) \in Nat /\ Cardinality(T) \in Nat
           /\ (c \in S <=> c \in T) => Cardinality(T) = Cardinality(S)
           /\ c \in T /\ c \notin S => Cardinality(T) = Cardinality(S) + 1
           /\ c \in S /\ c \notin T => Cardinality(S) = Cardinality(T) + 1
  <1>1. IsFiniteSet(S) /\ IsFiniteSet(T)
    BY RequestsAssumption, FS_Subset
  <1>2. Cardinality(S) \in Nat /\ Cardinality(T) \in Nat
    BY <1>1, FS_CardinalityType
  <1>3. (c \in S <=> c \in T) => S = T
    OBVIOUS
  <1>4. ASSUME c \in T, c \notin S PROVE Cardinality(T) = Cardinality(S) + 1
    <2>1. T = S \cup {c}
      BY <1>4
    <2>2. QED
      BY <1>1, <1>4, <2>1, FS_AddElement
  <1>5. ASSUME c \in S, c \notin T PROVE Cardinality(S) = Cardinality(T) + 1
    <2>1. S = T \cup {c}
      BY <1>5
    <2>2. QED
      BY <1>1, <1>5, <2>1, FS_AddElement
  <1>6. QED
    BY <1>2, <1>3, <1>4, <1>5

----------------------------------------------------------------------------
(* scheduled notifications *)

NoticeStatus == {"pending", "sent", "cancelled"}

NoticesState ==
  [next : 0 .. MaxNotices, due : SUBSET Notices, status : [Notices -> NoticeStatus],
   shown : [Notices -> Nat], unrecorded : [Notices -> Nat],
   recorded : SUBSET Notices, cancelled : SUBSET Notices]

NoticeAddsUp(n) ==
  notices.shown[n] = notices.unrecorded[n] + Cardinality(Marking(n))
                       + (IF n \in notices.recorded THEN 1 ELSE 0)

\* What a call in state k may assume: its copies are of pending notifications.
NoticeCall(k) ==
  /\ k.at \in {"idle", "create", "mark", "put_back", "cancel"}
  /\ k.at \in {"create", "mark", "put_back"} =>
       k.arg \subseteq notices.due /\ \A n \in k.arg : k.seen[n] = "pending"
  /\ k.at \in {"mark", "put_back"} => k.id \in notices.due /\ k.seen[k.id] = "pending"
  /\ k.at = "mark" => notices.shown[k.id] > 0
  /\ k.at = "cancel" => k.id \in Notices

NoticesInv ==
  /\ CallShape /\ raced \in BOOLEAN
  /\ notices \in NoticesState
  /\ \A c \in Calls : NoticeCall(call[c])
  /\ \A n \in Notices : /\ notices.shown[n] > 0 => n \in notices.due
                        /\ notices.status[n] = "sent" => notices.shown[n] > 0
  /\ ~raced => \A n \in Notices :
       /\ NoticeAddsUp(n)
       /\ n \in notices.recorded => notices.status[n] # "pending"
       /\ n \in notices.cancelled => notices.status[n] = "cancelled"

LEMMA NoticesInitInv == RequestsInit /\ NoticesInit => NoticesInv
  <1> SUFFICES ASSUME RequestsInit, NoticesInit PROVE NoticesInv
    OBVIOUS
  <1>1. notices \in NoticesState
    BY NoticesAssumption DEF NoticesInit, NoticesState, NoticeStatus
  <1>2. /\ notices.recorded = {} /\ notices.cancelled = {}
        /\ \A n \in Notices : /\ notices.shown[n] = 0 /\ notices.unrecorded[n] = 0
                              /\ notices.status[n] = "pending"
    BY DEF NoticesInit
  <1>3. raced = FALSE /\ CallShape /\ \A c \in Calls : call[c].at = "idle"
    BY InitCalls DEF RequestsInit, At
  <1>4. \A n : Marking(n) = {} /\ Cardinality({}) = 0
    BY <1>3, FS_EmptySet DEF Marking, At
  <1>5. ASSUME NEW n \in Notices PROVE NoticeAddsUp(n)
    <2>1. Cardinality(Marking(n)) = 0
      BY <1>4, Zenon
    <2>2. QED
      BY <1>2, <2>1 DEF NoticeAddsUp
  <1>6. \A c \in Calls : NoticeCall(call[c])
    BY <1>3 DEF NoticeCall
  <1>7. \A n \in Notices : ~(notices.shown[n] > 0) /\ notices.status[n] # "sent"
    BY <1>2
  <1> HIDE DEF NoticesInit, NoticesState
  <1>8. QED
    BY <1>1, <1>2, <1>3, <1>5, <1>6, <1>7 DEF NoticesInv

LEMMA MarkingMoves ==
    ASSUME NEW c \in Calls, \A d \in Calls \ {c} : call'[d] = call[d], NEW n
    PROVE  /\ Cardinality(Marking(n)) \in Nat /\ Cardinality(Marking(n)') \in Nat
           /\ (call[c].at = "mark" /\ call[c].id = n <=> call'[c].at = "mark" /\ call'[c].id = n)
                => Cardinality(Marking(n)') = Cardinality(Marking(n))
           /\ ~(call[c].at = "mark" /\ call[c].id = n)
              /\ call'[c].at = "mark" /\ call'[c].id = n
                => Cardinality(Marking(n)') = Cardinality(Marking(n)) + 1
           /\ call[c].at = "mark" /\ call[c].id = n
              /\ ~(call'[c].at = "mark" /\ call'[c].id = n)
                => Cardinality(Marking(n)) = Cardinality(Marking(n)') + 1
  <1>1. Marking(n) \subseteq Calls /\ Marking(n)' \subseteq Calls
    BY DEF Marking
  <1>2. \A d \in Calls \ {c} : d \in Marking(n) <=> d \in Marking(n)'
    BY DEF Marking, At
  <1>3. /\ c \in Marking(n) <=> call[c].at = "mark" /\ call[c].id = n
        /\ c \in Marking(n)' <=> call'[c].at = "mark" /\ call'[c].id = n
    BY DEF Marking, At
  <1>4. PICK S \in SUBSET Calls, T \in SUBSET Calls : S = Marking(n) /\ T = Marking(n)'
    BY <1>1
  <1>5. QED
    BY <1>2, <1>3, <1>4, OneCallMoves

LEMMA NoticesStep == NoticesInv /\ NoticesNext => NoticesInv'
  <1> SUFFICES ASSUME NoticesInv, NoticesNext PROVE NoticesInv'
    OBVIOUS
  <1>0. /\ CallShape /\ raced \in BOOLEAN /\ notices \in NoticesState
        /\ \A d \in Calls : NoticeCall(call[d])
        /\ \A n \in Notices : /\ notices.shown[n] > 0 => n \in notices.due
                              /\ notices.status[n] = "sent" => notices.shown[n] > 0
        /\ ~raced => \A n \in Notices :
             /\ NoticeAddsUp(n)
             /\ n \in notices.recorded => notices.status[n] # "pending"
             /\ n \in notices.cancelled => notices.status[n] = "cancelled"
    BY DEF NoticesInv
  <1> USE DEF At
  <1>1. ASSUME schedule \/ \E n \in Notices : NoticeComesDue(n) PROVE NoticesInv'
    <2>1. PICK next \in 0 .. MaxNotices, due \in SUBSET Notices :
            /\ notices' = [notices EXCEPT !.next = next, !.due = due]
            /\ notices.due \subseteq due
      <3>1. CASE schedule
        <4>1. notices.next + 1 \in 0 .. MaxNotices
          BY <1>0, <3>1, NoticesAssumption DEF schedule, NoticesState
        <4>2. notices' = [notices EXCEPT !.next = notices.next + 1, !.due = notices.due]
          BY <1>0, <3>1 DEF schedule, NoticesState
        <4>3. QED
          BY <1>0, <4>1, <4>2 DEF NoticesState
      <3>2. CASE \E n \in Notices : NoticeComesDue(n)
        <4>0. PICK n \in Notices : notices' = [notices EXCEPT !.due = notices.due \cup {n}]
          BY <3>2 DEF NoticeComesDue
        <4>1. PICK due : notices' = [notices EXCEPT !.due = due]
                         /\ due \in SUBSET Notices /\ notices.due \subseteq due
          <5>1. notices.due \cup {n} \in SUBSET Notices
            BY <1>0 DEF NoticesState
          <5>2. QED
            BY <4>0, <5>1
        <4>2. notices' = [notices EXCEPT !.next = notices.next, !.due = due]
          BY <1>0, <4>1 DEF NoticesState
        <4>3. QED
          BY <1>0, <4>1, <4>2 DEF NoticesState
      <3>3. QED
        BY <1>1, <3>1, <3>2
    <2>2. call' = call /\ raced' = raced
      BY <1>1 DEF schedule, NoticeComesDue, reqVars
    <2>3. /\ notices' \in NoticesState /\ notices'.due = due
          /\ notices'.status = notices.status /\ notices'.shown = notices.shown
          /\ notices'.unrecorded = notices.unrecorded
          /\ notices'.recorded = notices.recorded /\ notices'.cancelled = notices.cancelled
      BY <1>0, <2>1 DEF NoticesState
    <2>4. CallShape' /\ \A n : Marking(n)' = Marking(n)
      BY <1>0, <2>2 DEF CallShape, Marking
    <2>5. \A d \in Calls : NoticeCall(call[d])'
      BY <1>0, <2>1, <2>2, <2>3 DEF NoticeCall
    <2>6. \A n \in Notices : NoticeAddsUp(n) => NoticeAddsUp(n)'
      BY <2>3, <2>4 DEF NoticeAddsUp
    <2>7. QED
      BY <1>0, <2>1, <2>2, <2>3, <2>4, <2>5, <2>6 DEF NoticesInv
  <1>2. ASSUME NEW c \in Calls, notices' = notices, raced' = raced, CallShape',
               \A d \in Calls \ {c} : call'[d] = call[d],
               call[c].at = "idle", call'[c].at # "mark", NoticeCall(call'[c])
        PROVE  NoticesInv'
    <2>1. \A n \in Notices : NoticeAddsUp(n) => NoticeAddsUp(n)'
      <3>1. \A n : Cardinality(Marking(n)') = Cardinality(Marking(n))
        BY <1>2, MarkingMoves
      <3>2. QED
        BY <1>2, <3>1 DEF NoticeAddsUp
    <2>2. \A d \in Calls : NoticeCall(call[d])'
      BY <1>0, <1>2 DEF NoticeCall
    <2>3. QED
      BY <1>0, <1>2, <2>1, <2>2 DEF NoticesInv
  <1>3. ASSUME NEW c \in Calls, processScheduled(c) PROVE NoticesInv'
    <2> DEFINE due == {n \in Scheduled \cap notices.due : notices.status[n] = "pending"}
               seen == [n \in due |-> notices.status[n]]
    <2>1. Reads(c, "create", None, seen, due) /\ notices' = notices
      BY <1>3 DEF processScheduled
    <2>2. due \subseteq notices.due /\ \A n \in due : seen[n] = "pending"
      OBVIOUS
    <2> HIDE DEF due, seen
    <2>3. /\ CallShape' /\ raced' = raced /\ call[c].at = "idle" /\ call'[c].at = "create"
          /\ call'[c].arg = due /\ call'[c].seen = seen
          /\ \A d \in Calls \ {c} : call'[d] = call[d]
      BY <1>0, <2>1, ReadsEffect
    <2>4. NoticeCall(call'[c])
      BY <2>2, <2>3 DEF NoticeCall
    <2>5. QED
      BY <1>2, <2>1, <2>3, <2>4
  <1>4. ASSUME NEW c \in Calls, NEW n \in Notices, cancelScheduled(c, n) PROVE NoticesInv'
    <2>1. /\ CallShape' /\ raced' = raced /\ call[c].at = "idle" /\ call'[c].at = "cancel"
          /\ call'[c].id = n /\ notices' = notices
          /\ \A d \in Calls \ {c} : call'[d] = call[d]
      BY <1>0, <1>4, ReadsEffect DEF cancelScheduled
    <2>2. NoticeCall(call'[c])
      BY <2>1 DEF NoticeCall
    <2>3. QED
      BY <1>2, <2>1, <2>2
  <1>5. ASSUME NEW c \in Calls, NEW n \in Notices, NEW shown \in BOOLEAN, NEW found \in BOOLEAN,
               processScheduled_create(c, n, shown, found)
        PROVE  NoticesInv'
    <2> DEFINE step == IF found THEN "mark" ELSE "put_back"
               rest == call[c].arg \ {n}
               s == [notices.shown EXCEPT ![n] = IF shown THEN @ + 1 ELSE @]
               u == [notices.unrecorded EXCEPT ![n] = IF shown /\ ~found THEN @ + 1 ELSE @]
    <2>1. /\ call[c].at = "create" /\ n \in call[c].arg /\ (found => shown)
          /\ notices' = [notices EXCEPT !.shown = s, !.unrecorded = u]
          /\ raced' = (raced \/ notices.status[n] # call[c].seen[n])
          /\ Waits(c, step, n, call[c].seen, rest)
      BY <1>5 DEF processScheduled_create
    <2>2. /\ n \in notices.due /\ rest \subseteq notices.due
          /\ call[c].seen[n] = "pending" /\ \A m \in rest : call[c].seen[m] = "pending"
      BY <1>0, <2>1 DEF NoticeCall
    <2>3. /\ s \in [Notices -> Nat] /\ u \in [Notices -> Nat]
          /\ s[n] = notices.shown[n] + (IF shown THEN 1 ELSE 0)
          /\ u[n] = notices.unrecorded[n] + (IF shown /\ ~found THEN 1 ELSE 0)
          /\ \A m \in Notices \ {n} : s[m] = notices.shown[m] /\ u[m] = notices.unrecorded[m]
          /\ \A m \in Notices : notices.shown[m] \in Nat /\ notices.unrecorded[m] \in Nat
      BY <1>0 DEF NoticesState
    <2> HIDE DEF s, u, rest
    <2>4. /\ CallShape' /\ call'[c].at = step /\ call'[c].id = n /\ call'[c].arg = rest
          /\ call'[c].seen = call[c].seen /\ \A d \in Calls \ {c} : call'[d] = call[d]
      BY <1>0, <2>1, WaitsEffect
    <2>5. /\ notices' \in NoticesState /\ notices'.shown = s /\ notices'.unrecorded = u
          /\ notices'.due = notices.due /\ notices'.status = notices.status
          /\ notices'.recorded = notices.recorded /\ notices'.cancelled = notices.cancelled
      BY <1>0, <2>1, <2>3 DEF NoticesState
    <2>6. \A m \in Notices : notices.shown[m] > 0 => s[m] > 0
      BY <2>3
    <2>7. found => s[n] > 0
      BY <2>1, <2>3
    <2>8. \A d \in Calls : NoticeCall(call[d])'
      <3>1. ASSUME NEW d \in Calls \ {c} PROVE NoticeCall(call[d])'
        <4>1. NoticeCall(call[d]) /\ call'[d] = call[d]
          BY <1>0, <2>4, <3>1
        <4>2. notices.due \subseteq Notices
          BY <1>0 DEF NoticesState
        <4>3. QED
          BY <2>5, <2>6, <4>1, <4>2 DEF NoticeCall
      <3>2. NoticeCall(call[c])'
        BY <2>2, <2>4, <2>5, <2>7 DEF NoticeCall
      <3>3. QED
        BY <3>1, <3>2
    <2>9. ASSUME NEW m \in Notices, NoticeAddsUp(m) PROVE NoticeAddsUp(m)'
      <3>1. Cardinality(Marking(m)) \in Nat
        BY <2>4, MarkingMoves
      <3>2. CASE m = n /\ found
        <4>1. Cardinality(Marking(m)') = Cardinality(Marking(m)) + 1
          BY <2>1, <2>4, <3>2, MarkingMoves
        <4>2. QED
          BY <2>1, <2>3, <2>5, <2>9, <3>1, <3>2, <4>1 DEF NoticeAddsUp
      <3>3. CASE m # n \/ ~found
        <4>1. Cardinality(Marking(m)') = Cardinality(Marking(m))
          BY <2>1, <2>4, <3>3, MarkingMoves
        <4>2. QED
          BY <2>1, <2>3, <2>5, <2>9, <3>1, <3>3, <4>1 DEF NoticeAddsUp
      <3>4. QED
        BY <3>2, <3>3
    <2>10. raced' \in BOOLEAN /\ (~raced' => ~raced)
      BY <1>0, <2>1
    <2>11. \A m \in Notices : /\ notices'.shown[m] > 0 => m \in notices'.due
                              /\ notices'.status[m] = "sent" => notices'.shown[m] > 0
      BY <1>0, <2>2, <2>3, <2>5, <2>6
    <2>12. QED
      BY <1>0, <2>4, <2>5, <2>8, <2>9, <2>10, <2>11 DEF NoticesInv
  <1>6. ASSUME NEW c \in Calls, processScheduled_save(c) PROVE NoticesInv'
    <2>0. PICK n \in Notices : n = call[c].id /\ n \in notices.due /\ call[c].seen[n] = "pending"
      BY <1>0, <1>6 DEF processScheduled_save, NoticeCall, NoticesState
    <2>1. PICK sent \in BOOLEAN : sent = At(c, "mark")
      OBVIOUS
    <2> DEFINE st == [notices.status EXCEPT ![n] = IF sent THEN "sent" ELSE "pending"]
               rec == IF sent THEN notices.recorded \cup {n} ELSE notices.recorded
    <2>2. /\ call[c].at = (IF sent THEN "mark" ELSE "put_back")
          /\ notices' = [notices EXCEPT !.status = st, !.recorded = rec]
          /\ raced' = (raced \/ notices.status[n] # "pending")
          /\ IF call[c].arg = {} THEN Ends(c) ELSE Moves(c, "create")
      BY <1>6, <2>0, <2>1 DEF processScheduled_save
    <2>3. /\ st \in [Notices -> NoticeStatus] /\ rec \in SUBSET Notices
          /\ st[n] = (IF sent THEN "sent" ELSE "pending")
          /\ \A m \in Notices \ {n} : st[m] = notices.status[m]
      BY <1>0 DEF NoticesState, NoticeStatus
    <2>4. /\ sent => notices.shown[n] > 0
          /\ call[c].arg \subseteq notices.due /\ \A m \in call[c].arg : call[c].seen[m] = "pending"
      BY <1>0, <2>0, <2>1, <2>2 DEF NoticeCall
    <2> HIDE DEF st
    <2>5. /\ notices' \in NoticesState /\ notices'.status = st /\ notices'.recorded = rec
          /\ notices'.shown = notices.shown /\ notices'.unrecorded = notices.unrecorded
          /\ notices'.due = notices.due /\ notices'.cancelled = notices.cancelled
      <3> HIDE DEF rec
      <3>1. QED
        BY <1>0, <2>2, <2>3 DEF NoticesState
    <2>6. /\ CallShape' /\ call'[c].at \in {"idle", "create"}
          /\ call'[c].at = "create" => call'[c].arg = call[c].arg /\ call'[c].seen = call[c].seen
          /\ \A d \in Calls \ {c} : call'[d] = call[d]
      BY <1>0, <2>2, EndsEffect, MovesEffect
    <2>7. \A d \in Calls : NoticeCall(call[d])'
      <3>1. ASSUME NEW d \in Calls \ {c} PROVE NoticeCall(call[d])'
        BY <1>0, <2>5, <2>6, <3>1 DEF NoticeCall
      <3>2. NoticeCall(call[c])'
        BY <2>4, <2>5, <2>6 DEF NoticeCall
      <3>3. QED
        BY <3>1, <3>2
    <2>8. raced' \in BOOLEAN /\ (~raced' => ~raced /\ notices.status[n] = "pending")
      BY <1>0, <2>2
    <2>9. ASSUME ~raced', NEW m \in Notices PROVE NoticeAddsUp(m)'
      <3>1. NoticeAddsUp(m) /\ n \notin notices.recorded
        BY <1>0, <2>8, <2>9
      <3>2. /\ Cardinality(Marking(m)) \in Nat /\ Cardinality(Marking(m)') \in Nat
            /\ notices.unrecorded[m] \in Nat
        BY <1>0, <2>6, MarkingMoves DEF NoticesState
      <3>3. CASE m = n /\ sent
        <4>1. Cardinality(Marking(m)) = Cardinality(Marking(m)') + 1
          BY <2>0, <2>2, <2>6, <3>3, MarkingMoves
        <4>2. QED
          BY <2>5, <3>1, <3>2, <3>3, <4>1 DEF NoticeAddsUp
      <3>4. CASE m # n \/ ~sent
        <4>1. Cardinality(Marking(m)') = Cardinality(Marking(m))
          BY <2>0, <2>2, <2>6, <3>4, MarkingMoves
        <4>2. QED
          BY <2>5, <3>1, <3>2, <3>4, <4>1 DEF NoticeAddsUp
      <3>5. QED
        BY <3>3, <3>4
    <2>10. ASSUME NEW m \in Notices, notices'.status[m] = "sent" PROVE notices'.shown[m] > 0
      BY <1>0, <2>3, <2>4, <2>5, <2>10
    <2>11. ASSUME ~raced', NEW m \in Notices
           PROVE  /\ m \in notices'.recorded => notices'.status[m] # "pending"
                  /\ m \in notices'.cancelled => notices'.status[m] = "cancelled"
      BY <1>0, <2>3, <2>5, <2>8, <2>11
    <2>12. QED
      BY <1>0, <2>5, <2>6, <2>7, <2>8, <2>9, <2>10, <2>11 DEF NoticesInv
  <1>7. ASSUME NEW c \in Calls, cancelScheduled_save(c) PROVE NoticesInv'
    <2>0. PICK n \in Notices : n = call[c].id
      BY <1>0, <1>7 DEF cancelScheduled_save, NoticeCall
    <2> DEFINE st == [notices.status EXCEPT ![n] = "cancelled"]
               gone == notices.cancelled \cup {n}
    <2>1. /\ call[c].at = "cancel" /\ notices' = [notices EXCEPT !.status = st, !.cancelled = gone]
          /\ raced' = (raced \/ call[c].seen # notices.status[n])
      BY <1>7, <2>0 DEF cancelScheduled_save, Trusts
    <2>2. /\ st \in [Notices -> NoticeStatus] /\ st[n] = "cancelled"
          /\ \A m \in Notices \ {n} : st[m] = notices.status[m]
          /\ gone \in SUBSET Notices
      BY <1>0 DEF NoticesState, NoticeStatus
    <2> HIDE DEF st
    <2>3. /\ notices' \in NoticesState /\ notices'.status = st /\ notices'.cancelled = gone
          /\ notices'.shown = notices.shown /\ notices'.unrecorded = notices.unrecorded
          /\ notices'.due = notices.due /\ notices'.recorded = notices.recorded
      <3> HIDE DEF gone
      <3>1. QED
        BY <1>0, <2>1, <2>2 DEF NoticesState
    <2>4. CallShape' /\ call'[c].at = "idle" /\ \A d \in Calls \ {c} : call'[d] = call[d]
      BY <1>0, <1>7, EndsEffect DEF cancelScheduled_save
    <2>5. \A d \in Calls : NoticeCall(call[d])'
      <3>1. ASSUME NEW d \in Calls \ {c} PROVE NoticeCall(call[d])'
        BY <1>0, <2>3, <2>4, <3>1 DEF NoticeCall
      <3>2. NoticeCall(call[c])'
        BY <2>4 DEF NoticeCall
      <3>3. QED
        BY <3>1, <3>2
    <2>6. \A m \in Notices : NoticeAddsUp(m) => NoticeAddsUp(m)'
      <3>1. \A m : Cardinality(Marking(m)') = Cardinality(Marking(m))
        BY <2>1, <2>4, MarkingMoves
      <3>2. QED
        BY <2>3, <3>1 DEF NoticeAddsUp
    <2>7. raced' \in BOOLEAN /\ (~raced' => ~raced)
      BY <1>0, <2>1
    <2>8. \A m \in Notices :
            /\ notices'.status[m] = "sent" => notices'.shown[m] > 0
            /\ ~raced' /\ m \in notices'.recorded => notices'.status[m] # "pending"
            /\ ~raced' /\ m \in notices'.cancelled => notices'.status[m] = "cancelled"
      BY <1>0, <2>2, <2>3, <2>7
    <2>9. QED
      BY <1>0, <2>3, <2>4, <2>5, <2>6, <2>7, <2>8 DEF NoticesInv
  <1>8. ASSUME NEW c \in Calls, NoticeFails(c) PROVE NoticesInv'
    <2>1. /\ CallShape' /\ raced' = raced /\ call'[c].at = "idle"
          /\ \A d \in Calls \ {c} : call'[d] = call[d]
      BY <1>0, <1>8, EndsEffect DEF NoticeFails, Fails
    <2>2. CASE call[c].at = "mark"
      <3>0. PICK n \in Notices : n = call[c].id
        BY <1>0, <2>2 DEF NoticeCall, NoticesState
      <3> DEFINE u == [notices.unrecorded EXCEPT ![n] = @ + 1]
      <3>1. notices' = [notices EXCEPT !.unrecorded = u]
        BY <1>8, <2>2, <3>0 DEF NoticeFails
      <3>2. /\ u \in [Notices -> Nat] /\ u[n] = notices.unrecorded[n] + 1
            /\ \A m \in Notices \ {n} : u[m] = notices.unrecorded[m]
            /\ \A m \in Notices : notices.unrecorded[m] \in Nat
        BY <1>0 DEF NoticesState
      <3> HIDE DEF u
      <3>3. /\ notices' \in NoticesState /\ notices'.unrecorded = u
            /\ notices'.shown = notices.shown /\ notices'.status = notices.status
            /\ notices'.due = notices.due /\ notices'.recorded = notices.recorded
            /\ notices'.cancelled = notices.cancelled
        BY <1>0, <3>1, <3>2 DEF NoticesState
      <3>4. \A d \in Calls : NoticeCall(call[d])'
        <4>1. ASSUME NEW d \in Calls \ {c} PROVE NoticeCall(call[d])'
          BY <1>0, <2>1, <3>3, <4>1 DEF NoticeCall
        <4>2. NoticeCall(call[c])'
          BY <2>1 DEF NoticeCall
        <4>3. QED
          BY <4>1, <4>2
      <3>5. ASSUME NEW m \in Notices, NoticeAddsUp(m) PROVE NoticeAddsUp(m)'
        <4>1. Cardinality(Marking(m)) \in Nat /\ Cardinality(Marking(m)') \in Nat
          BY <2>1, MarkingMoves
        <4>2. CASE m = n
          <5>1. Cardinality(Marking(m)) = Cardinality(Marking(m)') + 1
            BY <2>1, <2>2, <3>0, <4>2, MarkingMoves
          <5>2. QED
            BY <3>2, <3>3, <3>5, <4>1, <4>2, <5>1 DEF NoticeAddsUp
        <4>3. CASE m # n
          <5>1. Cardinality(Marking(m)) = Cardinality(Marking(m)')
            BY <2>1, <2>2, <3>0, <4>3, MarkingMoves
          <5>2. QED
            BY <3>2, <3>3, <3>5, <4>1, <4>3, <5>1 DEF NoticeAddsUp
        <4>4. QED
          BY <4>2, <4>3
      <3>6. QED
        BY <1>0, <2>1, <3>3, <3>4, <3>5 DEF NoticesInv
    <2>3. CASE call[c].at # "mark"
      <3>1. notices' = notices
        BY <1>8, <2>3 DEF NoticeFails
      <3>2. \A n \in Notices : NoticeAddsUp(n) => NoticeAddsUp(n)'
        <4>1. \A n : Cardinality(Marking(n)') = Cardinality(Marking(n))
          BY <2>1, <2>3, MarkingMoves
        <4>2. QED
          BY <3>1, <4>1 DEF NoticeAddsUp
      <3>3. \A d \in Calls : NoticeCall(call[d])'
        BY <1>0, <2>1, <3>1 DEF NoticeCall
      <3>4. QED
        BY <1>0, <2>1, <3>1, <3>2, <3>3 DEF NoticesInv
    <2>4. QED
      BY <2>2, <2>3
  <1>9. QED
    BY <1>1, <1>3, <1>4, <1>5, <1>6, <1>7, <1>8 DEF NoticesNext

\* A notification that is no longer pending is at most cancelled.
LEMMA NoticesClose ==
    ASSUME NoticesInv, NoticesNext, ~raced', NEW n \in Notices, ClosedNotice(n)
    PROVE  notices'.status[n] \in {notices.status[n], "cancelled"}
  <1> USE DEF At, ClosedNotice, NoticesInv
  <1>0. notices \in NoticesState
    OBVIOUS
  <1>1. ASSUME notices'.status = notices.status PROVE notices'.status[n] = notices.status[n]
    BY <1>1
  <1>2. ASSUME schedule \/ \E m \in Notices : NoticeComesDue(m)
        PROVE  notices'.status = notices.status
    BY <1>0, <1>2 DEF schedule, NoticeComesDue, NoticesState
  <1>3. ASSUME NEW c \in Calls, NEW m \in Notices, NEW shown \in BOOLEAN, NEW found \in BOOLEAN,
               processScheduled_create(c, m, shown, found)
        PROVE  notices'.status = notices.status
    <2> DEFINE s == [notices.shown EXCEPT ![m] = IF shown THEN @ + 1 ELSE @]
               u == [notices.unrecorded EXCEPT ![m] = IF shown /\ ~found THEN @ + 1 ELSE @]
    <2>1. notices' = [notices EXCEPT !.shown = s, !.unrecorded = u]
      BY <1>3 DEF processScheduled_create
    <2> HIDE DEF s, u
    <2>2. QED
      BY <1>0, <2>1 DEF NoticesState
  <1>4. ASSUME NEW c \in Calls, NoticeFails(c) PROVE notices'.status = notices.status
    <2>1. PICK u : notices' = [notices EXCEPT !.unrecorded = u] \/ notices' = notices
      BY <1>4 DEF NoticeFails
    <2>2. QED
      BY <1>0, <2>1 DEF NoticesState
  <1>5. ASSUME NEW c \in Calls, processScheduled_save(c)
        PROVE  notices'.status[n] = notices.status[n]
    <2>0. PICK m \in Notices : m = call[c].id /\ call[c].seen[m] = "pending"
      BY <1>0, <1>5 DEF processScheduled_save, NoticeCall, NoticesState
    <2>1. notices.status[m] = "pending"
      BY <1>5, <2>0 DEF processScheduled_save
    <2>2. PICK v, rec : notices' = [notices EXCEPT !.status[m] = v, !.recorded = rec]
      BY <1>5, <2>0 DEF processScheduled_save
    <2>3. QED
      BY <1>0, <2>1, <2>2 DEF NoticesState
  <1>6. ASSUME NEW c \in Calls, cancelScheduled_save(c)
        PROVE  notices'.status[n] \in {notices.status[n], "cancelled"}
    <2>0. PICK m \in Notices : m = call[c].id
      BY <1>0, <1>6 DEF cancelScheduled_save, NoticeCall
    <2>1. PICK gone : notices' = [notices EXCEPT !.status[m] = "cancelled", !.cancelled = gone]
      BY <1>6, <2>0 DEF cancelScheduled_save
    <2>2. QED
      BY <1>0, <2>1 DEF NoticesState
  <1>7. QED
    BY <1>1, <1>2, <1>3, <1>4, <1>5, <1>6 DEF NoticesNext, processScheduled, cancelScheduled

----------------------------------------------------------------------------
(* accounts *)

UserRow ==
  [pii : BOOLEAN, password : Numbers \cup {None}, isVerified : BOOLEAN,
   verificationToken : Numbers \cup {None}, isBanned : BOOLEAN,
   mfaEnabled : BOOLEAN, mfaSecret : Numbers \cup {None}, mfaBackupCodes : SUBSET Codes]
ResetsState == [made : SUBSET Numbers, used : SUBSET Numbers]
ToldState ==
  [erased : BOOLEAN, banned : BOOLEAN, password : Numbers \cup {None}, verified : BOOLEAN,
   proven : SUBSET (Numbers \cup {None}), accepted : SUBSET Codes, again : BOOLEAN,
   applied : [Numbers -> Nat], unspent : [Numbers -> Nat]]

CodesTo(n) == (0 .. n) \X (1 .. CodesEach)

\* The codes a call in state k may still make, and all those it may bring into the row.
Own(k) ==
  IF k.at \in {"save", "verify", "resend", "enable", "disable", "regenerate"}
  THEN Batch(k.id) ELSE {}
Held(k) ==
  Own(k) \cup (CASE k.at = "save" -> k.arg.mfaBackupCodes
                 [] k.at = "code" -> k.seen
                 [] k.at = "save_code" -> k.arg.mfaBackupCodes \cup {k.id}
                 [] k.at = "save_password" -> k.arg.row.mfaBackupCodes
                 [] OTHER -> {})

\* What a call in state k holds.
AccountCall(k) ==
  /\ k.at \in {"idle", "save", "verify", "resend", "enable", "disable", "regenerate", "code",
               "save_code", "make_reset", "hash", "save_password", "spend"}
  /\ k.at \in {"save", "verify", "resend", "enable", "disable", "regenerate",
               "make_reset", "hash"} => k.id \in 0 .. edits
  /\ k.at = "save" =>
       /\ k.seen \in UserRow /\ k.arg \in UserRow
       /\ k.arg.pii => k.seen.pii
       /\ k.seen.isVerified => k.arg.isVerified
       /\ k.arg.mfaBackupCodes \subseteq k.seen.mfaBackupCodes \cup Batch(k.id)
       /\ ~raced /\ k.arg.mfaEnabled /\ k.arg.pii =>
            \/ k.arg.mfaSecret \in told.proven
            \/ k.seen.mfaEnabled /\ k.seen.pii /\ k.arg.mfaSecret = k.seen.mfaSecret
  /\ k.at = "enable" => k.seen \in told.proven
  /\ k.at = "code" => k.arg \in k.seen
  /\ k.at = "save_code" =>
       /\ k.seen \in UserRow /\ k.arg \in UserRow
       /\ ~raced => /\ k.id \in k.seen.mfaBackupCodes
                    /\ k.arg = [k.seen EXCEPT !.mfaBackupCodes = @ \ {k.id}]
  /\ k.at = "make_reset" => k.seen \in SUBSET Numbers /\ Cardinality(k.seen) < MaxRecent
  /\ k.at = "hash" => k.arg \in Numbers /\ k.seen = FALSE
  /\ k.at = "save_password" =>
       /\ k.id \in Numbers /\ k.arg.used = FALSE /\ k.seen \in UserRow
       /\ \E word \in Numbers : k.arg.row = [k.seen EXCEPT !.password = word]
  /\ k.at = "spend" => k.id \in Numbers /\ k.seen = FALSE

\* A batch that a call may still make is not known to the row, a login or another call.
BatchIsFresh(c) ==
  /\ Own(call[c]) \cap (user.mfaBackupCodes \cup told.accepted) = {}
  /\ \A d \in Calls \ {c} : Own(call[c]) \cap Held(call[d]) = {}

TokenAddsUp(t) ==
  told.applied[t] =
    told.unspent[t] + Cardinality(Spending(t)) + (IF t \in resets.used THEN 1 ELSE 0)

\* Without a race the row is as its user was told.
AccountIsExact ==
  /\ told.erased => ~user.pii
  /\ user.isBanned = told.banned
  /\ told.verified => user.isVerified
  /\ user.password = told.password
  /\ ~told.again /\ user.mfaBackupCodes \cap told.accepted = {}
  /\ Cardinality(resets.made) <= MaxRecent
  /\ user.mfaEnabled /\ user.pii => user.mfaSecret \in told.proven

AccountsInv ==
  /\ CallShape /\ raced \in BOOLEAN
  /\ user \in UserRow /\ resets \in ResetsState /\ told \in ToldState /\ edits \in Numbers
  /\ user.mfaBackupCodes \subseteq CodesTo(edits) /\ told.accepted \subseteq CodesTo(edits)
  /\ \A c \in Calls : /\ AccountCall(call[c]) /\ Held(call[c]) \subseteq CodesTo(edits)
                      /\ BatchIsFresh(c)
  /\ ~raced => AccountIsExact /\ \A t \in Numbers : TokenAddsUp(t)

LEMMA SpendingMoves ==
    ASSUME NEW c \in Calls, \A d \in Calls \ {c} : call'[d] = call[d], NEW t
    PROVE  /\ Cardinality(Spending(t)) \in Nat /\ Cardinality(Spending(t)') \in Nat
           /\ call[c].at # "spend" /\ call'[c].at # "spend"
                => Cardinality(Spending(t)') = Cardinality(Spending(t))
           /\ call[c].at # "spend" /\ call'[c].at = "spend" =>
                Cardinality(Spending(t)') =
                  Cardinality(Spending(t)) + (IF call'[c].id = t THEN 1 ELSE 0)
           /\ call[c].at = "spend" /\ call'[c].at # "spend" =>
                Cardinality(Spending(t)) =
                  Cardinality(Spending(t)') + (IF call[c].id = t THEN 1 ELSE 0)
  <1>1. Spending(t) \subseteq Calls /\ Spending(t)' \subseteq Calls
    BY DEF Spending
  <1>2. \A d \in Calls \ {c} : d \in Spending(t) <=> d \in Spending(t)'
    BY DEF Spending, At
  <1>3. /\ c \in Spending(t) <=> call[c].at = "spend" /\ call[c].id = t
        /\ c \in Spending(t)' <=> call'[c].at = "spend" /\ call'[c].id = t
    BY DEF Spending, At
  <1>4. PICK S \in SUBSET Calls, T \in SUBSET Calls : S = Spending(t) /\ T = Spending(t)'
    BY <1>1
  <1>5. QED
    BY <1>2, <1>3, <1>4, OneCallMoves

LEMMA NewBatch ==
    ASSUME edits \in Nat
    PROVE  /\ Batch(edits + 1) \cap CodesTo(edits) = {}
           /\ Batch(edits + 1) \subseteq CodesTo(edits + 1)
           /\ CodesTo(edits) \subseteq CodesTo(edits + 1)
  <1>1. \A b : b \in Batch(edits + 1) <=> \E j \in 1 .. CodesEach : b = <<edits + 1, j>>
    BY DEF Batch
  <1>2. \A b, n : b \in CodesTo(n) <=> \E i \in 0 .. n, j \in 1 .. CodesEach : b = <<i, j>>
    BY DEF CodesTo
  <1>3. 0 .. edits \subseteq 0 .. (edits + 1) /\ edits + 1 \in 0 .. (edits + 1)
        /\ edits + 1 \notin 0 .. edits
    OBVIOUS
  <1>4. QED
    BY <1>1, <1>2, <1>3

LEMMA AccountsInitInv == RequestsInit /\ AccountsInit => AccountsInv
  <1> SUFFICES ASSUME RequestsInit, AccountsInit PROVE AccountsInv
    OBVIOUS
  <1>1. 0 \in Numbers /\ edits = 0 /\ edits \in Numbers
    BY AccountsAssumption DEF AccountsInit, Numbers
  <1>2. Batch(0) \subseteq Codes /\ Batch(0) \subseteq CodesTo(edits)
    BY <1>1 DEF Batch, Codes, CodesTo
  <1>3. /\ user \in UserRow /\ user.mfaBackupCodes \subseteq CodesTo(edits)
        /\ user.mfaEnabled => user.mfaSecret = 0
        /\ user.password = 0 /\ user.isBanned = FALSE
    <2>1. PICK codes \in SUBSET Codes : codes = Batch(0)
      BY <1>2
    <2>2. Registered \in UserRow
      BY <1>1 DEF UserRow, Registered
    <2>3. ASSUME NEW row \in UserRow,
                 user = [row EXCEPT !.isVerified = TRUE, !.verificationToken = None,
                           !.mfaEnabled = TRUE, !.mfaSecret = 0, !.mfaBackupCodes = codes]
          PROVE  /\ user \in UserRow /\ user.mfaBackupCodes = codes /\ user.mfaSecret = 0
                 /\ user.password = row.password /\ user.isBanned = row.isBanned
      BY <1>1, <2>3 DEF UserRow
    <2>4. Registered.password = 0 /\ Registered.isBanned = FALSE
      BY DEF Registered
    <2>5. CASE user = Registered
      BY <2>2, <2>5 DEF Registered
    <2>6. CASE user = Protected
      BY <1>2, <2>1, <2>2, <2>3, <2>4, <2>6 DEF Protected
    <2>7. QED
      BY <2>5, <2>6 DEF AccountsInit
  <1>4. /\ told \in ToldState /\ told.erased = FALSE /\ told.banned = FALSE
        /\ told.password = 0 /\ told.verified = user.isVerified /\ told.proven = {0}
        /\ told.accepted = {} /\ told.again = FALSE
        /\ \A t \in Numbers : told.applied[t] = 0 /\ told.unspent[t] = 0
    BY <1>1, <1>3 DEF AccountsInit, ToldState, UserRow
  <1>5. resets \in ResetsState /\ resets.made = {} /\ resets.used = {}
    BY DEF AccountsInit, ResetsState
  <1>6. raced = FALSE /\ CallShape /\ \A c \in Calls : call[c].at = "idle"
    BY InitCalls DEF RequestsInit, At
  <1>7. \A c \in Calls : Own(call[c]) = {} /\ Held(call[c]) = {} /\ AccountCall(call[c])
    BY <1>6 DEF Own, Held, AccountCall
  <1>8. \A t : Spending(t) = {} /\ Cardinality({}) = 0
    BY <1>6, FS_EmptySet DEF Spending, At
  <1>9. ASSUME NEW t \in Numbers PROVE TokenAddsUp(t)
    <2>1. Cardinality(Spending(t)) = 0
      BY <1>8, Zenon
    <2>2. QED
      BY <1>4, <1>5, <2>1 DEF TokenAddsUp
  <1>10. Cardinality(resets.made) = 0
    BY <1>5, <1>8, Zenon
  <1>11. AccountIsExact
    <2>1. Cardinality(resets.made) <= MaxRecent
      BY <1>10, AccountsAssumption
    <2>2. told.verified => user.isVerified
      BY <1>4
    <2>3. QED
      BY <1>3, <1>4, <2>1, <2>2 DEF AccountIsExact
  <1>12. \A c \in Calls : BatchIsFresh(c)
    BY <1>7 DEF BatchIsFresh
  <1>13. QED
    BY <1>1, <1>3, <1>4, <1>5, <1>6, <1>7, <1>9, <1>11, <1>12 DEF AccountsInv

LEMMA AccountCallIs ==
    ASSUME NEW d, NEW k, call'[d] = k
    PROVE  AccountCall(call[d])' <=> AccountCall(k)'
  BY ZenonT(60) DEF AccountCall

\* What remains to be shown of a step of c that follows on an earlier one.
LEMMA AccountsUpdate ==
    ASSUME AccountsInv, NEW c \in Calls, CallShape', raced' \in BOOLEAN, ~raced' => ~raced,
           \A d \in Calls \ {c} : call'[d] = call[d],
           user' \in UserRow, resets' \in ResetsState, told' \in ToldState, edits' = edits,
           told'.proven = told.proven, AccountCall(call[c])',
           user'.mfaBackupCodes \subseteq user.mfaBackupCodes \cup Held(call[c]),
           told'.accepted \subseteq told.accepted \cup Held(call[c]),
           Held(call'[c]) \subseteq user.mfaBackupCodes \cup Held(call[c]),
           Own(call'[c]) \subseteq Own(call[c]),
           Own(call'[c]) # {} => user' = user /\ told' = told,
           ~raced' => AccountIsExact',
           ~raced' => \A t \in Numbers : TokenAddsUp(t)'
    PROVE  AccountsInv'
  <1>0. /\ user.mfaBackupCodes \subseteq CodesTo(edits) /\ told.accepted \subseteq CodesTo(edits)
        /\ \A d \in Calls : /\ AccountCall(call[d]) /\ Held(call[d]) \subseteq CodesTo(edits)
                            /\ BatchIsFresh(d)
    BY DEF AccountsInv
  <1>1. ASSUME NEW d \in Calls \ {c} PROVE AccountCall(call[d])'
    <2>1. PICK k : k = call[d] /\ AccountCall(k)
      BY <1>0
    <2>2. AccountCall(k)'
      BY <2>1 DEF AccountCall
    <2>3. call'[d] = k
      BY <1>1, <2>1
    <2>4. QED
      BY <2>2, <2>3, AccountCallIs
  <1>2. ASSUME NEW d \in Calls PROVE Held(call'[d]) \subseteq CodesTo(edits)
    BY <1>0
  <1>3. \A d \in Calls : Held(call[d])' = Held(call'[d]) /\ Own(call[d])' = Own(call'[d])
    BY DEF Held, Own
  <1>4. ASSUME NEW d \in Calls \ {c} PROVE BatchIsFresh(d)'
    <2>1. Own(call[d]) \cap (user'.mfaBackupCodes \cup told'.accepted) = {}
      BY <1>0 DEF BatchIsFresh
    <2>2. \A e \in Calls \ {d} : Own(call[d]) \cap Held(call'[e]) = {}
      BY <1>0 DEF BatchIsFresh
    <2>3. QED
      BY <1>3, <2>1, <2>2 DEF BatchIsFresh
  <1>5. BatchIsFresh(c)'
    <2>1. Own(call'[c]) \cap (user'.mfaBackupCodes \cup told'.accepted) = {}
      BY <1>0 DEF BatchIsFresh
    <2>2. \A e \in Calls \ {c} : Own(call'[c]) \cap Held(call'[e]) = {}
      BY <1>0 DEF BatchIsFresh
    <2>3. QED
      BY <1>3, <2>1, <2>2 DEF BatchIsFresh
  <1>6. CodesTo(edits)' = CodesTo(edits)
    BY DEF CodesTo
  <1>7. user'.mfaBackupCodes \subseteq CodesTo(edits) /\ told'.accepted \subseteq CodesTo(edits)
    BY <1>0
  <1>8. edits' \in Numbers
    BY DEF AccountsInv
  <1>9. QED
    BY <1>1, <1>2, <1>3, <1>4, <1>5, <1>6, <1>7, <1>8 DEF AccountsInv

\* What remains to be shown of a step with which c begins.
LEMMA AccountsBegin ==
    ASSUME AccountsInv, NEW c \in Calls, CallShape', raced' = raced,
           \A d \in Calls \ {c} : call'[d] = call[d],
           call[c].at = "idle", call'[c].at # "spend", call'[c].id = edits + 1,
           edits < MaxEdits, edits' = edits + 1, user' = user, resets' = resets,
           \/ told' = told
           \/ told' = [told EXCEPT !.proven = @ \cup {user.mfaSecret}],
           AccountCall(call[c])',
           Held(call'[c]) \subseteq user.mfaBackupCodes \cup Batch(edits + 1)
    PROVE  AccountsInv'
  <1>0. /\ user \in UserRow /\ told \in ToldState /\ edits \in Numbers /\ raced \in BOOLEAN
        /\ user.mfaBackupCodes \subseteq CodesTo(edits) /\ told.accepted \subseteq CodesTo(edits)
        /\ \A d \in Calls : /\ AccountCall(call[d]) /\ Held(call[d]) \subseteq CodesTo(edits)
                            /\ BatchIsFresh(d)
        /\ ~raced => AccountIsExact /\ \A t \in Numbers : TokenAddsUp(t)
    BY DEF AccountsInv
  <1>1. edits \in Nat /\ edits' \in Numbers /\ 0 .. edits \subseteq 0 .. edits'
    BY <1>0, AccountsAssumption DEF Numbers
  <1>2. /\ Batch(edits + 1) \cap CodesTo(edits) = {}
        /\ Batch(edits + 1) \subseteq CodesTo(edits + 1)
        /\ CodesTo(edits) \subseteq CodesTo(edits + 1)
    BY <1>1, NewBatch
  <1>3. CodesTo(edits)' = CodesTo(edits + 1)
    BY DEF CodesTo
  <1>4. user.mfaSecret \in Numbers \cup {None}
    BY <1>0 DEF UserRow
  <1>5. /\ told' \in ToldState /\ told.proven \subseteq told'.proven
        /\ told'.erased = told.erased /\ told'.banned = told.banned
        /\ told'.password = told.password /\ told'.verified = told.verified
        /\ told'.accepted = told.accepted /\ told'.again = told.again
        /\ told'.applied = told.applied /\ told'.unspent = told.unspent
    BY <1>0, <1>4 DEF ToldState
  <1>6. ASSUME NEW d \in Calls \ {c} PROVE AccountCall(call[d])'
    <2>1. PICK k : k = call[d] /\ AccountCall(k)
      BY <1>0
    <2>2. AccountCall(k)'
      BY <1>1, <1>5, <2>1 DEF AccountCall
    <2>3. call'[d] = k
      BY <1>6, <2>1
    <2>4. QED
      BY <2>2, <2>3, AccountCallIs
  <1>7. \A d \in Calls : Held(call[d])' = Held(call'[d]) /\ Own(call[d])' = Own(call'[d])
    BY DEF Held, Own
  <1>8. Own(call[c]) = {} /\ Held(call[c]) = {} /\ Own(call'[c]) \subseteq Batch(edits + 1)
    BY DEF Own, Held
  <1>9. ASSUME NEW d \in Calls PROVE Held(call'[d]) \subseteq CodesTo(edits + 1)
    BY <1>0, <1>2
  <1>10. ASSUME NEW d \in Calls \ {c} PROVE BatchIsFresh(d)'
    <2>1. Own(call[d]) \subseteq CodesTo(edits)
      BY <1>0 DEF Held
    <2>2. Own(call[d]) \cap (user.mfaBackupCodes \cup told.accepted) = {}
      BY <1>0 DEF BatchIsFresh
    <2>3. Own(call[d]) \cap Held(call'[c]) = {}
      BY <1>2, <2>1, <2>2
    <2>4. \A e \in Calls \ {d} : Own(call[d]) \cap Held(call'[e]) = {}
      BY <1>0, <2>3 DEF BatchIsFresh
    <2>5. QED
      BY <1>5, <1>7, <2>2, <2>4 DEF BatchIsFresh
  <1>11. BatchIsFresh(c)'
    <2>1. \A e \in Calls \ {c} : Own(call'[c]) \cap Held(call'[e]) = {}
      BY <1>0, <1>2, <1>8
    <2>2. Own(call'[c]) \cap (user.mfaBackupCodes \cup told.accepted) = {}
      BY <1>0, <1>2, <1>8
    <2>3. QED
      BY <1>5, <1>7, <2>1, <2>2 DEF BatchIsFresh
  <1>12. ASSUME NEW t \in Numbers, ~raced PROVE TokenAddsUp(t)'
    <2>1. Cardinality(Spending(t)') = Cardinality(Spending(t))
      BY SpendingMoves
    <2>2. QED
      BY <1>0, <1>5, <1>12, <2>1 DEF TokenAddsUp
  <1>13. ~raced => AccountIsExact'
    BY <1>0, <1>5 DEF AccountIsExact
  <1>14. resets' \in ResetsState
    BY DEF AccountsInv
  <1>15. /\ user'.mfaBackupCodes \subseteq CodesTo(edits + 1)
         /\ told'.accepted \subseteq CodesTo(edits + 1)
    BY <1>0, <1>2, <1>5
  <1>16. QED
    BY <1>0, <1>1, <1>3, <1>5, <1>6, <1>7, <1>9, <1>10, <1>11, <1>12, <1>13, <1>14, <1>15
       DEF AccountsInv

\* A step of c that only moves it on leaves all the rest.
LEMMA AccountsWait ==
    ASSUME AccountsInv, NEW c \in Calls, CallShape', raced' \in BOOLEAN, ~raced' => ~raced,
           \A d \in Calls \ {c} : call'[d] = call[d], UNCHANGED accountVars,
           call[c].at # "spend", call'[c].at # "spend", AccountCall(call[c])',
           Held(call'[c]) \subseteq user.mfaBackupCodes \cup Held(call[c]),
           Own(call'[c]) \subseteq Own(call[c])
    PROVE  AccountsInv'
  <1>1. /\ user' = user /\ resets' = resets /\ edits' = edits /\ told' = told
        /\ ~raced' => AccountIsExact /\ \A t \in Numbers : TokenAddsUp(t)
        /\ user \in UserRow /\ resets \in ResetsState /\ told \in ToldState
    BY DEF accountVars, AccountsInv
  <1>2. ASSUME NEW t \in Numbers, ~raced' PROVE TokenAddsUp(t)'
    <2>1. Cardinality(Spending(t)') = Cardinality(Spending(t))
      BY SpendingMoves
    <2>2. QED
      BY <1>1, <1>2, <2>1 DEF TokenAddsUp
  <1>3. ~raced' => AccountIsExact'
    BY <1>1 DEF AccountIsExact
  <1>4. QED
    BY <1>1, <1>2, <1>3, AccountsUpdate

LEMMA AccountsStep == AccountsInv /\ AccountsNext => AccountsInv'
  <1> SUFFICES ASSUME AccountsInv, AccountsNext PROVE AccountsInv'
    OBVIOUS
  <1>0. /\ CallShape /\ raced \in BOOLEAN
        /\ user \in UserRow /\ resets \in ResetsState /\ told \in ToldState
        /\ edits \in Numbers /\ edits \in Nat /\ 0 .. edits \subseteq Numbers
        /\ \A c \in Calls : AccountCall(call[c]) /\ BatchIsFresh(c)
        /\ ~raced => AccountIsExact /\ \A t \in Numbers : TokenAddsUp(t)
    BY AccountsAssumption DEF AccountsInv, Numbers
  <1> USE DEF At
  \* Calls that begin.
  <1>1. ASSUME NEW c \in Calls, NEW isBanned \in BOOLEAN,
               \/ banUser(c, isBanned) \/ deleteAccount(c) \/ changeColumn(c)
               \/ generateMfaSecret(c)
        PROVE  AccountsInv'
    <2>0. edits < MaxEdits => edits + 1 \in Numbers
      BY <1>0, AccountsAssumption DEF Numbers
    <2>1. PICK new :
            /\ Edits(c, new)
            /\ edits < MaxEdits => new \in UserRow
            /\ new.pii => user.pii
            /\ new.isVerified = user.isVerified
            /\ new.mfaBackupCodes \subseteq user.mfaBackupCodes
            /\ new.mfaEnabled /\ new.pii =>
                 user.mfaEnabled /\ user.pii /\ new.mfaSecret = user.mfaSecret
      <3>1. CASE banUser(c, isBanned)
        BY <1>0, <1>1, <3>1 DEF banUser, UserRow
      <3>2. CASE deleteAccount(c)
        <4>1. PICK new : new = [user EXCEPT !.pii = FALSE, !.password = None,
                                  !.verificationToken = None, !.mfaSecret = None,
                                  !.mfaBackupCodes = {}]
          OBVIOUS
        <4>2. /\ new \in UserRow /\ new.pii = FALSE /\ new.isVerified = user.isVerified
              /\ new.mfaBackupCodes = {}
          BY <1>0, <4>1 DEF UserRow
        <4>3. Edits(c, new)
          BY <3>2, <4>1 DEF deleteAccount
        <4>4. QED
          BY <4>2, <4>3
      <3>3. CASE changeColumn(c)
        BY <1>0, <3>3 DEF changeColumn, UserRow
      <3>4. CASE generateMfaSecret(c)
        <4>1. PICK new : new = [user EXCEPT !.mfaSecret = edits + 1, !.mfaEnabled = FALSE]
          OBVIOUS
        <4>2. /\ edits < MaxEdits => new \in UserRow
              /\ new.pii = user.pii /\ new.isVerified = user.isVerified
              /\ new.mfaBackupCodes = user.mfaBackupCodes /\ new.mfaEnabled = FALSE
          BY <1>0, <2>0, <4>1 DEF UserRow
        <4>3. Edits(c, new)
          BY <3>4, <4>1 DEF generateMfaSecret
        <4>4. QED
          BY <4>2, <4>3
      <3>5. QED
        BY <1>1, <3>1, <3>2, <3>3, <3>4
    <2>2. /\ Reads(c, "save", edits + 1, user, new) /\ edits < MaxEdits /\ edits' = edits + 1
          /\ user' = user /\ resets' = resets /\ told' = told
      BY <2>1 DEF Edits, Begins
    <2>3. /\ CallShape' /\ call[c].at = "idle" /\ raced' = raced
          /\ call'[c].at = "save" /\ call'[c].id = edits + 1
          /\ call'[c].seen = user /\ call'[c].arg = new
          /\ \A d \in Calls \ {c} : call'[d] = call[d]
      BY <1>0, <2>2, ReadsEffect
    <2>4. AccountCall(call[c])'
      BY <1>0, <2>1, <2>2, <2>3 DEF AccountCall
    <2>5. Held(call'[c]) \subseteq user.mfaBackupCodes \cup Batch(edits + 1)
      BY <2>1, <2>3 DEF Held, Own
    <2>6. QED
      BY <2>2, <2>3, <2>4, <2>5, AccountsBegin
  <1>2. ASSUME NEW c \in Calls, NEW code, NEW t,
               \/ verifyEmail(c) \/ resendVerification(c) \/ verifyMfaSecret(c)
               \/ disableMfa(c) \/ regenerateBackupCodes(c)
               \/ useBackupCode(c, code) \/ forgotPassword(c) \/ resetPassword(c, t)
        PROVE  AccountsInv'
    <2>0. PICK secret : secret = user.mfaSecret
      OBVIOUS
    <2>1. PICK step, seen, a :
            /\ Begins(c, step, seen, a) /\ user' = user /\ resets' = resets
            /\ told' = told \/ told' = [told EXCEPT !.proven = @ \cup {secret}]
            /\ \/ step \in {"verify", "resend", "disable", "regenerate"}
               \/ /\ step = "enable" /\ seen = secret
                  /\ told' = [told EXCEPT !.proven = @ \cup {secret}]
               \/ step = "code" /\ seen = user.mfaBackupCodes /\ a \in seen
               \/ /\ step = "make_reset" /\ seen = resets.made
                  /\ Cardinality(resets.made) < MaxRecent
               \/ step = "hash" /\ seen = FALSE /\ a \in Numbers
      <3>1. CASE verifyEmail(c) \/ resendVerification(c) \/ disableMfa(c)
                 \/ regenerateBackupCodes(c)
        BY <3>1 DEF verifyEmail, resendVerification, disableMfa, regenerateBackupCodes, Checks
      <3>2. CASE verifyMfaSecret(c)
        BY <2>0, <3>2 DEF verifyMfaSecret
      <3>3. CASE useBackupCode(c, code)
        BY <3>3 DEF useBackupCode
      <3>4. CASE forgotPassword(c)
        BY <3>4 DEF forgotPassword
      <3>5. CASE resetPassword(c, t)
        <4>1. Begins(c, "hash", FALSE, t)
          BY <3>5 DEF resetPassword
        <4>2. t \in Numbers /\ user' = user /\ resets' = resets /\ told' = told
          BY <1>0, <3>5 DEF resetPassword, ResetsState
        <4>3. QED
          BY <4>1, <4>2
      <3>6. QED
        BY <1>2, <3>1, <3>2, <3>3, <3>4, <3>5
    <2>2. /\ Reads(c, step, edits + 1, seen, a) /\ edits < MaxEdits /\ edits' = edits + 1
      BY <2>1 DEF Begins
    <2>3. /\ CallShape' /\ call[c].at = "idle" /\ raced' = raced
          /\ call'[c].at = step /\ call'[c].id = edits + 1
          /\ call'[c].seen = seen /\ call'[c].arg = a
          /\ \A d \in Calls \ {c} : call'[d] = call[d]
      BY <1>0, <2>2, ReadsEffect
    <2>4. step = "enable" => secret \in told'.proven
      <3>1. told.proven \cup {secret} = [told EXCEPT !.proven = @ \cup {secret}].proven
        BY <1>0 DEF ToldState
      <3>2. QED
        BY <2>1, <3>1
    <2>5. AccountCall(call[c])'
      <3>1. edits + 1 \in 0 .. edits'
        BY <1>0, <2>2
      <3>2. resets.made \in SUBSET Numbers
        BY <1>0 DEF ResetsState
      <3>3. QED
        BY <2>1, <2>3, <2>4, <3>1, <3>2 DEF AccountCall
    <2>6. Held(call'[c]) \subseteq user.mfaBackupCodes \cup Batch(edits + 1)
      BY <2>1, <2>3 DEF Held, Own
    <2>7. QED
      BY <2>0, <2>1, <2>2, <2>3, <2>5, <2>6, AccountsBegin
  \* Calls that read the row again, with the changes to it in hand.
  <1>3. ASSUME NEW c \in Calls,
               \/ verifyEmail_update(c) \/ resendVerification_update(c)
               \/ verifyMfaSecret_update(c) \/ disableMfa_update(c)
               \/ regenerateBackupCodes_update(c)
        PROVE  AccountsInv'
    <2>0. call[c].at \in {"verify", "resend", "enable", "disable", "regenerate"}
      BY <1>3 DEF verifyEmail_update, resendVerification_update, verifyMfaSecret_update,
                  disableMfa_update, regenerateBackupCodes_update, Applies
    <2>1. PICK i : i = call[c].id /\ i \in Numbers /\ i \in 0 .. edits
      BY <1>0, <2>0 DEF AccountCall
    <2>2. PICK codes \in SUBSET Codes : codes = Batch(i)
      BY <2>1 DEF Batch, Codes
    <2>3. PICK new :
            /\ Waits(c, "save", i, user, new) /\ UNCHANGED accountVars
            /\ raced' \in BOOLEAN /\ (~raced' => ~raced)
            /\ new \in UserRow /\ new.pii = user.pii /\ (user.isVerified => new.isVerified)
            /\ new.mfaBackupCodes \subseteq user.mfaBackupCodes \cup codes
            /\ \/ new.mfaEnabled => user.mfaEnabled /\ new.mfaSecret = user.mfaSecret
               \/ ~raced' => new.mfaSecret \in told.proven
      <3>1. CASE verifyEmail_update(c)
        <4>1. PICK new : new = [user EXCEPT !.isVerified = TRUE, !.verificationToken = None]
          OBVIOUS
        <4>2. /\ new \in UserRow /\ new.pii = user.pii /\ new.isVerified
              /\ new.mfaBackupCodes = user.mfaBackupCodes
              /\ new.mfaEnabled = user.mfaEnabled /\ new.mfaSecret = user.mfaSecret
          BY <1>0, <4>1 DEF UserRow
        <4>3. Waits(c, "save", i, user, new) /\ UNCHANGED accountVars
          BY <2>1, <3>1, <4>1 DEF verifyEmail_update, Applies, Updates
        <4>4. raced' \in BOOLEAN /\ (~raced' => ~raced)
          BY <1>0, <3>1 DEF verifyEmail_update, Applies, Trusts
        <4>5. QED
          BY <4>2, <4>3, <4>4
      <3>2. CASE resendVerification_update(c)
        <4>1. PICK new : new = [user EXCEPT !.verificationToken = i]
          OBVIOUS
        <4>2. /\ new \in UserRow /\ new.pii = user.pii /\ new.isVerified = user.isVerified
              /\ new.mfaBackupCodes = user.mfaBackupCodes
              /\ new.mfaEnabled = user.mfaEnabled /\ new.mfaSecret = user.mfaSecret
          BY <1>0, <2>1, <4>1 DEF UserRow
        <4>3. Waits(c, "save", i, user, new) /\ UNCHANGED accountVars
          BY <2>1, <3>2, <4>1 DEF resendVerification_update, Applies, Updates
        <4>4. raced' \in BOOLEAN /\ (~raced' => ~raced)
          BY <1>0, <3>2 DEF resendVerification_update, Applies, Trusts
        <4>5. QED
          BY <4>2, <4>3, <4>4
      <3>3. CASE verifyMfaSecret_update(c)
        <4>1. PICK new : new = [user EXCEPT !.mfaEnabled = TRUE, !.mfaBackupCodes = codes]
          OBVIOUS
        <4>2. /\ new \in UserRow /\ new.pii = user.pii /\ new.isVerified = user.isVerified
              /\ new.mfaBackupCodes = codes /\ new.mfaSecret = user.mfaSecret
          BY <1>0, <2>2, <4>1 DEF UserRow
        <4>3. Waits(c, "save", i, user, new) /\ UNCHANGED accountVars
          BY <2>1, <2>2, <3>3, <4>1 DEF verifyMfaSecret_update, Applies, Updates
        <4>4. raced' = (raced \/ call[c].seen # user.mfaSecret) /\ call[c].seen \in told.proven
          BY <1>0, <3>3 DEF verifyMfaSecret_update, Applies, Trusts, AccountCall
        <4>5. raced' \in BOOLEAN /\ (~raced' => ~raced) /\ (~raced' => new.mfaSecret \in told.proven)
          BY <1>0, <4>2, <4>4
        <4>6. QED
          BY <4>2, <4>3, <4>5
      <3>4. CASE disableMfa_update(c)
        <4>1. PICK new : new = [user EXCEPT !.mfaEnabled = FALSE, !.mfaSecret = None,
                                            !.mfaBackupCodes = {}]
          OBVIOUS
        <4>2. /\ new \in UserRow /\ new.pii = user.pii /\ new.isVerified = user.isVerified
              /\ new.mfaBackupCodes = {} /\ new.mfaEnabled = FALSE
          BY <1>0, <4>1 DEF UserRow
        <4>3. Waits(c, "save", i, user, new) /\ UNCHANGED accountVars
          BY <2>1, <3>4, <4>1 DEF disableMfa_update, Applies, Updates
        <4>4. raced' \in BOOLEAN /\ (~raced' => ~raced)
          BY <1>0, <3>4 DEF disableMfa_update, Applies, Trusts
        <4>5. QED
          BY <4>2, <4>3, <4>4
      <3>5. CASE regenerateBackupCodes_update(c)
        <4>1. PICK new : new = [user EXCEPT !.mfaBackupCodes = codes]
          OBVIOUS
        <4>2. /\ new \in UserRow /\ new.pii = user.pii /\ new.isVerified = user.isVerified
              /\ new.mfaBackupCodes = codes
              /\ new.mfaEnabled = user.mfaEnabled /\ new.mfaSecret = user.mfaSecret
          BY <1>0, <2>2, <4>1 DEF UserRow
        <4>3. Waits(c, "save", i, user, new) /\ UNCHANGED accountVars
          BY <2>1, <2>2, <3>5, <4>1 DEF regenerateBackupCodes_update, Applies, Updates
        <4>4. raced' \in BOOLEAN /\ (~raced' => ~raced)
          BY <1>0, <3>5 DEF regenerateBackupCodes_update, Applies, Trusts
        <4>5. QED
          BY <4>2, <4>3, <4>4
      <3>6. QED
        BY <1>3, <3>1, <3>2, <3>3, <3>4, <3>5
    <2>4. /\ CallShape' /\ call'[c].at = "save" /\ call'[c].id = i
          /\ call'[c].seen = user /\ call'[c].arg = new
          /\ \A d \in Calls \ {c} : call'[d] = call[d]
      BY <1>0, <2>3, WaitsEffect
    <2>5. AccountCall(call[c])'
      <3>1. edits' = edits /\ told' = told
        BY <2>3 DEF accountVars
      <3>2. ~raced' /\ new.mfaEnabled /\ new.pii =>
              \/ new.mfaSecret \in told.proven
              \/ user.mfaEnabled /\ user.pii /\ new.mfaSecret = user.mfaSecret
        BY <2>3
      <3>3. QED
        BY <1>0, <2>1, <2>2, <2>3, <2>4, <3>1, <3>2 DEF AccountCall
    <2>6. /\ Own(call[c]) = Batch(i) /\ Own(call'[c]) = Batch(i)
          /\ Held(call'[c]) = Batch(i) \cup new.mfaBackupCodes
          /\ Batch(i) \subseteq Held(call[c])
      BY <2>0, <2>1, <2>4 DEF Held, Own
    <2>7. /\ Held(call'[c]) \subseteq user.mfaBackupCodes \cup Held(call[c])
          /\ Own(call'[c]) \subseteq Own(call[c])
      BY <2>2, <2>3, <2>6
    <2>8. UNCHANGED accountVars /\ raced' \in BOOLEAN /\ (~raced' => ~raced)
          /\ call[c].at # "spend" /\ call'[c].at # "spend"
      BY <2>0, <2>3, <2>4
    <2>9. QED
      BY <2>4, <2>5, <2>7, <2>8, AccountsWait
  <1>4. ASSUME NEW c \in Calls, useBackupCode_update(c) PROVE AccountsInv'
    <2>1. PICK code, seen : code = call[c].arg /\ seen = call[c].seen
      OBVIOUS
    <2>2. /\ call[c].at = "code" /\ code \in seen
          /\ Held(call[c]) = seen /\ Own(call[c]) = {}
      BY <1>0, <1>4, <2>1 DEF useBackupCode_update, AccountCall, Held, Own
    <2>3. Waits(c, "save_code", code, user, [user EXCEPT !.mfaBackupCodes = seen \ {code}])
      BY <1>4, <2>1 DEF useBackupCode_update
    <2>4. /\ UNCHANGED accountVars /\ raced' = (raced \/ seen # user.mfaBackupCodes)
          /\ raced' \in BOOLEAN /\ (~raced' => ~raced)
      BY <1>0, <1>4, <2>1 DEF useBackupCode_update, Trusts
    <2>5. seen \in SUBSET Codes
      <3>1. Held(call[c]) \subseteq CodesTo(edits) /\ CodesTo(edits) \subseteq Codes
        BY <1>0 DEF AccountsInv, CodesTo, Codes
      <3>2. QED
        BY <2>2, <3>1
    <2>a. PICK new : new = [user EXCEPT !.mfaBackupCodes = seen \ {code}]
      OBVIOUS
    <2>6. new \in UserRow /\ new.mfaBackupCodes = seen \ {code}
      BY <1>0, <2>5, <2>a DEF UserRow
    <2>7. /\ CallShape' /\ call'[c].at = "save_code" /\ call'[c].id = code
          /\ call'[c].seen = user /\ call'[c].arg = new
          /\ \A d \in Calls \ {c} : call'[d] = call[d]
      BY <1>0, <2>3, <2>a, WaitsEffect
    <2>8. ~raced' => code \in user.mfaBackupCodes
                     /\ new = [user EXCEPT !.mfaBackupCodes = @ \ {code}]
      BY <2>2, <2>4, <2>a
    <2>9. AccountCall(call[c])'
      BY <1>0, <2>6, <2>7, <2>8 DEF AccountCall
    <2>10. /\ Held(call'[c]) \subseteq user.mfaBackupCodes \cup Held(call[c])
           /\ Own(call'[c]) \subseteq Own(call[c])
      BY <2>2, <2>6, <2>7 DEF Held, Own
    <2>11. QED
      BY <2>2, <2>4, <2>7, <2>9, <2>10, AccountsWait
  <1>5. ASSUME NEW c \in Calls, resetPassword_update(c) PROVE AccountsInv'
    <2>1. PICK t, word : t = call[c].arg /\ word = call[c].id
      OBVIOUS
    <2>2. /\ call[c].at = "hash" /\ call[c].seen = FALSE /\ t \in Numbers /\ word \in Numbers
          /\ Held(call[c]) = {} /\ Own(call[c]) = {}
      BY <1>0, <1>5, <2>1 DEF resetPassword_update, AccountCall, Held, Own
    <2>a. PICK new : new = [user EXCEPT !.password = word]
      OBVIOUS
    <2>3. new \in UserRow /\ new.mfaBackupCodes = user.mfaBackupCodes
      BY <1>0, <2>2, <2>a DEF UserRow
    <2>4. Waits(c, "save_password", t, user, [row |-> new, used |-> FALSE])
      BY <1>5, <2>1, <2>2, <2>a DEF resetPassword_update
    <2>5. /\ UNCHANGED accountVars /\ raced' \in BOOLEAN /\ (~raced' => ~raced)
      BY <1>0, <1>5 DEF resetPassword_update, Trusts
    <2>6. /\ CallShape' /\ call'[c].at = "save_password" /\ call'[c].id = t
          /\ call'[c].seen = user /\ call'[c].arg = [row |-> new, used |-> FALSE]
          /\ \A d \in Calls \ {c} : call'[d] = call[d]
      BY <1>0, <2>4, WaitsEffect
    <2>7. call'[c].arg.row = new /\ call'[c].arg.used = FALSE
      BY <2>6
    <2>8. AccountCall(call[c])'
      BY <1>0, <2>2, <2>a, <2>6, <2>7 DEF AccountCall
    <2>9. /\ Held(call'[c]) \subseteq user.mfaBackupCodes \cup Held(call[c])
          /\ Own(call'[c]) \subseteq Own(call[c])
      BY <2>2, <2>3, <2>6, <2>7 DEF Held, Own
    <2>10. QED
      BY <2>2, <2>5, <2>6, <2>8, <2>9, AccountsWait
  \* Calls that write.
  <1>6. ASSUME NEW c \in Calls, save(c) PROVE AccountsInv'
    <2>1. PICK seen, new, n : seen = call[c].seen /\ new = call[c].arg /\ n = call[c].id
      OBVIOUS
    <2>2. /\ call[c].at = "save" /\ seen \in UserRow /\ new \in UserRow
          /\ (new.pii => seen.pii) /\ (seen.isVerified => new.isVerified)
          /\ new.mfaBackupCodes \subseteq seen.mfaBackupCodes \cup Batch(n)
          /\ (~raced /\ new.mfaEnabled /\ new.pii =>
                \/ new.mfaSecret \in told.proven
                \/ seen.mfaEnabled /\ seen.pii /\ new.mfaSecret = seen.mfaSecret)
          /\ Held(call[c]) = Batch(n) \cup new.mfaBackupCodes /\ Own(call[c]) = Batch(n)
          /\ Batch(n) \cap told.accepted = {}
      BY <1>0, <1>6, <2>1 DEF save, AccountCall, Held, Own, BatchIsFresh
    <2>3. /\ user' = new /\ resets' = resets /\ edits' = edits /\ Ends(c)
          /\ raced' = (raced \/ seen # user) /\ raced' \in BOOLEAN /\ (~raced' => ~raced)
      BY <1>0, <1>6, <2>1 DEF save, Trusts
    <2>4. told' = [told EXCEPT
                     !.erased = @ \/ (seen.pii /\ ~new.pii),
                     !.banned = IF new.isBanned # seen.isBanned THEN new.isBanned ELSE @,
                     !.password = IF new.password # seen.password THEN new.password ELSE @,
                     !.verified = @ \/ (new.isVerified /\ ~seen.isVerified)]
      BY <1>6, <2>1 DEF save
    <2>5. PICK erased \in BOOLEAN, banned \in BOOLEAN, password \in Numbers \cup {None},
               verified \in BOOLEAN :
            /\ erased = (told.erased \/ (seen.pii /\ ~new.pii))
            /\ banned = IF new.isBanned # seen.isBanned THEN new.isBanned ELSE told.banned
            /\ password = IF new.password # seen.password THEN new.password ELSE told.password
            /\ verified = (told.verified \/ (new.isVerified /\ ~seen.isVerified))
      BY <1>0, <2>2 DEF UserRow, ToldState
    <2>6. told' = [told EXCEPT !.erased = erased, !.banned = banned, !.password = password,
                               !.verified = verified]
      BY <1>0, <2>4, <2>5 DEF ToldState
    <2>7. /\ told' \in ToldState /\ told'.proven = told.proven
          /\ told'.erased = erased /\ told'.banned = banned
          /\ told'.password = password /\ told'.verified = verified
          /\ told'.accepted = told.accepted /\ told'.again = told.again
          /\ told'.applied = told.applied /\ told'.unspent = told.unspent
      BY <1>0, <2>6 DEF ToldState
    <2>8. CallShape' /\ call'[c].at = "idle" /\ \A d \in Calls \ {c} : call'[d] = call[d]
      BY <1>0, <2>3, EndsEffect
    <2>9. AccountCall(call[c])' /\ Held(call'[c]) = {} /\ Own(call'[c]) = {}
      BY <2>8 DEF AccountCall, Held, Own
    <2>10. ASSUME ~raced' PROVE AccountIsExact'
      <3>1. seen = user /\ ~raced /\ AccountIsExact
        BY <1>0, <2>3, <2>10
      <3>2. (erased => ~new.pii) /\ (verified => new.isVerified)
        BY <2>2, <2>5, <3>1 DEF AccountIsExact, UserRow
      <3>3. new.isBanned = banned /\ new.password = password
        BY <2>5, <3>1 DEF AccountIsExact
      <3>4. new.mfaBackupCodes \cap told.accepted = {}
        BY <2>2, <3>1 DEF AccountIsExact
      <3>5. new.mfaEnabled /\ new.pii => new.mfaSecret \in told.proven
        BY <2>2, <3>1 DEF AccountIsExact
      <3>6. QED
        BY <2>3, <2>7, <3>1, <3>2, <3>3, <3>4, <3>5 DEF AccountIsExact
    <2>11. ASSUME NEW t \in Numbers, ~raced' PROVE TokenAddsUp(t)'
      <3>1. Cardinality(Spending(t)') = Cardinality(Spending(t))
        BY <2>2, <2>8, SpendingMoves
      <3>2. QED
        BY <1>0, <2>3, <2>7, <2>11, <3>1 DEF TokenAddsUp
    <2>12. /\ user'.mfaBackupCodes \subseteq user.mfaBackupCodes \cup Held(call[c])
           /\ told'.accepted \subseteq told.accepted \cup Held(call[c])
           /\ Held(call'[c]) \subseteq user.mfaBackupCodes \cup Held(call[c])
           /\ Own(call'[c]) \subseteq Own(call[c])
      BY <2>2, <2>3, <2>7, <2>9
    <2>13. user' \in UserRow /\ resets' \in ResetsState
      BY <1>0, <2>2, <2>3
    <2>14. QED
      BY <2>3, <2>7, <2>8, <2>9, <2>10, <2>11, <2>12, <2>13, AccountsUpdate
  <1>7. ASSUME NEW c \in Calls, useBackupCode_save(c) PROVE AccountsInv'
    <2>1. PICK seen, new, code : seen = call[c].seen /\ new = call[c].arg /\ code = call[c].id
      OBVIOUS
    <2>2. /\ call[c].at = "save_code" /\ seen \in UserRow /\ new \in UserRow
          /\ ~raced => code \in seen.mfaBackupCodes
                       /\ new = [seen EXCEPT !.mfaBackupCodes = @ \ {code}]
          /\ Held(call[c]) = new.mfaBackupCodes \cup {code} /\ Own(call[c]) = {}
      BY <1>0, <1>7, <2>1 DEF useBackupCode_save, AccountCall, Held, Own
    <2>3. /\ user' = new /\ resets' = resets /\ edits' = edits /\ Ends(c)
          /\ told' = [told EXCEPT !.accepted = @ \cup {code},
                                  !.again = @ \/ code \in told.accepted]
          /\ raced' = (raced \/ seen # user) /\ raced' \in BOOLEAN /\ (~raced' => ~raced)
      BY <1>0, <1>7, <2>1 DEF useBackupCode_save, Trusts
    <2>4. code \in Codes
      <3>1. Held(call[c]) \subseteq CodesTo(edits) /\ CodesTo(edits) \subseteq Codes
        BY <1>0 DEF AccountsInv, CodesTo, Codes
      <3>2. QED
        BY <2>2, <3>1
    <2>5. PICK accepted \in SUBSET Codes, again \in BOOLEAN :
            /\ accepted = told.accepted \cup {code}
            /\ again = (told.again \/ code \in told.accepted)
      BY <1>0, <2>4 DEF ToldState
    <2>6. told' = [told EXCEPT !.accepted = accepted, !.again = again]
      BY <1>0, <2>3, <2>5 DEF ToldState
    <2>7. /\ told' \in ToldState /\ told'.proven = told.proven
          /\ told'.erased = told.erased /\ told'.banned = told.banned
          /\ told'.password = told.password /\ told'.verified = told.verified
          /\ told'.accepted = accepted /\ told'.again = again
          /\ told'.applied = told.applied /\ told'.unspent = told.unspent
      BY <1>0, <2>6 DEF ToldState
    <2>8. CallShape' /\ call'[c].at = "idle" /\ \A d \in Calls \ {c} : call'[d] = call[d]
      BY <1>0, <2>3, EndsEffect
    <2>9. AccountCall(call[c])' /\ Held(call'[c]) = {} /\ Own(call'[c]) = {}
      BY <2>8 DEF AccountCall, Held, Own
    <2>10. ASSUME ~raced' PROVE AccountIsExact'
      <3>1. seen = user /\ ~raced /\ AccountIsExact
        BY <1>0, <2>3, <2>10
      <3>2. /\ new.pii = user.pii /\ new.isBanned = user.isBanned
            /\ new.isVerified = user.isVerified /\ new.password = user.password
            /\ new.mfaEnabled = user.mfaEnabled /\ new.mfaSecret = user.mfaSecret
            /\ new.mfaBackupCodes = user.mfaBackupCodes \ {code}
            /\ code \in user.mfaBackupCodes
        BY <1>0, <2>2, <3>1 DEF UserRow
      <3>3. ~again /\ new.mfaBackupCodes \cap accepted = {}
        BY <2>5, <3>1, <3>2 DEF AccountIsExact
      <3>4. QED
        BY <2>3, <2>7, <3>1, <3>2, <3>3 DEF AccountIsExact
    <2>11. ASSUME NEW t \in Numbers, ~raced' PROVE TokenAddsUp(t)'
      <3>1. Cardinality(Spending(t)') = Cardinality(Spending(t))
        BY <2>2, <2>8, SpendingMoves
      <3>2. QED
        BY <1>0, <2>3, <2>7, <2>11, <3>1 DEF TokenAddsUp
    <2>12. /\ user'.mfaBackupCodes \subseteq user.mfaBackupCodes \cup Held(call[c])
           /\ told'.accepted \subseteq told.accepted \cup Held(call[c])
           /\ Held(call'[c]) \subseteq user.mfaBackupCodes \cup Held(call[c])
           /\ Own(call'[c]) \subseteq Own(call[c])
      BY <2>2, <2>3, <2>5, <2>7, <2>9
    <2>13. user' \in UserRow /\ resets' \in ResetsState
      BY <1>0, <2>2, <2>3
    <2>14. ~raced' => \A t \in Numbers : TokenAddsUp(t)'
      BY <2>11
    <2>15. /\ edits' = edits /\ raced' \in BOOLEAN /\ (~raced' => ~raced)
           /\ (Own(call'[c]) # {} => user' = user /\ told' = told)
      BY <2>3, <2>9
    <2>16. told' \in ToldState /\ told'.proven = told.proven
      BY <2>7
    <2>17. QED
      BY <2>8, <2>9, <2>10, <2>12, <2>13, <2>14, <2>15, <2>16, AccountsUpdate
  <1>8. ASSUME NEW c \in Calls, resetPassword_save(c) PROVE AccountsInv'
    <2>1. PICK seen, new, t : seen = call[c].seen /\ new = call[c].arg.row /\ t = call[c].id
      OBVIOUS
    <2>2. /\ call[c].at = "save_password" /\ t \in Numbers /\ seen \in UserRow
          /\ call[c].arg.used = FALSE
          /\ \E word \in Numbers : new = [seen EXCEPT !.password = word]
          /\ Held(call[c]) = new.mfaBackupCodes /\ Own(call[c]) = {}
      BY <1>0, <1>8, <2>1 DEF resetPassword_save, AccountCall, Held, Own
    <2>3. /\ new \in UserRow /\ new.pii = seen.pii /\ new.isBanned = seen.isBanned
          /\ new.isVerified = seen.isVerified /\ new.mfaEnabled = seen.mfaEnabled
          /\ new.mfaSecret = seen.mfaSecret /\ new.mfaBackupCodes = seen.mfaBackupCodes
          /\ new.password \in Numbers
      BY <2>2 DEF UserRow
    <2>4. /\ user' = new /\ resets' = resets /\ edits' = edits
          /\ told' = [told EXCEPT !.password = new.password, !.applied[t] = @ + 1]
          /\ raced' = (raced \/ seen # user) /\ raced' \in BOOLEAN /\ (~raced' => ~raced)
          /\ Waits(c, "spend", t, FALSE, None)
      BY <1>0, <1>8, <2>1, <2>2 DEF resetPassword_save, Trusts
    <2>5. told.applied \in [Numbers -> Nat] /\ told.applied[t] + 1 \in Nat
      BY <1>0, <2>2 DEF ToldState
    <2>6. PICK applied \in [Numbers -> Nat] : applied = [told.applied EXCEPT ![t] = @ + 1]
      BY <2>5
    <2>7. told' = [told EXCEPT !.password = new.password, !.applied = applied]
      BY <1>0, <2>4, <2>6 DEF ToldState
    <2>8. /\ told' \in ToldState /\ told'.proven = told.proven
          /\ told'.erased = told.erased /\ told'.banned = told.banned
          /\ told'.password = new.password /\ told'.verified = told.verified
          /\ told'.accepted = told.accepted /\ told'.again = told.again
          /\ told'.applied = applied /\ told'.unspent = told.unspent
      BY <1>0, <2>3, <2>7 DEF ToldState
    <2>9. /\ CallShape' /\ call'[c].at = "spend" /\ call'[c].id = t /\ call'[c].seen = FALSE
          /\ \A d \in Calls \ {c} : call'[d] = call[d]
      BY <1>0, <2>4, WaitsEffect
    <2>10. AccountCall(call[c])' /\ Held(call'[c]) = {} /\ Own(call'[c]) = {}
      BY <2>2, <2>9 DEF AccountCall, Held, Own
    <2>11. ASSUME ~raced' PROVE AccountIsExact'
      <3>1. seen = user /\ ~raced /\ AccountIsExact
        BY <1>0, <2>4, <2>11
      <3>2. QED
        BY <2>3, <2>4, <2>8, <3>1 DEF AccountIsExact
    <2>12. ASSUME NEW s \in Numbers, ~raced' PROVE TokenAddsUp(s)'
      <3>1. /\ Cardinality(Spending(s)') =
                 Cardinality(Spending(s)) + (IF t = s THEN 1 ELSE 0)
            /\ Cardinality(Spending(s)) \in Nat
        BY <2>2, <2>9, SpendingMoves
      <3>2. applied[s] = told.applied[s] + (IF t = s THEN 1 ELSE 0)
            /\ told.applied[s] \in Nat /\ told.unspent[s] \in Nat
        BY <1>0, <2>5, <2>6 DEF ToldState
      <3>3. TokenAddsUp(s)
        BY <1>0, <2>4, <2>12
      <3>4. QED
        BY <2>4, <2>8, <3>1, <3>2, <3>3 DEF TokenAddsUp
    <2>13. /\ user'.mfaBackupCodes \subseteq user.mfaBackupCodes \cup Held(call[c])
           /\ told'.accepted \subseteq told.accepted \cup Held(call[c])
           /\ Held(call'[c]) \subseteq user.mfaBackupCodes \cup Held(call[c])
           /\ Own(call'[c]) \subseteq Own(call[c])
      BY <2>2, <2>4, <2>8, <2>10
    <2>14. user' \in UserRow /\ resets' \in ResetsState
      BY <1>0, <2>3, <2>4
    <2>15. ~raced' => \A s \in Numbers : TokenAddsUp(s)'
      BY <2>12
    <2>16. /\ edits' = edits /\ raced' \in BOOLEAN /\ (~raced' => ~raced)
           /\ (Own(call'[c]) # {} => user' = user /\ told' = told)
      BY <2>4, <2>10
    <2>17. told' \in ToldState /\ told'.proven = told.proven
      BY <2>8
    <2>18. QED
      BY <2>9, <2>10, <2>11, <2>13, <2>14, <2>15, <2>16, <2>17, AccountsUpdate
  <1>9. ASSUME NEW c \in Calls, \/ resetPassword_spend(c) \/ forgotPassword_insert(c)
        PROVE  AccountsInv'
    <2>1. PICK seen, t : seen = call[c].seen /\ t = call[c].id
      OBVIOUS
    <2>2. /\ t \in Numbers /\ Own(call[c]) = {} /\ Held(call[c]) = {}
          /\ \/ /\ call[c].at = "spend" /\ seen = FALSE
                /\ resets' = [resets EXCEPT !.used = @ \cup {t}]
                /\ raced' = (raced \/ seen # (t \in resets.used))
             \/ /\ call[c].at = "make_reset"
                /\ seen \in SUBSET Numbers /\ Cardinality(seen) < MaxRecent
                /\ resets' = [resets EXCEPT !.made = @ \cup {t}]
                /\ raced' = (raced \/ seen # resets.made)
      <3>1. CASE resetPassword_spend(c)
        BY <1>0, <2>1, <3>1 DEF resetPassword_spend, Trusts, AccountCall, Own, Held
      <3>2. CASE forgotPassword_insert(c)
        <4>1. call[c].at = "make_reset"
          BY <3>2 DEF forgotPassword_insert
        <4>2. t \in Numbers
          BY <1>0, <2>1, <4>1 DEF AccountCall
        <4>3. QED
          BY <1>0, <2>1, <3>2, <4>2 DEF forgotPassword_insert, Trusts, AccountCall, Own, Held
      <3>3. QED
        BY <1>9, <3>1, <3>2
    <2>3. UNCHANGED <<user, edits, told>> /\ Ends(c) /\ raced' \in BOOLEAN /\ (~raced' => ~raced)
      BY <1>0, <1>9 DEF resetPassword_spend, forgotPassword_insert, Trusts
    <2>4. CallShape' /\ call'[c].at = "idle" /\ \A d \in Calls \ {c} : call'[d] = call[d]
      BY <1>0, <2>3, EndsEffect
    <2>5. AccountCall(call[c])' /\ Held(call'[c]) = {} /\ Own(call'[c]) = {}
      BY <2>4 DEF AccountCall, Held, Own
    <2>6. /\ resets' \in ResetsState
          /\ call[c].at = "spend" => resets'.made = resets.made
                                     /\ resets'.used = resets.used \cup {t}
          /\ call[c].at = "make_reset" => resets'.made = resets.made \cup {t}
                                          /\ resets'.used = resets.used
      BY <1>0, <2>2 DEF ResetsState
    <2>7. ASSUME ~raced' PROVE Cardinality(resets'.made) <= MaxRecent
      <3>1. CASE call[c].at = "spend"
        BY <1>0, <2>3, <2>6, <2>7, <3>1 DEF AccountIsExact
      <3>2. CASE call[c].at = "make_reset"
        <4>1. /\ resets.made \in SUBSET Numbers /\ Cardinality(resets.made) < MaxRecent
              /\ resets'.made = resets.made \cup {t}
          BY <2>2, <2>6, <2>7, <3>2
        <4>2. IsFiniteSet(Numbers)
          BY AccountsAssumption, FS_Interval DEF Numbers
        <4>3. IsFiniteSet(resets.made)
          BY <4>1, <4>2, FS_Subset
        <4>4. Cardinality(resets.made) \in Nat
              /\ (Cardinality(resets'.made) = Cardinality(resets.made)
                  \/ Cardinality(resets'.made) = Cardinality(resets.made) + 1)
          BY <4>1, <4>3, FS_AddElement, FS_CardinalityType
        <4>5. QED
          BY <4>1, <4>4, AccountsAssumption
      <3>3. QED
        BY <2>2, <3>1, <3>2
    <2>8. ~raced' => AccountIsExact'
      BY <1>0, <2>3, <2>7 DEF AccountIsExact
    <2>9. ASSUME NEW s \in Numbers, ~raced' PROVE TokenAddsUp(s)'
      <3>1. TokenAddsUp(s) /\ Cardinality(Spending(s)) \in Nat
            /\ Cardinality(Spending(s)') \in Nat
            /\ told.applied[s] \in Nat /\ told.unspent[s] \in Nat
        BY <1>0, <2>3, <2>4, <2>9, SpendingMoves DEF ToldState
      <3>2. CASE call[c].at = "spend"
        <4>1. t \notin resets.used /\ resets'.used = resets.used \cup {t}
          BY <2>2, <2>6, <2>9, <3>2
        <4>2. Cardinality(Spending(s)) =
                Cardinality(Spending(s)') + (IF t = s THEN 1 ELSE 0)
          BY <2>1, <2>4, <3>2, SpendingMoves
        <4>3. QED
          BY <2>3, <3>1, <4>1, <4>2 DEF TokenAddsUp
      <3>3. CASE call[c].at = "make_reset"
        <4>1. Cardinality(Spending(s)') = Cardinality(Spending(s))
          BY <2>4, <3>3, SpendingMoves
        <4>2. QED
          BY <2>3, <2>6, <3>1, <3>3, <4>1 DEF TokenAddsUp
      <3>4. QED
        BY <2>2, <3>2, <3>3
    <2>10. /\ user'.mfaBackupCodes \subseteq user.mfaBackupCodes \cup Held(call[c])
           /\ told'.accepted \subseteq told.accepted \cup Held(call[c])
           /\ Held(call'[c]) \subseteq user.mfaBackupCodes \cup Held(call[c])
           /\ Own(call'[c]) \subseteq Own(call[c])
      BY <2>3, <2>5
    <2>11. /\ user' \in UserRow /\ told' \in ToldState /\ told'.proven = told.proven
           /\ edits' = edits /\ (Own(call'[c]) # {} => user' = user /\ told' = told)
      BY <1>0, <2>3
    <2>12. ~raced' => \A s \in Numbers : TokenAddsUp(s)'
      BY <2>9
    <2>13. QED
      BY <2>3, <2>4, <2>5, <2>6, <2>8, <2>10, <2>11, <2>12, AccountsUpdate
  <1>10. ASSUME NEW c \in Calls, AccountFails(c) PROVE AccountsInv'
    <2>1. PICK t : t = call[c].id
      OBVIOUS
    <2>2. /\ UNCHANGED <<user, resets, edits>> /\ Ends(c) /\ raced' = raced
          /\ told' = IF call[c].at = "spend" THEN [told EXCEPT !.unspent[t] = @ + 1] ELSE told
      BY <1>10, <2>1 DEF AccountFails, Fails
    <2>3. CallShape' /\ call'[c].at = "idle" /\ \A d \in Calls \ {c} : call'[d] = call[d]
      BY <1>0, <2>2, EndsEffect
    <2>4. AccountCall(call[c])' /\ Held(call'[c]) = {} /\ Own(call'[c]) = {}
      BY <2>3 DEF AccountCall, Held, Own
    <2>5. call[c].at = "spend" => t \in Numbers
      BY <1>0, <2>1 DEF AccountCall
    <2>6. PICK unspent \in [Numbers -> Nat] :
            unspent = IF call[c].at = "spend" THEN [told.unspent EXCEPT ![t] = @ + 1]
                                              ELSE told.unspent
      <3>1. told.unspent \in [Numbers -> Nat]
        BY <1>0 DEF ToldState
      <3>2. call[c].at = "spend" => told.unspent[t] + 1 \in Nat
        BY <2>5, <3>1
      <3>3. QED
        BY <3>1, <3>2
    <2>7. told' = [told EXCEPT !.unspent = unspent]
      BY <1>0, <2>2, <2>6 DEF ToldState
    <2>8. /\ told' \in ToldState /\ told'.proven = told.proven
          /\ told'.erased = told.erased /\ told'.banned = told.banned
          /\ told'.password = told.password /\ told'.verified = told.verified
          /\ told'.accepted = told.accepted /\ told'.again = told.again
          /\ told'.applied = told.applied /\ told'.unspent = unspent
      BY <1>0, <2>7 DEF ToldState
    <2>9. ~raced' => AccountIsExact'
      BY <1>0, <2>2, <2>8 DEF AccountIsExact
    <2>10. ASSUME NEW s \in Numbers, ~raced' PROVE TokenAddsUp(s)'
      <3>1. TokenAddsUp(s) /\ Cardinality(Spending(s)) \in Nat
            /\ Cardinality(Spending(s)') \in Nat
            /\ told.applied[s] \in Nat /\ told.unspent[s] \in Nat
        BY <1>0, <2>2, <2>3, <2>10, SpendingMoves DEF ToldState
      <3>2. CASE call[c].at = "spend"
        <4>1. Cardinality(Spending(s)) =
                Cardinality(Spending(s)') + (IF t = s THEN 1 ELSE 0)
          BY <2>1, <2>3, <3>2, SpendingMoves
        <4>2. unspent[s] = told.unspent[s] + (IF t = s THEN 1 ELSE 0)
          BY <1>0, <2>5, <2>6, <3>2 DEF ToldState
        <4>3. QED
          BY <2>2, <2>8, <3>1, <4>1, <4>2 DEF TokenAddsUp
      <3>3. CASE call[c].at # "spend"
        <4>1. Cardinality(Spending(s)') = Cardinality(Spending(s))
          BY <2>3, <3>3, SpendingMoves
        <4>2. QED
          BY <2>2, <2>6, <2>8, <3>1, <3>3, <4>1 DEF TokenAddsUp
      <3>4. QED
        BY <3>2, <3>3
    <2>11. /\ user'.mfaBackupCodes \subseteq user.mfaBackupCodes \cup Held(call[c])
           /\ told'.accepted \subseteq told.accepted \cup Held(call[c])
           /\ Held(call'[c]) \subseteq user.mfaBackupCodes \cup Held(call[c])
           /\ Own(call'[c]) \subseteq Own(call[c])
      BY <2>2, <2>4, <2>8
    <2>12. /\ user' \in UserRow /\ resets' \in ResetsState /\ edits' = edits
           /\ raced' \in BOOLEAN /\ (~raced' => ~raced)
           /\ (Own(call'[c]) # {} => user' = user /\ told' = told)
      BY <1>0, <2>2, <2>4
    <2>13. ~raced' => \A s \in Numbers : TokenAddsUp(s)'
      BY <2>10
    <2>14. QED
      BY <2>3, <2>4, <2>8, <2>9, <2>11, <2>12, <2>13, AccountsUpdate
  <1>11. QED
    <2>1. PICK c \in Calls :
            \/ \E isBanned \in BOOLEAN : banUser(c, isBanned)
            \/ deleteAccount(c) \/ changeColumn(c) \/ generateMfaSecret(c)
            \/ verifyEmail(c) \/ resendVerification(c) \/ verifyMfaSecret(c)
            \/ disableMfa(c) \/ regenerateBackupCodes(c) \/ forgotPassword(c)
            \/ \E code \in Codes : useBackupCode(c, code)
            \/ \E t \in Numbers : resetPassword(c, t)
            \/ verifyEmail_update(c) \/ resendVerification_update(c)
            \/ verifyMfaSecret_update(c) \/ disableMfa_update(c)
            \/ regenerateBackupCodes_update(c)
            \/ useBackupCode_update(c) \/ resetPassword_update(c)
            \/ save(c) \/ useBackupCode_save(c) \/ resetPassword_save(c)
            \/ resetPassword_spend(c) \/ forgotPassword_insert(c) \/ AccountFails(c)
      BY Zenon DEF AccountsNext
    <2>2. CASE \/ \E isBanned \in BOOLEAN : banUser(c, isBanned)
               \/ deleteAccount(c) \/ changeColumn(c) \/ generateMfaSecret(c)
      BY <1>1, <2>2
    <2>3. CASE \/ verifyEmail(c) \/ resendVerification(c) \/ verifyMfaSecret(c)
               \/ disableMfa(c) \/ regenerateBackupCodes(c) \/ forgotPassword(c)
               \/ \E code \in Codes : useBackupCode(c, code)
               \/ \E t \in Numbers : resetPassword(c, t)
      BY <1>2, <2>3
    <2>4. QED
      BY <1>3, <1>4, <1>5, <1>6, <1>7, <1>8, <1>9, <1>10, <2>1, <2>2, <2>3

----------------------------------------------------------------------------
(* courses *)

CatalogState ==
  [indexed : BOOLEAN, versions : Seq(Nat), plans : 0 .. MaxPlans, past : SUBSET Plans,
   wanted : {"none", "draft", "scheduled", "published", "removed"},
   released : [Plans -> Nat], announced : [Plans -> Nat], unindexed : BOOLEAN]

Announcing(s) == {c \in Calls : At(c, "announce") /\ call[c].id = s}

\* What a call in state k holds: the row it read and what it makes of that.
CourseCall(k) ==
  /\ k.at \in {"idle", "index", "save_course", "remove", "deindex", "save_schedule",
               "save_publication", "release", "announce", "version"}
  /\ k.at \in {"save_course", "remove", "save_schedule", "save_publication", "release"} =>
       k.seen \in CourseRow
  /\ k.at = "save_course" => k.arg = k.seen
  /\ k.at \in {"save_publication", "release"} => k.arg = [k.seen EXCEPT !.status = "published"]
  /\ k.at = "release" =>
       k.id \in catalog.past /\ k.seen.status = "scheduled" /\ k.seen.scheduledAt = k.id
  /\ k.at = "announce" => k.id \in Plans
  /\ k.at = "version" => k.seen \in Nat

ReleasesAddUp(s) ==
  /\ catalog.released[s] > 0 => s \in catalog.past
  /\ catalog.announced[s] + Cardinality(Announcing(s)) <= catalog.released[s]

\* Without a race: the row is as last answered, and what is scheduled is not released.
CourseIsExact ==
  /\ \A s \in Plans : catalog.released[s] <= 1
  /\ course = None <=> catalog.wanted \in {"none", "removed"}
  /\ course # None => course.status = catalog.wanted
  /\ course # None /\ course.status = "scheduled" =>
       course.scheduledAt \in Plans /\ catalog.released[course.scheduledAt] = 0
  /\ \A v \in 1 .. Len(catalog.versions) : catalog.versions[v] = v
  /\ ~Indexing /\ ~catalog.unindexed => (catalog.indexed <=> course # None)

CoursesInv ==
  /\ CallShape /\ raced \in BOOLEAN
  /\ course \in CourseRow \cup {None} /\ catalog \in CatalogState
  /\ catalog.past \subseteq 1 .. catalog.plans
  /\ \A c \in Calls : CourseCall(call[c])
  /\ \A s \in Plans : ReleasesAddUp(s)
  /\ ~raced => CourseIsExact

LEMMA CoursesInitInv == RequestsInit /\ CoursesInit => CoursesInv
  <1> SUFFICES ASSUME RequestsInit, CoursesInit PROVE CoursesInv
    OBVIOUS
  <1>1. catalog \in CatalogState
    BY CoursesAssumption DEF CoursesInit, CatalogState
  <1>2. /\ course = None /\ catalog.wanted = "none" /\ catalog.indexed = FALSE
        /\ catalog.versions = <<>> /\ catalog.past = {}
        /\ \A s \in Plans : catalog.released[s] = 0 /\ catalog.announced[s] = 0
    BY DEF CoursesInit
  <1>3. raced = FALSE /\ CallShape /\ \A c \in Calls : call[c].at = "idle"
    BY InitCalls DEF RequestsInit, At
  <1>4. \A s : Announcing(s) = {} /\ Cardinality({}) = 0
    BY <1>3, FS_EmptySet DEF Announcing, At
  <1>5. ASSUME NEW s \in Plans PROVE ReleasesAddUp(s)
    <2>1. Cardinality(Announcing(s)) = 0
      BY <1>4, Zenon
    <2>2. QED
      BY <1>2, <2>1 DEF ReleasesAddUp
  <1>6. \A c \in Calls : CourseCall(call[c])
    BY <1>3 DEF CourseCall
  <1>7. CourseIsExact
    BY <1>2 DEF CourseIsExact
  <1>8. QED
    BY <1>1, <1>2, <1>3, <1>5, <1>6, <1>7 DEF CoursesInv

LEMMA AnnouncingMoves ==
    ASSUME NEW c \in Calls, \A d \in Calls \ {c} : call'[d] = call[d], NEW s
    PROVE  /\ Cardinality(Announcing(s)) \in Nat /\ Cardinality(Announcing(s)') \in Nat
           /\ ~(call'[c].at = "announce" /\ call'[c].id = s)
                => Cardinality(Announcing(s)') <= Cardinality(Announcing(s))
           /\ Cardinality(Announcing(s)') <= Cardinality(Announcing(s)) + 1
           /\ call[c].at = "announce" /\ call[c].id = s /\ call'[c].at # "announce"
                => Cardinality(Announcing(s)) = Cardinality(Announcing(s)') + 1
  <1>1. Announcing(s) \subseteq Calls /\ Announcing(s)' \subseteq Calls
    BY DEF Announcing
  <1>2. \A d \in Calls \ {c} : d \in Announcing(s) <=> d \in Announcing(s)'
    BY DEF Announcing, At
  <1>3. /\ c \in Announcing(s) <=> call[c].at = "announce" /\ call[c].id = s
        /\ c \in Announcing(s)' <=> call'[c].at = "announce" /\ call'[c].id = s
    BY DEF Announcing, At
  <1>4. PICK S \in SUBSET Calls, T \in SUBSET Calls : S = Announcing(s) /\ T = Announcing(s)'
    BY <1>1
  <1>5. QED
    BY <1>2, <1>3, <1>4, OneCallMoves

\* What remains to be shown of a step of c; the other calls keep what they hold.
LEMMA CoursesUpdate ==
    ASSUME CoursesInv, NEW c \in Calls, CallShape', raced' \in BOOLEAN,
           \A d \in Calls \ {c} : call'[d] = call[d],
           course' \in CourseRow \cup {None}, catalog' \in CatalogState,
           catalog.plans <= catalog'.plans, catalog'.past = catalog.past,
           CourseCall(call[c])',
           \A s \in Plans : ReleasesAddUp(s)',
           ~raced' => CourseIsExact'
    PROVE  CoursesInv'
  <1>1. ASSUME NEW d \in Calls \ {c} PROVE CourseCall(call[d])'
    BY DEF CoursesInv, CourseCall
  <1>2. \A d \in Calls : CourseCall(call[d])'
    BY <1>1
  <1>3. catalog'.past \subseteq 1 .. catalog'.plans
    BY DEF CoursesInv, CatalogState
  <1>4. QED
    BY <1>2, <1>3 DEF CoursesInv

LEMMA ReleasesStay ==
    ASSUME CoursesInv, NEW c \in Calls, \A d \in Calls \ {c} : call'[d] = call[d],
           call'[c].at # "announce", catalog'.past = catalog.past,
           catalog'.released = catalog.released, catalog'.announced = catalog.announced
    PROVE  \A s \in Plans : ReleasesAddUp(s)'
  <1> SUFFICES ASSUME NEW s \in Plans PROVE ReleasesAddUp(s)'
    OBVIOUS
  <1>1. Cardinality(Announcing(s)') <= Cardinality(Announcing(s))
        /\ Cardinality(Announcing(s)) \in Nat /\ Cardinality(Announcing(s)') \in Nat
    BY AnnouncingMoves
  <1>2. catalog.announced[s] \in Nat /\ catalog.released[s] \in Nat /\ ReleasesAddUp(s)
    BY DEF CoursesInv, CatalogState
  <1>3. QED
    BY <1>1, <1>2 DEF ReleasesAddUp

LEMMA CoursesStep == CoursesInv /\ CoursesNext => CoursesInv'
  <1> SUFFICES ASSUME CoursesInv, CoursesNext PROVE CoursesInv'
    OBVIOUS
  <1>0. /\ CallShape /\ raced \in BOOLEAN
        /\ course \in CourseRow \cup {None} /\ catalog \in CatalogState
        /\ catalog.past \subseteq 1 .. catalog.plans
        /\ \A c \in Calls : CourseCall(call[c])
        /\ \A s \in Plans : ReleasesAddUp(s)
        /\ ~raced => CourseIsExact
    BY DEF CoursesInv
  <1> USE DEF At
  \* A call that begins.
  <1>1. ASSUME NEW c \in Calls, course' = course, catalog' = catalog, raced' = raced, CallShape',
               \A d \in Calls \ {c} : call'[d] = call[d], call[c].at = "idle",
               call'[c].at \notin {"idle", "index", "deindex", "announce"}, CourseCall(call'[c])
        PROVE  CoursesInv'
    <2>1. Indexing' = Indexing
      BY <1>1 DEF Indexing
    <2>2. \A s \in Plans : ReleasesAddUp(s)'
      BY <1>1, ReleasesStay
    <2>3. CourseCall(call[c])'
      BY <1>1 DEF CourseCall
    <2>4. ~raced' => CourseIsExact'
      BY <1>0, <1>1, <2>1 DEF CourseIsExact
    <2>5. catalog.plans <= catalog'.plans
      BY <1>0, <1>1 DEF CatalogState
    <2>6. QED
      BY <1>0, <1>1, <2>2, <2>3, <2>4, <2>5, CoursesUpdate
  <1>2. ASSUME NEW c \in Calls,
               \/ update(c) \/ delete(c) \/ scheduleCourse(c) \/ publishNow(c)
               \/ publishScheduledCourses(c) \/ createVersion(c)
        PROVE  CoursesInv'
    <2>0. Len(catalog.versions) \in Nat
      BY <1>0 DEF CatalogState
    <2>1. PICK step, i, seen, a :
            /\ Reads(c, step, i, seen, a) /\ UNCHANGED courseVars
            /\ course # None
            /\ \/ step = "save_course" /\ seen = course /\ a = course
               \/ step \in {"remove", "save_schedule"} /\ seen = course
               \/ step = "save_publication" /\ seen = course
                  /\ a = [course EXCEPT !.status = "published"]
               \/ step = "release" /\ seen = course /\ i = course.scheduledAt
                  /\ a = [course EXCEPT !.status = "published"]
                  /\ course.status = "scheduled" /\ i \in catalog.past
               \/ step = "version" /\ seen \in Nat
      BY <1>2, <2>0 DEF update, delete, scheduleCourse, publishNow, publishScheduledCourses,
                        createVersion
    <2>2. /\ CallShape' /\ call[c].at = "idle" /\ raced' = raced
          /\ call'[c].at = step /\ call'[c].id = i /\ call'[c].seen = seen /\ call'[c].arg = a
          /\ \A d \in Calls \ {c} : call'[d] = call[d]
      BY <1>0, <2>1, ReadsEffect
    <2>3. course \in CourseRow
      BY <1>0, <2>1
    <2>4. CourseCall(call'[c])
      BY <2>1, <2>2, <2>3 DEF CourseCall
    <2>5. step \notin {"idle", "index", "deindex", "announce"}
      BY <2>1
    <2>6. QED
      BY <1>1, <2>1, <2>2, <2>4, <2>5 DEF courseVars
  \* A call that saves the row and no more.
  <1>3. ASSUME NEW c \in Calls, create(c) PROVE CoursesInv'
    <2> DEFINE row == [status |-> "draft", scheduledAt |-> None]
    <2>1. /\ Reads(c, "index", None, None, None) /\ course' = row
          /\ catalog' = [catalog EXCEPT !.wanted = "draft"] /\ catalog.wanted = "none"
      BY <1>3 DEF create
    <2>2. row \in CourseRow /\ row.status = "draft" /\ row # None
      BY CourseRowAssumption DEF CourseRow
    <2> HIDE DEF row
    <2>3. /\ CallShape' /\ raced' = raced /\ call[c].at = "idle" /\ call'[c].at = "index"
          /\ \A d \in Calls \ {c} : call'[d] = call[d]
      BY <1>0, <2>1, ReadsEffect
    <2>4. /\ catalog' \in CatalogState /\ catalog'.past = catalog.past
          /\ catalog'.plans = catalog.plans /\ catalog'.released = catalog.released
          /\ catalog'.announced = catalog.announced /\ catalog'.wanted = "draft"
          /\ catalog'.versions = catalog.versions
      BY <1>0, <2>1 DEF CatalogState
    <2>5. \A s \in Plans : ReleasesAddUp(s)'
      BY <2>3, <2>4, ReleasesStay
    <2>6. Indexing' /\ CourseCall(call[c])'
      BY <2>3 DEF Indexing, CourseCall
    <2>7. ~raced' => CourseIsExact'
      BY <1>0, <2>1, <2>2, <2>3, <2>4, <2>6 DEF CourseIsExact
    <2>8. catalog.plans <= catalog'.plans
      BY <1>0, <2>4 DEF CatalogState
    <2>9. QED
      BY <1>0, <2>1, <2>2, <2>3, <2>4, <2>5, <2>6, <2>7, <2>8, CoursesUpdate
  <1>4. ASSUME NEW c \in Calls, update_save(c) PROVE CoursesInv'
    <2>1. /\ call[c].at = "save_course" /\ course' = call[c].arg /\ catalog' = catalog
          /\ raced' = (raced \/ call[c].seen # course)
          /\ Waits(c, "index", None, None, None)
      BY <1>4 DEF update_save, Trusts
    <2>2. /\ CallShape' /\ call'[c].at = "index" /\ \A d \in Calls \ {c} : call'[d] = call[d]
      BY <1>0, <2>1, WaitsEffect
    <2>3. course' \in CourseRow /\ (~raced' => ~raced /\ course' = course)
      BY <1>0, <2>1 DEF CourseCall
    <2>4. Indexing' /\ CourseCall(call[c])'
      BY <2>2 DEF Indexing, CourseCall
    <2>5. \A s \in Plans : ReleasesAddUp(s)'
      BY <2>1, <2>2, ReleasesStay
    <2>6. ~raced' => CourseIsExact'
      BY <1>0, <2>1, <2>3, <2>4 DEF CourseIsExact
    <2>7. catalog.plans <= catalog'.plans /\ raced' \in BOOLEAN
      BY <1>0, <2>1 DEF CatalogState
    <2>8. QED
      BY <1>0, <2>1, <2>2, <2>3, <2>4, <2>5, <2>6, <2>7, CoursesUpdate
  <1>5. ASSUME NEW c \in Calls, delete_remove(c) PROVE CoursesInv'
    <2>1. /\ call[c].at = "remove" /\ course' = None
          /\ catalog' = [catalog EXCEPT !.wanted = "removed", !.versions = <<>>]
          /\ raced' = (raced \/ call[c].seen # course)
          /\ Waits(c, "deindex", None, None, None)
      BY <1>5 DEF delete_remove, Trusts
    <2>2. /\ CallShape' /\ call'[c].at = "deindex" /\ \A d \in Calls \ {c} : call'[d] = call[d]
      BY <1>0, <2>1, WaitsEffect
    <2>a. <<>> \in Seq(Nat)
      OBVIOUS
    <2>0. PICK empty : empty = <<>> /\ empty \in Seq(Nat)
      BY <2>a, Zenon
    <2>3. /\ catalog' \in CatalogState /\ catalog'.past = catalog.past
          /\ catalog'.plans = catalog.plans /\ catalog'.released = catalog.released
          /\ catalog'.announced = catalog.announced /\ catalog'.wanted = "removed"
          /\ catalog'.versions = <<>>
      BY <1>0, <2>0, <2>1 DEF CatalogState
    <2>4. Indexing' /\ CourseCall(call[c])'
      BY <2>2 DEF Indexing, CourseCall
    <2>5. \A s \in Plans : ReleasesAddUp(s)'
      BY <2>2, <2>3, ReleasesStay
    <2>6. ~raced' => CourseIsExact'
      BY <1>0, <2>1, <2>3, <2>4 DEF CourseIsExact
    <2>7. catalog.plans <= catalog'.plans /\ raced' \in BOOLEAN
      BY <1>0, <2>1, <2>3 DEF CatalogState
    <2>8. QED
      BY <1>0, <2>1, <2>2, <2>3, <2>4, <2>5, <2>6, <2>7, CoursesUpdate
  <1>6. ASSUME NEW c \in Calls, NEW indexed \in BOOLEAN,
               \/ indexed /\ indexCourse(c)
               \/ ~indexed /\ deleteFromIndex(c)
        PROVE  CoursesInv'
    <2>1. /\ course' = course /\ catalog' = [catalog EXCEPT !.indexed = indexed]
          /\ raced' \in BOOLEAN
          /\ ~raced' => ~raced /\ (indexed <=> course # None)
          /\ Ends(c)
      BY <1>0, <1>6 DEF indexCourse, deleteFromIndex
    <2>2. CallShape' /\ call'[c].at = "idle" /\ \A d \in Calls \ {c} : call'[d] = call[d]
      BY <1>0, <2>1, EndsEffect
    <2>3. /\ catalog' \in CatalogState /\ catalog'.past = catalog.past
          /\ catalog'.plans = catalog.plans /\ catalog'.released = catalog.released
          /\ catalog'.announced = catalog.announced /\ catalog'.wanted = catalog.wanted
          /\ catalog'.versions = catalog.versions /\ catalog'.indexed = indexed
      BY <1>0, <2>1 DEF CatalogState
    <2>4. CourseCall(call[c])'
      BY <2>2 DEF CourseCall
    <2>5. \A s \in Plans : ReleasesAddUp(s)'
      BY <2>2, <2>3, ReleasesStay
    <2>6. ~raced' => CourseIsExact'
      BY <1>0, <2>1, <2>3 DEF CourseIsExact
    <2>7. catalog.plans <= catalog'.plans
      BY <1>0, <2>3 DEF CatalogState
    <2>8. QED
      BY <1>0, <2>1, <2>2, <2>3, <2>4, <2>5, <2>6, <2>7, CoursesUpdate
  <1>7. ASSUME NEW c \in Calls, scheduleCourse_save(c) PROVE CoursesInv'
    <2> DEFINE s == catalog.plans + 1
               row == [status |-> "scheduled", scheduledAt |-> s]
    <2>0. catalog.plans \in Nat /\ s \in Plans /\ s \in 0 .. MaxPlans /\ s \notin catalog.past
      BY <1>0, <1>7, CoursesAssumption DEF scheduleCourse_save, CatalogState, Plans
    <2>1. /\ call[c].at = "save_schedule" /\ course' = row
          /\ catalog' = [catalog EXCEPT !.plans = s, !.wanted = "scheduled"]
          /\ raced' = (raced \/ call[c].seen # course) /\ Ends(c)
      BY <1>7 DEF scheduleCourse_save, Trusts
    <2>2. CallShape' /\ call'[c].at = "idle" /\ \A d \in Calls \ {c} : call'[d] = call[d]
      BY <1>0, <2>1, EndsEffect
    <2>3. row \in CourseRow /\ row.status = "scheduled" /\ row.scheduledAt = s /\ row # None
      BY <2>0, CourseRowAssumption DEF CourseRow
    <2>4. catalog.plans <= s
      BY <2>0
    <2>5. catalog.released[s] = 0
      BY <1>0, <2>0 DEF ReleasesAddUp, CatalogState
    <2>6. call[c].seen # None
      BY <1>0, <2>1, CourseRowAssumption DEF CourseCall
    <2> HIDE DEF s, row
    <2>7. /\ catalog' \in CatalogState /\ catalog'.past = catalog.past
          /\ catalog'.plans = s /\ catalog'.released = catalog.released
          /\ catalog'.announced = catalog.announced /\ catalog'.wanted = "scheduled"
          /\ catalog'.versions = catalog.versions /\ catalog'.indexed = catalog.indexed
          /\ catalog'.unindexed = catalog.unindexed
      BY <1>0, <2>0, <2>1 DEF CatalogState
    <2>8. CourseCall(call[c])' /\ Indexing' = Indexing
      BY <2>1, <2>2 DEF CourseCall, Indexing
    <2>9. \A t \in Plans : ReleasesAddUp(t)'
      BY <2>2, <2>7, ReleasesStay
    <2>10. ~raced' => CourseIsExact'
      BY <1>0, <2>0, <2>1, <2>3, <2>5, <2>6, <2>7, <2>8 DEF CourseIsExact
    <2>11. raced' \in BOOLEAN
      BY <1>0, <2>1
    <2>12. QED
      BY <1>0, <2>1, <2>2, <2>3, <2>4, <2>7, <2>8, <2>9, <2>10, <2>11, CoursesUpdate
  <1>8. ASSUME NEW s \in Plans, DateComes(s) PROVE CoursesInv'
    <2> DEFINE past == catalog.past \cup {s}
    <2>1. /\ catalog' = [catalog EXCEPT !.past = past] /\ course' = course
          /\ call' = call /\ raced' = raced /\ s \in 1 .. catalog.plans
      BY <1>8 DEF DateComes, reqVars
    <2>2. past \in SUBSET Plans /\ past \subseteq 1 .. catalog.plans
      BY <1>0, <2>1 DEF CatalogState
    <2>3. /\ catalog' \in CatalogState /\ catalog'.past = past
          /\ catalog'.plans = catalog.plans /\ catalog'.released = catalog.released
          /\ catalog'.announced = catalog.announced /\ catalog'.wanted = catalog.wanted
          /\ catalog'.versions = catalog.versions /\ catalog'.indexed = catalog.indexed
          /\ catalog'.unindexed = catalog.unindexed
      <3> HIDE DEF past
      <3>1. QED
        BY <1>0, <2>1, <2>2 DEF CatalogState
    <2>4. \A t : Announcing(t)' = Announcing(t)
      BY <2>1 DEF Announcing
    <2>5. Indexing' = Indexing /\ CallShape'
      BY <1>0, <2>1 DEF Indexing, CallShape
    <2>6. \A t \in Plans : ReleasesAddUp(t)'
      BY <1>0, <2>3, <2>4 DEF ReleasesAddUp
    <2>7. \A d \in Calls : CourseCall(call[d])'
      BY <1>0, <2>1, <2>3 DEF CourseCall
    <2>8. ~raced' => CourseIsExact'
      BY <1>0, <2>1, <2>3, <2>5 DEF CourseIsExact
    <2>9. QED
      BY <1>0, <2>1, <2>2, <2>3, <2>5, <2>6, <2>7, <2>8 DEF CoursesInv
  <1>9. ASSUME NEW c \in Calls, publishNow_save(c) PROVE CoursesInv'
    <2>1. /\ call[c].at = "save_publication" /\ course' = call[c].arg
          /\ catalog' = [catalog EXCEPT !.wanted = "published"]
          /\ raced' = (raced \/ call[c].seen # course) /\ Ends(c)
      BY <1>9 DEF publishNow_save, Trusts
    <2>2. CallShape' /\ call'[c].at = "idle" /\ \A d \in Calls \ {c} : call'[d] = call[d]
      BY <1>0, <2>1, EndsEffect
    <2>3. /\ call[c].seen \in CourseRow /\ call[c].seen # None
          /\ course' = [call[c].seen EXCEPT !.status = "published"]
      BY <1>0, <2>1, CourseRowAssumption DEF CourseCall
    <2>4. course' \in CourseRow /\ course'.status = "published" /\ course' # None
      BY <2>3, CourseRowAssumption DEF CourseRow
    <2>5. /\ catalog' \in CatalogState /\ catalog'.past = catalog.past
          /\ catalog'.plans = catalog.plans /\ catalog'.released = catalog.released
          /\ catalog'.announced = catalog.announced /\ catalog'.wanted = "published"
          /\ catalog'.versions = catalog.versions /\ catalog'.indexed = catalog.indexed
          /\ catalog'.unindexed = catalog.unindexed
      BY <1>0, <2>1 DEF CatalogState
    <2>6. CourseCall(call[c])' /\ Indexing' = Indexing
      BY <2>1, <2>2 DEF CourseCall, Indexing
    <2>7. \A t \in Plans : ReleasesAddUp(t)'
      BY <2>2, <2>5, ReleasesStay
    <2>8. ~raced' => CourseIsExact'
      BY <1>0, <2>1, <2>3, <2>4, <2>5, <2>6 DEF CourseIsExact
    <2>9. raced' \in BOOLEAN /\ catalog.plans <= catalog'.plans
      BY <1>0, <2>1, <2>5 DEF CatalogState
    <2>10. QED
      BY <1>0, <2>2, <2>4, <2>5, <2>6, <2>7, <2>8, <2>9, CoursesUpdate
  <1>10. ASSUME NEW c \in Calls, publishScheduledCourses_save(c) PROVE CoursesInv'
    <2>0. PICK s \in Plans : s = call[c].id /\ s \in catalog.past
      BY <1>0, <1>10 DEF publishScheduledCourses_save, CourseCall, CatalogState
    <2> DEFINE r == [catalog.released EXCEPT ![s] = @ + 1]
    <2>1. /\ call[c].at = "release" /\ course' = call[c].arg
          /\ catalog' = [catalog EXCEPT !.wanted = "published", !.released = r]
          /\ raced' = (raced \/ call[c].seen # course) /\ Moves(c, "announce")
      BY <1>10, <2>0 DEF publishScheduledCourses_save, Trusts
    <2>2. /\ CallShape' /\ call'[c].at = "announce" /\ call'[c].id = s
          /\ \A d \in Calls \ {c} : call'[d] = call[d]
      BY <1>0, <2>0, <2>1, MovesEffect
    <2>3. /\ call[c].seen \in CourseRow /\ call[c].seen # None
          /\ call[c].seen.status = "scheduled" /\ call[c].seen.scheduledAt = s
          /\ course' = [call[c].seen EXCEPT !.status = "published"]
      BY <1>0, <2>0, <2>1, CourseRowAssumption DEF CourseCall
    <2>4. course' \in CourseRow /\ course'.status = "published" /\ course' # None
      BY <2>3, CourseRowAssumption DEF CourseRow
    <2>5. /\ r \in [Plans -> Nat] /\ r[s] = catalog.released[s] + 1
          /\ \A t \in Plans \ {s} : r[t] = catalog.released[t]
          /\ \A t \in Plans : catalog.released[t] \in Nat /\ catalog.announced[t] \in Nat
      BY <1>0 DEF CatalogState
    <2> HIDE DEF r
    <2>6. /\ catalog' \in CatalogState /\ catalog'.past = catalog.past
          /\ catalog'.plans = catalog.plans /\ catalog'.released = r
          /\ catalog'.announced = catalog.announced /\ catalog'.wanted = "published"
          /\ catalog'.versions = catalog.versions /\ catalog'.indexed = catalog.indexed
          /\ catalog'.unindexed = catalog.unindexed
      BY <1>0, <2>1, <2>5 DEF CatalogState
    <2>7. CourseCall(call[c])' /\ Indexing' = Indexing
      BY <2>0, <2>1, <2>2 DEF CourseCall, Indexing
    <2>8. ASSUME NEW t \in Plans PROVE ReleasesAddUp(t)'
      <3>1. /\ Cardinality(Announcing(t)) \in Nat /\ Cardinality(Announcing(t)') \in Nat
            /\ ReleasesAddUp(t)
        BY <1>0, <2>2, AnnouncingMoves
      <3>2. CASE t = s
        <4>1. Cardinality(Announcing(t)') <= Cardinality(Announcing(t)) + 1
          BY <2>2, AnnouncingMoves
        <4>2. QED
          BY <2>0, <2>5, <2>6, <3>1, <3>2, <4>1 DEF ReleasesAddUp
      <3>3. CASE t # s
        <4>1. Cardinality(Announcing(t)') <= Cardinality(Announcing(t))
          BY <2>2, <3>3, AnnouncingMoves
        <4>2. QED
          BY <2>5, <2>6, <3>1, <3>3, <4>1 DEF ReleasesAddUp
      <3>4. QED
        BY <3>2, <3>3
    <2>9. ~raced' => CourseIsExact'
      <3>1. ~raced' => CourseIsExact /\ call[c].seen = course /\ catalog.released[s] = 0
        BY <1>0, <2>1, <2>3 DEF CourseIsExact
      <3>2. ~raced' => \A t \in Plans : catalog'.released[t] <= 1
        BY <2>5, <2>6, <3>1 DEF CourseIsExact
      <3>3. QED
        BY <2>3, <2>4, <2>6, <2>7, <3>1, <3>2 DEF CourseIsExact
    <2>10. raced' \in BOOLEAN /\ catalog.plans <= catalog'.plans
      BY <1>0, <2>1, <2>6 DEF CatalogState
    <2>11. QED
      BY <1>0, <2>2, <2>4, <2>6, <2>7, <2>8, <2>9, <2>10, CoursesUpdate
  <1>11. ASSUME NEW c \in Calls, notifyEnrolledStudents(c) PROVE CoursesInv'
    <2>0. PICK s \in Plans : s = call[c].id
      BY <1>0, <1>11 DEF notifyEnrolledStudents, CourseCall
    <2> DEFINE a == [catalog.announced EXCEPT ![s] = @ + 1]
    <2>1. /\ call[c].at = "announce" /\ course' = course /\ raced' = raced
          /\ catalog' = [catalog EXCEPT !.announced = a]
          /\ CallShape' /\ call'[c].at = "idle" /\ \A d \in Calls \ {c} : call'[d] = call[d]
      BY <1>0, <1>11, <2>0, EndsEffect DEF notifyEnrolledStudents
    <2>2. /\ a \in [Plans -> Nat] /\ a[s] = catalog.announced[s] + 1
          /\ \A t \in Plans \ {s} : a[t] = catalog.announced[t]
          /\ \A t \in Plans : catalog.released[t] \in Nat /\ catalog.announced[t] \in Nat
      BY <1>0 DEF CatalogState
    <2> HIDE DEF a
    <2>3. /\ catalog' \in CatalogState /\ catalog'.past = catalog.past
          /\ catalog'.plans = catalog.plans /\ catalog'.released = catalog.released
          /\ catalog'.announced = a /\ catalog'.wanted = catalog.wanted
          /\ catalog'.versions = catalog.versions /\ catalog'.indexed = catalog.indexed
          /\ catalog'.unindexed = catalog.unindexed
      BY <1>0, <2>1, <2>2 DEF CatalogState
    <2>4. CourseCall(call[c])' /\ Indexing' = Indexing
      BY <2>1 DEF CourseCall, Indexing
    <2>5. ASSUME NEW t \in Plans PROVE ReleasesAddUp(t)'
      <3>1. /\ Cardinality(Announcing(t)) \in Nat /\ Cardinality(Announcing(t)') \in Nat
            /\ ReleasesAddUp(t)
        BY <1>0, <2>1, AnnouncingMoves
      <3>2. CASE t = s
        <4>1. Cardinality(Announcing(t)) = Cardinality(Announcing(t)') + 1
          BY <2>0, <2>1, <3>2, AnnouncingMoves
        <4>2. QED
          BY <2>2, <2>3, <3>1, <3>2, <4>1 DEF ReleasesAddUp
      <3>3. CASE t # s
        <4>1. Cardinality(Announcing(t)') <= Cardinality(Announcing(t))
          BY <2>1, <3>3, AnnouncingMoves
        <4>2. QED
          BY <2>2, <2>3, <3>1, <3>3, <4>1 DEF ReleasesAddUp
      <3>4. QED
        BY <3>2, <3>3
    <2>6. ~raced' => CourseIsExact'
      BY <1>0, <2>1, <2>3, <2>4 DEF CourseIsExact
    <2>7. catalog.plans <= catalog'.plans
      BY <1>0, <2>3 DEF CatalogState
    <2>8. QED
      BY <1>0, <2>1, <2>3, <2>4, <2>5, <2>6, <2>7, CoursesUpdate
  <1>12. ASSUME NEW c \in Calls, createVersion_insert(c) PROVE CoursesInv'
    <2> DEFINE new == Append(catalog.versions, call[c].seen + 1)
    <2>1. /\ call[c].at = "version" /\ course' = course
          /\ catalog' = [catalog EXCEPT !.versions = new]
          /\ raced' = (raced \/ call[c].seen # Len(catalog.versions)) /\ Ends(c)
      BY <1>12 DEF createVersion_insert, Trusts
    <2>2. CallShape' /\ call'[c].at = "idle" /\ \A d \in Calls \ {c} : call'[d] = call[d]
      BY <1>0, <2>1, EndsEffect
    <2>3. call[c].seen \in Nat /\ catalog.versions \in Seq(Nat)
      BY <1>0, <2>1 DEF CourseCall, CatalogState
    <2>4. new \in Seq(Nat)
      BY <2>3
    <2>5. ~raced' => ~raced /\ call[c].seen = Len(catalog.versions)
      BY <2>1
    <2>6. ASSUME ~raced' PROVE \A v \in 1 .. Len(new) : new[v] = v
      <3>1. \A v \in 1 .. Len(catalog.versions) : catalog.versions[v] = v
        BY <1>0, <2>5, <2>6 DEF CourseIsExact
      <3>2. QED
        BY <2>3, <2>5, <2>6, <3>1
    <2> HIDE DEF new
    <2>7. /\ catalog' \in CatalogState /\ catalog'.past = catalog.past
          /\ catalog'.plans = catalog.plans /\ catalog'.released = catalog.released
          /\ catalog'.announced = catalog.announced /\ catalog'.wanted = catalog.wanted
          /\ catalog'.versions = new /\ catalog'.indexed = catalog.indexed
          /\ catalog'.unindexed = catalog.unindexed
      BY <1>0, <2>1, <2>4 DEF CatalogState
    <2>8. CourseCall(call[c])' /\ Indexing' = Indexing
      BY <2>1, <2>2 DEF CourseCall, Indexing
    <2>9. \A t \in Plans : ReleasesAddUp(t)'
      BY <2>2, <2>7, ReleasesStay
    <2>10. ~raced' => CourseIsExact'
      BY <1>0, <2>1, <2>5, <2>6, <2>7, <2>8 DEF CourseIsExact
    <2>11. raced' \in BOOLEAN /\ catalog.plans <= catalog'.plans
      BY <1>0, <2>1, <2>7 DEF CatalogState
    <2>12. QED
      BY <1>0, <2>1, <2>2, <2>7, <2>8, <2>9, <2>10, <2>11, CoursesUpdate
  <1>13. ASSUME NEW c \in Calls, CourseFails(c) PROVE CoursesInv'
    <2>1. /\ course' = course /\ raced' = raced
          /\ CallShape' /\ call'[c].at = "idle" /\ \A d \in Calls \ {c} : call'[d] = call[d]
      BY <1>0, <1>13, EndsEffect DEF CourseFails, Fails
    <2>2. PICK u \in BOOLEAN : /\ catalog' = [catalog EXCEPT !.unindexed = u]
                               /\ catalog.unindexed => u
                               /\ call[c].at \in {"index", "deindex"} => u
      BY <1>0, <1>13 DEF CourseFails, CatalogState
    <2>3. /\ catalog' \in CatalogState /\ catalog'.past = catalog.past
          /\ catalog'.plans = catalog.plans /\ catalog'.released = catalog.released
          /\ catalog'.announced = catalog.announced /\ catalog'.wanted = catalog.wanted
          /\ catalog'.versions = catalog.versions /\ catalog'.indexed = catalog.indexed
          /\ catalog'.unindexed = u
      BY <1>0, <2>2 DEF CatalogState
    <2>4. CourseCall(call[c])' /\ (u \/ Indexing' = Indexing)
      BY <2>1, <2>2 DEF CourseCall, Indexing
    <2>5. \A t \in Plans : ReleasesAddUp(t)'
      BY <2>1, <2>3, ReleasesStay
    <2>6. ~raced' => CourseIsExact'
      BY <1>0, <2>1, <2>2, <2>3, <2>4 DEF CourseIsExact
    <2>7. catalog.plans <= catalog'.plans
      BY <1>0, <2>3 DEF CatalogState
    <2>8. QED
      BY <1>0, <2>1, <2>3, <2>4, <2>5, <2>6, <2>7, CoursesUpdate
  <1>14. QED
    BY <1>2, <1>3, <1>4, <1>5, <1>6, <1>7, <1>8, <1>9, <1>10, <1>11, <1>12, <1>13
    DEF CoursesNext

LEMMA ReleasesAreDue == CoursesInv => NoReleaseIsEarly
  <1> SUFFICES ASSUME CoursesInv PROVE NoReleaseIsEarly
    OBVIOUS
  <1>1. ASSUME NEW s \in Plans
        PROVE  /\ catalog.released[s] > 0 => s \in catalog.past
               /\ catalog.announced[s] <= catalog.released[s]
    <2>1. Cardinality(Announcing(s)) \in Nat
      <3>1. IsFiniteSet(Announcing(s))
        BY RequestsAssumption, FS_Subset DEF Announcing
      <3>2. QED
        BY <3>1, FS_CardinalityType
    <2>2. /\ catalog.announced[s] \in Nat /\ catalog.released[s] \in Nat
          /\ ReleasesAddUp(s)
      BY DEF CoursesInv, CatalogState
    <2>3. QED
      BY <2>1, <2>2 DEF ReleasesAddUp
  <1>2. QED
    BY <1>1 DEF NoReleaseIsEarly

LEMMA CoursesAreExact == CoursesInv => CoursesFollowTheirPlan
  BY DEF CoursesInv, CourseIsExact, CoursesFollowTheirPlan

----------------------------------------------------------------------------
(* the accepted answer *)

ForumState ==
  [next : Nat, flagged : SUBSET Replies, answerReplyId : Replies \cup {None}, broken : BOOLEAN]

\* A call that saw the flags unchanged names the one reply that has it.
ForumInv ==
  /\ CallShape /\ raced \in BOOLEAN
  /\ forum \in ForumState
  /\ \A c \in Calls : call[c].at \in {"idle", "unflag", "insert_reply", "name_answer"}
  /\ \A c \in Calls : At(c, "insert_reply") => call[c].seen = {}
  /\ \A c \in Calls : At(c, "name_answer") => call[c].id \in Replies
  /\ ~raced => \A c \in Calls : At(c, "name_answer") => call[c].seen = {call[c].id}
  /\ OneAnswer

LEMMA ForumInitInv == RequestsInit /\ ForumInit => ForumInv
  <1> SUFFICES ASSUME RequestsInit, ForumInit PROVE ForumInv
    OBVIOUS
  <1>1. forum \in ForumState /\ forum.flagged = {} /\ forum.answerReplyId = None
    BY DEF ForumInit, ForumState
  <1>2. raced = FALSE /\ CallShape /\ \A c \in Calls : call[c].at = "idle"
    BY InitCalls DEF RequestsInit, At
  <1>3. QED
    BY <1>1, <1>2 DEF ForumInv, OneAnswer, At

LEMMA ForumStep == ForumInv /\ ForumNext => ForumInv'
  <1> SUFFICES ASSUME ForumInv, ForumNext PROVE ForumInv'
    OBVIOUS
  <1> USE CoursesAssumption DEF ForumInv, At
  <1>1. ASSUME NEW c \in Calls, createReply(c) PROVE ForumInv'
    <2>1. /\ CallShape' /\ raced' = raced /\ forum' = forum
          /\ call[c].at = "idle" /\ call'[c].at = "unflag"
          /\ \A d \in Calls \ {c} : call'[d] = call[d]
      BY <1>1, ReadsEffect DEF createReply
    <2>2. Answering' = Answering
      BY <2>1 DEF Answering
    <2>3. QED
      BY <2>1, <2>2 DEF OneAnswer
  <1>2. ASSUME NEW c \in Calls, createReply_unflag(c) PROVE ForumInv'
    <2>1. /\ forum' = [forum EXCEPT !.flagged = {}] /\ raced' = raced
          /\ Waits(c, "insert_reply", None, forum'.flagged, None)
      BY <1>2 DEF createReply_unflag
    <2>2. forum' \in ForumState /\ forum'.flagged = {}
      BY <2>1 DEF ForumState
    <2>3. /\ CallShape' /\ call'[c].at = "insert_reply" /\ call'[c].seen = {}
          /\ \A d \in Calls \ {c} : call'[d] = call[d]
      BY <2>1, <2>2, WaitsEffect
    <2>4. Answering'
      BY <2>3 DEF Answering
    <2>5. QED
      BY <2>1, <2>2, <2>3, <2>4 DEF OneAnswer
  <1>3. ASSUME NEW c \in Calls, createReply_insert(c) PROVE ForumInv'
    <2> DEFINE n == forum.next
               new == forum.flagged \cup {n}
    <2>0. n \in Nat /\ n \in Replies /\ new \in SUBSET Replies
      BY <1>3 DEF createReply_insert, ForumState, Replies
    <2>1. /\ forum' = [forum EXCEPT !.next = n + 1, !.flagged = new]
          /\ raced' = (raced \/ call[c].seen # forum.flagged) /\ call[c].seen = {}
          /\ Waits(c, "name_answer", n, new, None)
      BY <1>3 DEF createReply_insert, Trusts
    <2>4. ~raced' => ~raced /\ new = {n}
      BY <2>1
    <2> HIDE DEF n, new
    <2>2. forum' \in ForumState /\ forum'.flagged = new
      <3>1. forum \in ForumState
        OBVIOUS
      <3>2. forum' = [next |-> n + 1, flagged |-> new,
                      answerReplyId |-> forum.answerReplyId, broken |-> forum.broken]
        BY <2>1, <3>1 DEF ForumState
      <3>3. n + 1 \in Nat
        BY <2>0
      <3>4. QED
        BY <2>0, <3>1, <3>2, <3>3 DEF ForumState
    <2>3. /\ CallShape' /\ call'[c].at = "name_answer" /\ call'[c].id = n /\ call'[c].seen = new
          /\ \A d \in Calls \ {c} : call'[d] = call[d]
      BY <2>1, WaitsEffect
    <2>5. Answering'
      BY <2>3 DEF Answering
    <2>6. QED
      BY <2>0, <2>1, <2>2, <2>3, <2>4, <2>5 DEF OneAnswer
  <1>4. ASSUME NEW c \in Calls, createReply_save(c) PROVE ForumInv'
    <2> DEFINE n == call[c].id
    <2>1. /\ forum' = [forum EXCEPT !.answerReplyId = n] /\ n \in Replies
          /\ raced' = (raced \/ call[c].seen # forum.flagged)
          /\ call[c].at = "name_answer"
      BY <1>4 DEF createReply_save, Trusts
    <2>2. forum' \in ForumState /\ forum'.flagged = forum.flagged /\ forum'.answerReplyId = n
      BY <2>1 DEF ForumState
    <2>3. CallShape' /\ call'[c].at = "idle" /\ \A d \in Calls \ {c} : call'[d] = call[d]
      BY <1>4, EndsEffect DEF createReply_save
    <2>4. ~raced' => ~raced /\ forum'.flagged = {n}
      BY <2>1, <2>2
    <2>5. ~raced' => OneAnswer'
      <3>1. n # None
        BY <2>1, RepliesAssumption
      <3>2. QED
        BY <2>2, <2>4, <3>1 DEF OneAnswer
    <2>6. QED
      BY <2>1, <2>2, <2>3, <2>4, <2>5 DEF OneAnswer
  <1>5. ASSUME NEW c \in Calls, ReplyFails(c) PROVE ForumInv'
    <2>1. /\ CallShape' /\ call'[c].at = "idle" /\ raced' = raced
          /\ \A d \in Calls \ {c} : call'[d] = call[d]
      BY <1>5, EndsEffect DEF ReplyFails, Fails
    <2>2. CASE call[c].at = "unflag"
      <3>1. forum' = forum /\ Answering' = Answering
        BY <1>5, <2>1, <2>2 DEF ReplyFails, Answering
      <3>2. QED
        BY <2>1, <3>1 DEF OneAnswer
    <2>3. CASE call[c].at # "unflag"
      <3>1. forum' = [forum EXCEPT !.broken = TRUE]
        BY <1>5, <2>3 DEF ReplyFails
      <3>2. forum' \in ForumState /\ forum'.flagged = forum.flagged /\ forum'.broken = TRUE
        BY <3>1 DEF ForumState
      <3>3. QED
        BY <2>1, <3>2 DEF OneAnswer
    <2>4. QED
      BY <2>2, <2>3
  <1>6. QED
    BY <1>1, <1>2, <1>3, <1>4, <1>5 DEF ForumNext

----------------------------------------------------------------------------
(* the offline queue *)

WritesState ==
  [next : 0 .. MaxWrites, queue : SUBSET Writes, queued : SUBSET Writes,
   direct : SUBSET Writes, deleted : SUBSET Writes,
   arrived : [Writes -> Nat], unnoticed : [Writes -> Nat]]

BrowserState ==
  [online : BOOLEAN, switches : Nat, sync : BOOLEAN,
   indicator : {"online", "offline", "syncing", "synced"}]

Settled == writes.direct \cup writes.deleted

\* What a call in state k may assume of the requests.
WriterInv(k) ==
  /\ k.at \in {"idle", "fetch", "enqueue", "answer", "flush", "delete", "register",
               "two_seconds", "three_seconds"}
  /\ k.at \in {"fetch", "enqueue"} =>
       k.id \in Written \ (writes.queue \cup writes.queued \cup Settled)
  /\ k.at = "answer" => k.id \in writes.queue \cup writes.deleted
  /\ k.at \in {"flush", "delete"} => k.arg \subseteq writes.queue
  /\ k.at = "delete" => k.id \in writes.queue \ k.arg

ArrivalsAddUp(w) ==
  writes.arrived[w] = writes.unnoticed[w] + Cardinality(Deleting(w))
                        + (IF w \in Settled THEN 1 ELSE 0)

\* A request is with one call of the page, or in the store, or settled; one run
\* of flushQueue is under way, and what it has still to send is in the store.
OfflineInv ==
  /\ CallShape /\ raced \in BOOLEAN
  /\ writes \in WritesState /\ browser \in BrowserState
  /\ writes.queue \cup writes.queued \cup Settled \subseteq Written
  /\ writes.queue \cap Settled = {}
  /\ writes.queued \subseteq writes.queue \cup writes.deleted
  /\ \A c \in Calls : WriterInv(call[c])
  /\ \A c, d \in Calls :
       call[c].at \in {"fetch", "enqueue"} /\ call[d].at \in {"fetch", "enqueue"}
         /\ call[c].id = call[d].id => c = d
  /\ \A c, d \in Calls :
       call[c].at \in {"flush", "delete"} /\ call[d].at \in {"flush", "delete"} => c = d
  /\ \A w \in Writes : ArrivalsAddUp(w)
  /\ browser.online /\ ~Timers => browser.indicator = "online"

LEMMA OfflineInitInv == RequestsInit /\ OfflineInit => OfflineInv
  <1> SUFFICES ASSUME RequestsInit, OfflineInit PROVE OfflineInv
    OBVIOUS
  <1>1. writes \in WritesState /\ browser \in BrowserState
    BY OfflineAssumption DEF OfflineInit, WritesState, BrowserState
  <1>2. /\ writes.queue = {} /\ writes.queued = {} /\ Settled = {}
        /\ \A w \in Writes : writes.arrived[w] = 0 /\ writes.unnoticed[w] = 0
        /\ browser.indicator = "online"
    BY DEF OfflineInit, Settled
  <1>3. raced = FALSE /\ CallShape /\ \A c \in Calls : call[c].at = "idle"
    BY InitCalls DEF RequestsInit, At
  <1>4. \A w \in Writes : Deleting(w) = {} /\ Cardinality({}) = 0
    BY <1>3, FS_EmptySet DEF Deleting, At
  <1>5. ASSUME NEW w \in Writes PROVE ArrivalsAddUp(w)
    <2>1. Cardinality(Deleting(w)) = 0
      BY <1>4, Zenon
    <2>2. QED
      BY <1>2, <2>1 DEF ArrivalsAddUp
  <1>6. \A c \in Calls : WriterInv(call[c])
    BY <1>3 DEF WriterInv
  <1> HIDE DEF Settled
  <1>7. QED
    BY <1>1, <1>2, <1>3, <1>5, <1>6 DEF OfflineInv

\* Of the sets of deleting calls a step of c changes at most one, by c.
LEMMA DeletingMoves ==
    ASSUME NEW c \in Calls, \A d \in Calls \ {c} : call'[d] = call[d], NEW w
    PROVE  /\ Cardinality(Deleting(w)) \in Nat /\ Cardinality(Deleting(w)') \in Nat
           /\ ~(call[c].at = "delete" /\ call[c].id = w)
              /\ ~(call'[c].at = "delete" /\ call'[c].id = w)
                => Cardinality(Deleting(w)') = Cardinality(Deleting(w))
           /\ ~(call[c].at = "delete" /\ call[c].id = w)
              /\ call'[c].at = "delete" /\ call'[c].id = w
                => Cardinality(Deleting(w)') = Cardinality(Deleting(w)) + 1
           /\ call[c].at = "delete" /\ call[c].id = w
              /\ ~(call'[c].at = "delete" /\ call'[c].id = w)
                => Cardinality(Deleting(w)) = Cardinality(Deleting(w)') + 1
  <1>1. Deleting(w) \subseteq Calls /\ Deleting(w)' \subseteq Calls
    BY DEF Deleting
  <1>2. \A d \in Calls \ {c} : d \in Deleting(w) <=> d \in Deleting(w)'
    BY DEF Deleting, At
  <1>3. /\ c \in Deleting(w) <=> call[c].at = "delete" /\ call[c].id = w
        /\ c \in Deleting(w)' <=> call'[c].at = "delete" /\ call'[c].id = w
    BY DEF Deleting, At
  <1>4. PICK S \in SUBSET Calls, T \in SUBSET Calls : S = Deleting(w) /\ T = Deleting(w)'
    BY <1>1
  <1>5. QED
    BY <1>2, <1>3, <1>4, OneCallMoves

LEMMA NextItemIsOne ==
    ASSUME NEW c, call[c].arg \subseteq Writes, call[c].arg # {}
    PROVE  NextItem(c) \in call[c].arg
  <1>1. PICK S \in SUBSET Nat : S = call[c].arg
    BY OfflineAssumption DEF Writes
  <1>2. PICK w \in S : \A v \in S : ~(<<v, w>> \in OpToRel(<, Nat))
    BY <1>1, NatLessThanWellFounded, WFMin
  <1>3. ASSUME NEW v \in S PROVE w <= v
    <2>1. ~(v < w) /\ w \in Nat /\ v \in Nat
      BY <1>2 DEF OpToRel
    <2>2. QED
      BY <2>1
  <1>4. QED
    BY <1>1, <1>3 DEF NextItem

\* What remains to be shown of a step of c.
LEMMA OfflineUpdate ==
    ASSUME OfflineInv, NEW c \in Calls, CallShape', raced' = raced,
           \A d \in Calls \ {c} : call'[d] = call[d],
           writes' \in WritesState, browser' \in BrowserState,
           (writes.queue \cup writes.queued \cup Settled \subseteq Written)',
           (writes.queue \cap Settled = {})',
           (writes.queued \subseteq writes.queue \cup writes.deleted)',
           \A d \in Calls : WriterInv(call[d])',
           call'[c].at \in {"fetch", "enqueue"} =>
             \/ call[c].at \in {"fetch", "enqueue"} /\ call'[c].id = call[c].id
             \/ call'[c].id \notin Written,
           call'[c].at \in {"flush", "delete"} => call[c].at \in {"flush", "delete"} \/ ~Flushing,
           \A w \in Writes : ArrivalsAddUp(w)',
           (browser.online /\ ~Timers => browser.indicator = "online")'
    PROVE  OfflineInv'
  <1>1. ASSUME NEW d \in Calls, NEW e \in Calls,
               call'[d].at \in {"fetch", "enqueue"}, call'[e].at \in {"fetch", "enqueue"},
               call'[d].id = call'[e].id
        PROVE  d = e
    <2>1. \A f \in Calls : call[f].at \in {"fetch", "enqueue"} => call[f].id \in Written
      BY DEF OfflineInv, WriterInv
    <2>2. QED
      BY <1>1, <2>1 DEF OfflineInv
  <1>2. ASSUME NEW d \in Calls, NEW e \in Calls,
               call'[d].at \in {"flush", "delete"}, call'[e].at \in {"flush", "delete"}
        PROVE  d = e
    BY <1>2 DEF OfflineInv, Flushing
  <1>3. raced' \in BOOLEAN
    BY DEF OfflineInv
  <1>4. QED
    BY <1>1, <1>2, <1>3 DEF OfflineInv

\* A step that leaves the sets of requests alone.
SetsStay ==
  /\ writes'.next = writes.next /\ writes'.queue = writes.queue
  /\ writes'.queued = writes.queued /\ writes'.direct = writes.direct
  /\ writes'.deleted = writes.deleted

LEMMA OfflineCounts ==
    ASSUME OfflineInv, NEW c \in Calls, CallShape', raced' = raced,
           \A d \in Calls \ {c} : call'[d] = call[d],
           writes' \in WritesState, SetsStay, browser' \in BrowserState,
           WriterInv(call'[c]),
           call'[c].at \in {"fetch", "enqueue"} =>
             call[c].at \in {"fetch", "enqueue"} /\ call'[c].id = call[c].id,
           call'[c].at \in {"flush", "delete"} => call[c].at \in {"flush", "delete"} \/ ~Flushing,
           \A w \in Writes : ArrivalsAddUp(w)',
           (browser.online /\ ~Timers => browser.indicator = "online")'
    PROVE  OfflineInv'
  <1>5. Settled' = Settled /\ Written' = Written
    BY DEF Settled, Written, SetsStay
  <1>6. \A d \in Calls : WriterInv(call[d])'
    <2>1. \A d \in Calls : WriterInv(call'[d])
      BY DEF OfflineInv
    <2>2. QED
      BY <1>5, <2>1 DEF WriterInv, SetsStay
  <1>7. /\ (writes.queue \cup writes.queued \cup Settled \subseteq Written)'
        /\ (writes.queue \cap Settled = {})'
        /\ (writes.queued \subseteq writes.queue \cup writes.deleted)'
    BY <1>5 DEF OfflineInv, SetsStay
  <1>8. QED
    BY <1>6, <1>7, OfflineUpdate

LEMMA OfflineStep == OfflineInv /\ OfflineNext => OfflineInv'
  <1> SUFFICES ASSUME OfflineInv, OfflineNext PROVE OfflineInv'
    OBVIOUS
  <1>0. /\ CallShape /\ writes \in WritesState /\ browser \in BrowserState
        /\ \A d \in Calls : WriterInv(call[d])
        /\ \A w \in Writes : ArrivalsAddUp(w)
        /\ writes.queue \cup writes.queued \cup Settled \subseteq Written
        /\ browser.online /\ ~Timers => browser.indicator = "online"
        /\ Written \subseteq Writes
    BY OfflineAssumption, SMTT(30) DEF OfflineInv, WritesState, Writes, Written
  <1> USE DEF At
  \* Steps that change the counts of one request, or none.
  <1>1. ASSUME NEW c \in Calls, NEW w \in Writes,
               CallShape', raced' = raced, browser' \in BrowserState,
               \A d \in Calls \ {c} : call'[d] = call[d],
               writes' \in WritesState, SetsStay,
               \A v \in Writes \ {w} : /\ writes'.arrived[v] = writes.arrived[v]
                                       /\ writes'.unnoticed[v] = writes.unnoticed[v],
               WriterInv(call'[c]),
               call'[c].at \in {"fetch", "enqueue"} =>
                 call[c].at \in {"fetch", "enqueue"} /\ call'[c].id = call[c].id,
               call'[c].at \in {"flush", "delete"} =>
                 call[c].at \in {"flush", "delete"} \/ ~Flushing,
               call[c].at = "delete" =>
                 /\ call[c].id = w /\ call'[c].at # "delete"
                 /\ writes'.arrived[w] + writes.unnoticed[w] + 1 = writes'.unnoticed[w] + writes.arrived[w],
               call'[c].at = "delete" =>
                 /\ call'[c].id = w
                 /\ writes'.arrived[w] + writes.unnoticed[w] = writes'.unnoticed[w] + writes.arrived[w] + 1,
               call[c].at # "delete" /\ call'[c].at # "delete" =>
                 writes'.arrived[w] + writes.unnoticed[w] = writes'.unnoticed[w] + writes.arrived[w],
               (browser.online /\ ~Timers => browser.indicator = "online")'
        PROVE  OfflineInv'
    <2>1. /\ writes.arrived \in [Writes -> Nat] /\ writes.unnoticed \in [Writes -> Nat]
          /\ writes'.arrived \in [Writes -> Nat] /\ writes'.unnoticed \in [Writes -> Nat]
      BY <1>0, <1>1 DEF WritesState
    <2>2. Settled' = Settled
      BY <1>1 DEF Settled, SetsStay
    <2>3. ASSUME NEW v \in Writes PROVE ArrivalsAddUp(v)'
      <3>1. /\ ArrivalsAddUp(v)
            /\ Cardinality(Deleting(v)) \in Nat /\ Cardinality(Deleting(v)') \in Nat
        BY <1>0, <1>1, DeletingMoves
      <3>2. CASE v # w
        <4>1. Cardinality(Deleting(v)') = Cardinality(Deleting(v))
          BY <1>1, <3>2, DeletingMoves
        <4>2. QED
          BY <1>1, <2>2, <3>1, <3>2, <4>1 DEF ArrivalsAddUp
      <3>3. CASE v = w /\ call[c].at = "delete"
        <4>1. Cardinality(Deleting(v)) = Cardinality(Deleting(v)') + 1
          BY <1>1, <3>3, DeletingMoves
        <4>2. writes'.arrived[v] + writes.unnoticed[v] + 1
                = writes'.unnoticed[v] + writes.arrived[v]
          BY <1>1, <3>3
        <4>3. QED
          BY <2>1, <2>2, <3>1, <4>1, <4>2 DEF ArrivalsAddUp
      <3>4. CASE v = w /\ call'[c].at = "delete"
        <4>1. Cardinality(Deleting(v)') = Cardinality(Deleting(v)) + 1
          BY <1>1, <3>4, DeletingMoves
        <4>2. writes'.arrived[v] + writes.unnoticed[v]
                = writes'.unnoticed[v] + writes.arrived[v] + 1
          BY <1>1, <3>4
        <4>3. QED
          BY <2>1, <2>2, <3>1, <4>1, <4>2 DEF ArrivalsAddUp
      <3>5. CASE v = w /\ call[c].at # "delete" /\ call'[c].at # "delete"
        <4>1. Cardinality(Deleting(v)') = Cardinality(Deleting(v))
          BY <1>1, <3>5, DeletingMoves
        <4>2. writes'.arrived[v] + writes.unnoticed[v] = writes'.unnoticed[v] + writes.arrived[v]
          BY <1>1, <3>5
        <4>3. QED
          BY <2>1, <2>2, <3>1, <4>1, <4>2 DEF ArrivalsAddUp
      <3>6. QED
        BY <3>2, <3>3, <3>4, <3>5
    <2>4. QED
      BY <1>1, <2>3, OfflineCounts
  <1>2. ASSUME NEW c \in Calls, call'[c].at # "delete", call[c].at # "delete",
               CallShape', raced' = raced, browser' \in BrowserState,
               \A d \in Calls \ {c} : call'[d] = call[d], writes' = writes,
               WriterInv(call'[c]),
               call'[c].at \in {"fetch", "enqueue"} =>
                 call[c].at \in {"fetch", "enqueue"} /\ call'[c].id = call[c].id,
               call'[c].at = "flush" => call[c].at = "flush" \/ ~Flushing,
               (browser.online /\ ~Timers => browser.indicator = "online")'
        PROVE  OfflineInv'
    <2>1. writes' \in WritesState /\ SetsStay
      BY <1>0, <1>2 DEF SetsStay
    <2>2. ASSUME NEW v \in Writes PROVE ArrivalsAddUp(v)'
      <3>1. Cardinality(Deleting(v)') = Cardinality(Deleting(v)) /\ Settled' = Settled
        BY <1>2, DeletingMoves DEF Settled
      <3>2. ArrivalsAddUp(v)
        BY <1>0
      <3>3. QED
        BY <1>2, <3>1, <3>2 DEF ArrivalsAddUp
    <2>3. QED
      BY <1>2, <2>1, <2>2, OfflineCounts

  \* The page.
  <1>3. ASSUME NEW c \in Calls, fetch(c) PROVE OfflineInv'
    <2> DEFINE w == writes.next
    <2>1. /\ CallShape' /\ raced' = raced /\ browser' = browser
          /\ call[c].at = "idle" /\ call'[c].at = "fetch" /\ call'[c].id = w
          /\ \A d \in Calls \ {c} : call'[d] = call[d]
      BY <1>0, <1>3, ReadsEffect DEF fetch
    <2>2. /\ writes' = [writes EXCEPT !.next = w + 1] /\ w < MaxWrites /\ w \in Nat
      BY <1>0, <1>3, OfflineAssumption DEF fetch, WritesState
    <2>3. writes' \in WritesState /\ writes'.next = w + 1
      BY <1>0, <2>2, OfflineAssumption DEF WritesState
    <2>4. /\ writes'.queue = writes.queue /\ writes'.queued = writes.queued
          /\ writes'.direct = writes.direct /\ writes'.deleted = writes.deleted
          /\ writes'.arrived = writes.arrived /\ writes'.unnoticed = writes.unnoticed
      BY <1>0, <2>2 DEF WritesState
    <2>5. Written' = Written \cup {w} /\ w \notin Written /\ Settled' = Settled
      BY <2>2, <2>3, <2>4 DEF Written, Settled
    <2>6. \A d \in Calls : WriterInv(call[d])'
      <3>1. ASSUME NEW d \in Calls \ {c} PROVE WriterInv(call[d])'
        BY <1>0, <2>1, <2>4, <2>5, <3>1 DEF WriterInv
      <3>2. WriterInv(call[c])'
        BY <1>0, <2>1, <2>4, <2>5 DEF WriterInv
      <3>3. QED
        BY <3>1, <3>2
    <2>7. ASSUME NEW v \in Writes PROVE ArrivalsAddUp(v)'
      <3>1. Cardinality(Deleting(v)') = Cardinality(Deleting(v))
        BY <2>1, DeletingMoves
      <3>2. ArrivalsAddUp(v)
        BY <1>0
      <3>3. QED
        BY <2>4, <2>5, <3>1, <3>2 DEF ArrivalsAddUp
    <2>8. Timers' = Timers
      BY <2>1 DEF Timers
    <2>9. /\ (writes.queue \cup writes.queued \cup Settled \subseteq Written)'
          /\ (writes.queue \cap Settled = {})'
          /\ (writes.queued \subseteq writes.queue \cup writes.deleted)'
      BY <2>4, <2>5 DEF OfflineInv
    <2>10. QED
      BY <1>0, <2>1, <2>3, <2>5, <2>6, <2>7, <2>8, <2>9, OfflineUpdate
  <1>4. ASSUME NEW c \in Calls, fetch_answered(c) PROVE OfflineInv'
    <2>0. PICK w \in Writes : w = call[c].id
      BY <1>0, <1>4 DEF fetch_answered, WriterInv
    <2> DEFINE a == [writes.arrived EXCEPT ![w] = @ + 1]
               new == writes.direct \cup {w}
    <2>1. /\ call[c].at = "fetch" /\ browser' = browser /\ raced' = raced
          /\ writes' = [writes EXCEPT !.arrived = a, !.direct = new]
      BY <1>4, <2>0 DEF fetch_answered
    <2>2. /\ CallShape' /\ call'[c].at = "idle" /\ \A d \in Calls \ {c} : call'[d] = call[d]
      BY <1>0, <1>4, EndsEffect DEF fetch_answered
    <2>3. w \in Written \ (writes.queue \cup writes.queued \cup Settled)
      BY <1>0, <2>0, <2>1 DEF WriterInv
    <2>4. /\ a \in [Writes -> Nat] /\ a[w] = writes.arrived[w] + 1
          /\ \A v \in Writes \ {w} : a[v] = writes.arrived[v]
          /\ \A v \in Writes : writes.arrived[v] \in Nat /\ writes.unnoticed[v] \in Nat
          /\ new \in SUBSET Writes
      BY <1>0 DEF WritesState
    <2> HIDE DEF a
    <2>5. writes' = [next |-> writes.next, queue |-> writes.queue, queued |-> writes.queued,
                     direct |-> new, deleted |-> writes.deleted,
                     arrived |-> a, unnoticed |-> writes.unnoticed]
      BY <1>0, <2>1 DEF WritesState
    <2>6. writes' \in WritesState
      BY <1>0, <2>4, <2>5 DEF WritesState
    <2>7. /\ writes'.queue = writes.queue /\ writes'.queued = writes.queued
          /\ writes'.deleted = writes.deleted
          /\ writes'.arrived = a /\ writes'.unnoticed = writes.unnoticed
          /\ Written' = Written /\ Settled' = Settled \cup {w}
      BY <2>5 DEF Written, Settled
    <2>8. \A d \in Calls : WriterInv(call[d])'
      <3>1. ASSUME NEW d \in Calls \ {c} PROVE WriterInv(call[d])'
        <4>1. call[d].at \in {"fetch", "enqueue"} => call[d].id # w
          BY <2>0, <2>1, <3>1 DEF OfflineInv
        <4>2. QED
          BY <1>0, <2>2, <2>7, <3>1, <4>1 DEF WriterInv
      <3>2. WriterInv(call[c])'
        BY <2>2 DEF WriterInv
      <3>3. QED
        BY <3>1, <3>2
    <2>9. ASSUME NEW v \in Writes PROVE ArrivalsAddUp(v)'
      <3>1. /\ Cardinality(Deleting(v)') = Cardinality(Deleting(v))
            /\ Cardinality(Deleting(v)) \in Nat
        BY <2>1, <2>2, DeletingMoves
      <3>2. ArrivalsAddUp(v)
        BY <1>0
      <3>3. QED
        BY <2>3, <2>4, <2>7, <3>1, <3>2 DEF ArrivalsAddUp
    <2>10. Timers' = Timers
      BY <2>1, <2>2 DEF Timers
    <2>11. /\ (writes.queue \cup writes.queued \cup Settled \subseteq Written)'
           /\ (writes.queue \cap Settled = {})'
           /\ (writes.queued \subseteq writes.queue \cup writes.deleted)'
      BY <2>3, <2>7 DEF OfflineInv
    <2>12. QED
      BY <1>0, <2>1, <2>2, <2>6, <2>8, <2>9, <2>10, <2>11, OfflineUpdate
  <1>5. ASSUME NEW c \in Calls, NEW lost \in BOOLEAN, fetch_rejected(c, lost) PROVE OfflineInv'
    <2>0. PICK w \in Writes : w = call[c].id
      BY <1>0, <1>5 DEF fetch_rejected, WriterInv
    <2>1. /\ call[c].at = "fetch" /\ browser' = browser /\ raced' = raced
          /\ CallShape' /\ call'[c].at = "enqueue" /\ call'[c].id = w
          /\ \A d \in Calls \ {c} : call'[d] = call[d]
      BY <1>0, <1>5, <2>0, MovesEffect DEF fetch_rejected
    <2>2. WriterInv(call'[c])
      BY <1>0, <2>0, <2>1 DEF WriterInv
    <2>3. (browser.online /\ ~Timers => browser.indicator = "online")'
      <3>1. Timers' = Timers
        BY <2>1 DEF Timers
      <3>2. QED
        BY <1>0, <2>1, <3>1
    <2>4. CASE lost
      <3> DEFINE a == [writes.arrived EXCEPT ![w] = @ + 1]
                 u == [writes.unnoticed EXCEPT ![w] = @ + 1]
      <3>1. writes' = [writes EXCEPT !.arrived = a, !.unnoticed = u]
        BY <1>5, <2>0, <2>4 DEF fetch_rejected
      <3>3. /\ a \in [Writes -> Nat] /\ u \in [Writes -> Nat]
            /\ a[w] = writes.arrived[w] + 1 /\ u[w] = writes.unnoticed[w] + 1
            /\ writes.unnoticed[w] \in Nat /\ writes.arrived[w] \in Nat
            /\ \A v \in Writes \ {w} : a[v] = writes.arrived[v] /\ u[v] = writes.unnoticed[v]
        BY <1>0 DEF WritesState
      <3> HIDE DEF a, u
      <3>4. /\ writes' \in WritesState /\ SetsStay
            /\ writes'.arrived = a /\ writes'.unnoticed = u
        BY <1>0, <3>1, <3>3 DEF WritesState, SetsStay
      <3>5. writes'.arrived[w] + writes.unnoticed[w] = writes'.unnoticed[w] + writes.arrived[w]
        BY <3>3, <3>4
      <3>2. QED
        BY <1>0, <1>1, <2>0, <2>1, <2>2, <2>3, <3>3, <3>4, <3>5
    <2>5. CASE ~lost
      BY <1>0, <1>2, <1>5, <2>0, <2>1, <2>2, <2>3, <2>5 DEF fetch_rejected
    <2>6. QED
      BY <2>4, <2>5
  <1>6. ASSUME NEW c \in Calls, enqueueRequest(c) PROVE OfflineInv'
    <2>0. PICK w \in Writes : w = call[c].id
      BY <1>0, <1>6 DEF enqueueRequest, WriterInv
    <2> DEFINE new == writes.queue \cup {w}
    <2>1. /\ call[c].at = "enqueue" /\ browser' = browser /\ raced' = raced
          /\ writes' = [writes EXCEPT !.queue = new]
          /\ CallShape' /\ call'[c].at = "answer" /\ call'[c].id = w
          /\ \A d \in Calls \ {c} : call'[d] = call[d]
      BY <1>0, <1>6, <2>0, MovesEffect DEF enqueueRequest
    <2>2. w \in Written \ (writes.queue \cup writes.queued \cup Settled)
      BY <1>0, <2>0, <2>1 DEF WriterInv
    <2>3. writes' \in WritesState /\ writes'.queue = new
      BY <1>0, <2>0, <2>1 DEF WritesState
    <2>4. /\ writes'.queued = writes.queued /\ writes'.next = writes.next
          /\ writes'.direct = writes.direct /\ writes'.deleted = writes.deleted
          /\ writes'.arrived = writes.arrived /\ writes'.unnoticed = writes.unnoticed
      BY <1>0, <2>1 DEF WritesState
    <2>5. Written' = Written /\ Settled' = Settled
      BY <2>4 DEF Written, Settled
    <2>6. \A d \in Calls : WriterInv(call[d])'
      <3>1. ASSUME NEW d \in Calls \ {c} PROVE WriterInv(call[d])'
        <4>1. call[d].at \in {"fetch", "enqueue"} => call[d].id # w
          BY <2>0, <2>1, <3>1 DEF OfflineInv
        <4>2. QED
          BY <1>0, <2>1, <2>3, <2>4, <2>5, <3>1, <4>1 DEF WriterInv
      <3>2. WriterInv(call[c])'
        BY <2>1, <2>3, <2>5 DEF WriterInv
      <3>3. QED
        BY <3>1, <3>2
    <2>7. ASSUME NEW v \in Writes PROVE ArrivalsAddUp(v)'
      <3>1. Cardinality(Deleting(v)') = Cardinality(Deleting(v))
        BY <2>1, DeletingMoves
      <3>2. ArrivalsAddUp(v)
        BY <1>0
      <3>3. QED
        BY <2>4, <2>5, <3>1, <3>2 DEF ArrivalsAddUp
    <2>8. Timers' = Timers
      BY <2>1 DEF Timers
    <2>9. /\ (writes.queue \cup writes.queued \cup Settled \subseteq Written)'
          /\ (writes.queue \cap Settled = {})'
          /\ (writes.queued \subseteq writes.queue \cup writes.deleted)'
      BY <2>2, <2>3, <2>4, <2>5 DEF OfflineInv
    <2>10. QED
      BY <1>0, <2>0, <2>1, <2>3, <2>5, <2>6, <2>7, <2>8, <2>9, OfflineUpdate
  <1>7. ASSUME NEW c \in Calls, enqueueRequest_answer(c) PROVE OfflineInv'
    <2>0. PICK w \in Writes : w = call[c].id /\ w \in writes.queue \cup writes.deleted
      BY <1>0, <1>7 DEF enqueueRequest_answer, WriterInv, Settled
    <2> DEFINE new == writes.queued \cup {w}
    <2>1. /\ call[c].at = "answer" /\ browser' = browser /\ raced' = raced
          /\ writes' = [writes EXCEPT !.queued = new]
          /\ CallShape' /\ call'[c].at = "idle"
          /\ \A d \in Calls \ {c} : call'[d] = call[d]
      BY <1>0, <1>7, <2>0, EndsEffect DEF enqueueRequest_answer
    <2>3. writes' \in WritesState /\ writes'.queued = new
      BY <1>0, <2>0, <2>1 DEF WritesState
    <2>4. /\ writes'.queue = writes.queue /\ writes'.next = writes.next
          /\ writes'.direct = writes.direct /\ writes'.deleted = writes.deleted
          /\ writes'.arrived = writes.arrived /\ writes'.unnoticed = writes.unnoticed
      BY <1>0, <2>1 DEF WritesState
    <2>5. Written' = Written /\ Settled' = Settled
      BY <2>4 DEF Written, Settled
    <2>6. \A d \in Calls : WriterInv(call[d])'
      <3>1. ASSUME NEW d \in Calls \ {c} PROVE WriterInv(call[d])'
        <4>1. WriterInv(call[d])
          BY <1>0
        <4>2. call[d].at \in {"fetch", "enqueue"} => call[d].id # w
          BY <2>0, <4>1 DEF WriterInv, Settled
        <4>3. QED
          BY <2>1, <2>3, <2>4, <2>5, <4>1, <4>2 DEF WriterInv
      <3>2. WriterInv(call[c])'
        BY <2>1 DEF WriterInv
      <3>3. QED
        BY <3>1, <3>2
    <2>7. ASSUME NEW v \in Writes PROVE ArrivalsAddUp(v)'
      <3>1. Cardinality(Deleting(v)') = Cardinality(Deleting(v))
        BY <2>1, DeletingMoves
      <3>2. ArrivalsAddUp(v)
        BY <1>0
      <3>3. QED
        BY <2>4, <2>5, <3>1, <3>2 DEF ArrivalsAddUp
    <2>8. Timers' = Timers
      BY <2>1 DEF Timers
    <2>9. /\ (writes.queue \cup writes.queued \cup Settled \subseteq Written)'
          /\ (writes.queue \cap Settled = {})'
          /\ (writes.queued \subseteq writes.queue \cup writes.deleted)'
      BY <2>0, <2>3, <2>4, <2>5 DEF OfflineInv, Settled
    <2>10. QED
      BY <1>0, <2>1, <2>3, <2>6, <2>7, <2>8, <2>9, OfflineUpdate
  \* The sync event.
  <1>8. ASSUME NEW c \in Calls, flushQueue(c) PROVE OfflineInv'
    <2>1. /\ CallShape' /\ raced' = raced /\ writes' = writes /\ ~Flushing
          /\ call[c].at = "idle" /\ call'[c].at = "flush" /\ call'[c].arg = writes.queue
          /\ \A d \in Calls \ {c} : call'[d] = call[d]
      BY <1>0, <1>8, ReadsEffect DEF flushQueue
    <2>2. browser' \in BrowserState /\ browser'.online = browser.online
          /\ browser'.indicator = browser.indicator
      BY <1>0, <1>8 DEF flushQueue, BrowserState
    <2>3. WriterInv(call'[c])
      BY <2>1 DEF WriterInv
    <2>4. Timers' = Timers
      BY <2>1 DEF Timers
    <2>5. QED
      BY <1>0, <1>2, <2>1, <2>2, <2>3, <2>4
  <1>9. ASSUME NEW c \in Calls, flushQueue_sent(c) PROVE OfflineInv'
    <2>0. PICK w \in Writes : w = NextItem(c) /\ w \in call[c].arg
      <3>1. call[c].arg \subseteq Writes /\ call[c].arg # {}
        BY <1>0, <1>9 DEF flushQueue_sent, WriterInv
      <3>2. QED
        BY <3>1, NextItemIsOne
    <2>1. /\ call[c].at = "flush" /\ browser' = browser /\ raced' = raced
          /\ Waits(c, "delete", w, None, call[c].arg \ {w})
      BY <1>9, <2>0 DEF flushQueue_sent
    <2>2. /\ CallShape' /\ call'[c].at = "delete" /\ call'[c].id = w
          /\ call'[c].arg = call[c].arg \ {w}
          /\ \A d \in Calls \ {c} : call'[d] = call[d]
      BY <1>0, <2>1, WaitsEffect
    <2> DEFINE a == [writes.arrived EXCEPT ![w] = @ + 1]
    <2>3. writes' = [writes EXCEPT !.arrived = a]
      BY <1>9, <2>0 DEF flushQueue_sent
    <2>7. /\ a \in [Writes -> Nat] /\ writes.unnoticed \in [Writes -> Nat]
          /\ a[w] = writes.arrived[w] + 1 /\ writes.unnoticed[w] \in Nat /\ writes.arrived[w] \in Nat
          /\ \A v \in Writes \ {w} : a[v] = writes.arrived[v]
      BY <1>0 DEF WritesState
    <2> HIDE DEF a
    <2>8. /\ writes' \in WritesState /\ SetsStay
          /\ writes'.arrived = a /\ writes'.unnoticed = writes.unnoticed
      BY <1>0, <2>3, <2>7 DEF WritesState, SetsStay
    <2>4. WriterInv(call'[c])
      BY <1>0, <2>0, <2>1, <2>2 DEF WriterInv
    <2>5. Timers' = Timers
      BY <2>1, <2>2 DEF Timers
    <2>9. writes'.arrived[w] + writes.unnoticed[w]
            = writes'.unnoticed[w] + writes.arrived[w] + 1
      BY <2>7, <2>8
    <2>10. /\ call[c].at = "flush" /\ call'[c].at = "delete" /\ raced' = raced
           /\ browser' \in BrowserState
           /\ (browser.online /\ ~Timers => browser.indicator = "online")'
      BY <1>0, <2>1, <2>2, <2>5
    <2>6. QED
      BY <1>1, <2>2, <2>4, <2>7, <2>8, <2>9, <2>10
  <1>10. ASSUME NEW c \in Calls, NEW lost \in BOOLEAN, flushQueue_rejected(c, lost)
         PROVE  OfflineInv'
    <2>0. PICK w \in Writes : w = NextItem(c) /\ w \in call[c].arg
      <3>1. call[c].arg \subseteq Writes /\ call[c].arg # {}
        BY <1>0, <1>10 DEF flushQueue_rejected, WriterInv
      <3>2. QED
        BY <3>1, NextItemIsOne
    <2> DEFINE rest == call[c].arg \ {w}
    <2>1. /\ call[c].at = "flush" /\ browser' = browser /\ raced' = raced
          /\ call' = [call EXCEPT ![c].arg = rest]
      BY <1>10, <2>0 DEF flushQueue_rejected
    <2> HIDE DEF rest
    <2>2. /\ CallShape' /\ call'[c].at = "flush" /\ call'[c].arg = rest
          /\ \A d \in Calls \ {c} : call'[d] = call[d]
      BY <1>0, <2>1 DEF CallShape, Fields
    <2>3. WriterInv(call'[c])
      BY <1>0, <2>1, <2>2 DEF WriterInv, rest
    <2>4. Timers' = Timers
      BY <2>1, <2>2 DEF Timers
    <2>5. CASE lost
      <3> DEFINE a == [writes.arrived EXCEPT ![w] = @ + 1]
                 u == [writes.unnoticed EXCEPT ![w] = @ + 1]
      <3>1. writes' = [writes EXCEPT !.arrived = a, !.unnoticed = u]
        BY <1>10, <2>0, <2>5 DEF flushQueue_rejected
      <3>3. /\ a \in [Writes -> Nat] /\ u \in [Writes -> Nat]
            /\ a[w] = writes.arrived[w] + 1 /\ u[w] = writes.unnoticed[w] + 1
            /\ writes.unnoticed[w] \in Nat /\ writes.arrived[w] \in Nat
            /\ \A v \in Writes \ {w} : a[v] = writes.arrived[v] /\ u[v] = writes.unnoticed[v]
        BY <1>0 DEF WritesState
      <3> HIDE DEF a, u
      <3>4. /\ writes' \in WritesState /\ SetsStay
            /\ writes'.arrived = a /\ writes'.unnoticed = u
        BY <1>0, <3>1, <3>3 DEF WritesState, SetsStay
      <3>5. writes'.arrived[w] + writes.unnoticed[w] = writes'.unnoticed[w] + writes.arrived[w]
        BY <3>3, <3>4
      <3>2. QED
        BY <1>0, <1>1, <2>0, <2>1, <2>2, <2>3, <2>4, <3>3, <3>4, <3>5
    <2>6. CASE ~lost
      BY <1>0, <1>2, <1>10, <2>0, <2>1, <2>2, <2>3, <2>4, <2>6 DEF flushQueue_rejected
    <2>7. QED
      BY <2>5, <2>6
  <1>11. ASSUME NEW c \in Calls, flushQueue_delete(c, TRUE) PROVE OfflineInv'
    <2>0. PICK w \in Writes : w = call[c].id /\ w \in writes.queue \ call[c].arg
      BY <1>0, <1>11 DEF flushQueue_delete, WriterInv
    <2> DEFINE left == writes.queue \ {w}
               gone == writes.deleted \cup {w}
    <2>1. /\ call[c].at = "delete" /\ browser' = browser /\ raced' = raced
          /\ writes' = [writes EXCEPT !.queue = left, !.deleted = gone]
          /\ Waits(c, "flush", None, None, call[c].arg)
      BY <1>11, <2>0 DEF flushQueue_delete
    <2>2. /\ CallShape' /\ call'[c].at = "flush" /\ call'[c].arg = call[c].arg
          /\ \A d \in Calls \ {c} : call'[d] = call[d]
      BY <1>0, <2>1, WaitsEffect
    <2>3. left \in SUBSET Writes /\ gone \in SUBSET Writes
      BY <1>0 DEF WritesState
    <2>4. writes' = [next |-> writes.next, queue |-> left, queued |-> writes.queued,
                     direct |-> writes.direct, deleted |-> gone,
                     arrived |-> writes.arrived, unnoticed |-> writes.unnoticed]
      BY <1>0, <2>1 DEF WritesState
    <2>5. writes' \in WritesState
      BY <1>0, <2>3, <2>4 DEF WritesState
    <2>6. /\ writes'.queue = left /\ writes'.queued = writes.queued /\ writes'.deleted = gone
          /\ writes'.arrived = writes.arrived /\ writes'.unnoticed = writes.unnoticed
          /\ Written' = Written /\ Settled' = Settled \cup {w} /\ w \notin Settled
      BY <2>0, <2>4 DEF Written, Settled, OfflineInv
    <2>7. \A d \in Calls : WriterInv(call[d])'
      <3>1. ASSUME NEW d \in Calls \ {c} PROVE WriterInv(call[d])'
        <4>1. call[d].at \notin {"flush", "delete"}
          BY <2>1, <3>1 DEF OfflineInv
        <4>2. WriterInv(call[d])
          BY <1>0
        <4>3. call[d].at \in {"fetch", "enqueue"} => call[d].id # w
          BY <2>0, <4>2 DEF WriterInv
        <4>4. QED
          BY <2>2, <2>6, <4>1, <4>2, <4>3 DEF WriterInv
      <3>2. WriterInv(call[c])'
        BY <1>0, <2>0, <2>1, <2>2, <2>6 DEF WriterInv
      <3>3. QED
        BY <3>1, <3>2
    <2>8. ASSUME NEW v \in Writes PROVE ArrivalsAddUp(v)'
      <3>1. ArrivalsAddUp(v) /\ writes.unnoticed[v] \in Nat
        BY <1>0 DEF WritesState
      <3>2. CASE v = w
        <4>1. /\ Cardinality(Deleting(v)) = Cardinality(Deleting(v)') + 1
              /\ Cardinality(Deleting(v)') \in Nat
          BY <2>0, <2>1, <2>2, <3>2, DeletingMoves
        <4>2. QED
          BY <2>6, <3>1, <3>2, <4>1 DEF ArrivalsAddUp
      <3>3. CASE v # w
        <4>1. Cardinality(Deleting(v)') = Cardinality(Deleting(v))
          BY <2>0, <2>1, <2>2, <3>3, DeletingMoves
        <4>2. QED
          BY <2>6, <3>1, <3>3, <4>1 DEF ArrivalsAddUp
      <3>4. QED
        BY <3>2, <3>3
    <2>9. Timers' = Timers
      BY <2>1, <2>2 DEF Timers
    <2>10. /\ (writes.queue \cup writes.queued \cup Settled \subseteq Written)'
           /\ (writes.queue \cap Settled = {})'
           /\ (writes.queued \subseteq writes.queue \cup writes.deleted)'
      BY <2>0, <2>6 DEF OfflineInv
    <2>11. QED
      BY <1>0, <2>1, <2>2, <2>5, <2>7, <2>8, <2>9, <2>10, OfflineUpdate
  <1>12. ASSUME NEW c \in Calls, flushQueue_delete(c, FALSE) PROVE OfflineInv'
    <2>0. PICK w \in Writes : w = call[c].id /\ w \in writes.queue \ call[c].arg
      BY <1>0, <1>12 DEF flushQueue_delete, WriterInv
    <2>1. /\ call[c].at = "delete" /\ browser' = browser /\ raced' = raced
          /\ Waits(c, "flush", None, None, call[c].arg)
      BY <1>12, <2>0 DEF flushQueue_delete
    <2>2. /\ CallShape' /\ call'[c].at = "flush" /\ call'[c].arg = call[c].arg
          /\ \A d \in Calls \ {c} : call'[d] = call[d]
      BY <1>0, <2>1, WaitsEffect
    <2> DEFINE u == [writes.unnoticed EXCEPT ![w] = @ + 1]
    <2>3. writes' = [writes EXCEPT !.unnoticed = u]
      BY <1>12, <2>0 DEF flushQueue_delete
    <2>7. /\ u \in [Writes -> Nat] /\ writes.arrived \in [Writes -> Nat]
          /\ u[w] = writes.unnoticed[w] + 1 /\ writes.unnoticed[w] \in Nat /\ writes.arrived[w] \in Nat
          /\ \A v \in Writes \ {w} : u[v] = writes.unnoticed[v]
      BY <1>0 DEF WritesState
    <2> HIDE DEF u
    <2>8. /\ writes' \in WritesState /\ SetsStay
          /\ writes'.arrived = writes.arrived /\ writes'.unnoticed = u
      BY <1>0, <2>3, <2>7 DEF WritesState, SetsStay
    <2>9. writes'.arrived[w] + writes.unnoticed[w] + 1 = writes'.unnoticed[w] + writes.arrived[w]
      BY <2>7, <2>8
    <2>4. WriterInv(call'[c])
      BY <1>0, <2>0, <2>1, <2>2 DEF WriterInv
    <2>5. Timers' = Timers
      BY <2>1, <2>2 DEF Timers
    <2>6. QED
      BY <1>0, <1>1, <2>0, <2>1, <2>2, <2>4, <2>5, <2>7, <2>8, <2>9
  <1>13. ASSUME NEW c \in Calls, flushQueue_end(c) PROVE OfflineInv'
    <2>1. /\ CallShape' /\ raced' = raced /\ writes' = writes /\ browser' = browser
          /\ call[c].at = "flush" /\ call'[c].at = "idle"
          /\ \A d \in Calls \ {c} : call'[d] = call[d]
      BY <1>0, <1>13, EndsEffect DEF flushQueue_end
    <2>2. Timers' = Timers /\ WriterInv(call'[c])
      BY <2>1 DEF Timers, WriterInv
    <2>3. QED
      BY <1>0, <1>2, <2>1, <2>2
  <1>14. ASSUME NEW c \in Calls, WorkerEnds(c) PROVE OfflineInv'
    <2>1. /\ CallShape' /\ raced' = raced /\ call'[c].at = "idle"
          /\ call[c].at \in {"fetch", "enqueue", "answer", "flush", "delete"}
          /\ \A d \in Calls \ {c} : call'[d] = call[d]
      BY <1>0, <1>14, EndsEffect DEF WorkerEnds
    <2>2. /\ browser' \in BrowserState /\ browser'.online = browser.online
          /\ browser'.indicator = browser.indicator
      <3>1. PICK s \in BOOLEAN : browser' = [browser EXCEPT !.sync = s]
        BY <1>0, <1>14 DEF WorkerEnds, BrowserState
      <3>2. QED
        BY <1>0, <3>1 DEF BrowserState
    <2>3. Timers' = Timers /\ WriterInv(call'[c])
      BY <2>1 DEF Timers, WriterInv
    <2>4. CASE call[c].at = "delete"
      <3>0. PICK w \in Writes : w = call[c].id
        BY <1>0, <2>4 DEF WriterInv
      <3> DEFINE u == [writes.unnoticed EXCEPT ![w] = @ + 1]
      <3>1. writes' = [writes EXCEPT !.unnoticed = u]
        BY <1>14, <2>4, <3>0 DEF WorkerEnds
      <3>2. /\ u \in [Writes -> Nat] /\ writes.arrived \in [Writes -> Nat]
            /\ u[w] = writes.unnoticed[w] + 1 /\ writes.unnoticed[w] \in Nat /\ writes.arrived[w] \in Nat
            /\ \A v \in Writes \ {w} : u[v] = writes.unnoticed[v]
        BY <1>0 DEF WritesState
      <3> HIDE DEF u
      <3>3. /\ writes' \in WritesState /\ SetsStay
            /\ writes'.arrived = writes.arrived /\ writes'.unnoticed = u
        BY <1>0, <3>1, <3>2 DEF WritesState, SetsStay
      <3>5. writes'.arrived[w] + writes.unnoticed[w] + 1 = writes'.unnoticed[w] + writes.arrived[w]
        BY <3>2, <3>3
      <3>4. QED
        BY <1>0, <1>1, <2>1, <2>2, <2>3, <2>4, <3>0, <3>2, <3>3, <3>5
    <2>5. CASE call[c].at # "delete"
      BY <1>0, <1>2, <1>14, <2>1, <2>2, <2>3, <2>5 DEF WorkerEnds
    <2>6. QED
      BY <2>4, <2>5
  \* The network and the timers.
  <1>15. ASSUME NEW c \in Calls, GoesOnline(c) PROVE OfflineInv'
    <2>1. /\ CallShape' /\ raced' = raced /\ writes' = writes
          /\ call[c].at = "idle" /\ call'[c].at = "register"
          /\ \A d \in Calls \ {c} : call'[d] = call[d]
      BY <1>0, <1>15, ReadsEffect DEF GoesOnline
    <2>2. browser' \in BrowserState
      BY <1>0, <1>15 DEF GoesOnline, BrowserState
    <2>3. Timers' /\ WriterInv(call'[c])
      BY <2>1 DEF Timers, WriterInv
    <2>4. QED
      BY <1>0, <1>2, <2>1, <2>2, <2>3
  <1>16. ASSUME GoesOffline PROVE OfflineInv'
    <2>1. browser' \in BrowserState /\ ~browser'.online
      <3>0. browser.switches + 1 \in Nat
        BY <1>0 DEF BrowserState
      <3>1. PICK s \in Nat :
              browser' = [browser EXCEPT !.online = FALSE, !.switches = s, !.indicator = "offline"]
        BY <1>16, <3>0 DEF GoesOffline
      <3>2. QED
        BY <1>0, <3>1 DEF BrowserState
    <2>2. writes' = writes /\ call' = call /\ raced' = raced
      BY <1>16 DEF GoesOffline, reqVars
    <2>3. \A v : Deleting(v)' = Deleting(v)
      BY <2>2 DEF Deleting
    <2>4. Settled' = Settled /\ Written' = Written /\ CallShape'
      BY <1>0, <2>2 DEF Settled, Written, CallShape
    <2>5. \A v \in Writes : ArrivalsAddUp(v)'
      BY <1>0, <2>2, <2>3, <2>4 DEF ArrivalsAddUp
    <2>6. \A d \in Calls : WriterInv(call[d])'
      BY <1>0, <2>2, <2>4 DEF WriterInv
    <2>7. QED
      BY <1>0, <2>1, <2>2, <2>4, <2>5, <2>6 DEF OfflineInv
  <1>17. ASSUME NEW c \in Calls, NEW ok \in BOOLEAN, handleOnline_registered(c, ok)
         PROVE  OfflineInv'
    <2>1. /\ CallShape' /\ raced' = raced /\ writes' = writes
          /\ call[c].at = "register" /\ call'[c].at = "two_seconds"
          /\ \A d \in Calls \ {c} : call'[d] = call[d]
      BY <1>0, <1>17, MovesEffect DEF handleOnline_registered
    <2>2. browser' \in BrowserState
      <3>1. PICK s \in BOOLEAN : browser' = [browser EXCEPT !.sync = s, !.indicator = "syncing"]
        BY <1>0, <1>17 DEF handleOnline_registered, BrowserState
      <3>2. QED
        BY <1>0, <3>1 DEF BrowserState
    <2>3. Timers' /\ WriterInv(call'[c])
      BY <2>1 DEF Timers, WriterInv
    <2>4. QED
      BY <1>0, <1>2, <2>1, <2>2, <2>3
  <1>18. ASSUME NEW c \in Calls, FirstTimer(c) PROVE OfflineInv'
    <2>1. /\ CallShape' /\ raced' = raced /\ writes' = writes
          /\ call[c].at = "two_seconds" /\ call'[c].at = "three_seconds"
          /\ \A d \in Calls \ {c} : call'[d] = call[d]
      BY <1>0, <1>18, MovesEffect DEF FirstTimer
    <2>2. browser' \in BrowserState
      BY <1>0, <1>18 DEF FirstTimer, BrowserState
    <2>3. Timers' /\ WriterInv(call'[c])
      BY <2>1 DEF Timers, WriterInv
    <2>4. QED
      BY <1>0, <1>2, <2>1, <2>2, <2>3
  <1>19. ASSUME NEW c \in Calls, SecondTimer(c) PROVE OfflineInv'
    <2>1. /\ CallShape' /\ raced' = raced /\ writes' = writes
          /\ call[c].at = "three_seconds" /\ call'[c].at = "idle"
          /\ \A d \in Calls \ {c} : call'[d] = call[d]
      BY <1>0, <1>19, EndsEffect DEF SecondTimer
    <2>2. browser' \in BrowserState /\ browser'.indicator = "online"
      BY <1>0, <1>19 DEF SecondTimer, BrowserState
    <2>3. WriterInv(call'[c])
      BY <2>1 DEF WriterInv
    <2>4. QED
      BY <1>0, <1>2, <2>1, <2>2, <2>3
  <1>20. QED
    BY <1>3, <1>4, <1>5, <1>6, <1>7, <1>8, <1>9, <1>10, <1>11, <1>12, <1>13, <1>14, <1>15,
       <1>16, <1>17, <1>18, <1>19
    DEF OfflineNext

----------------------------------------------------------------------------
(* all of them *)

\* The service followed keeps its invariant; the others are as they began.
FollowedInv ==
  /\ service = "sessions" => SessionsInv
  /\ service = "bookings" => BookingsInv
  /\ service = "kyc" => KycInv
  /\ service = "proposals" => ProposalsInv
  /\ service = "moderation" => ModerationInv
  /\ service = "batch" => BatchInv /\ AllShown
  /\ service = "shutdown" => ShutdownInv
  /\ service = "email" => EmailInv
  /\ service = "optouts" => OptOutsInv
  /\ service = "limits" => RateInv
  /\ service = "cohort" => CohortInv
  /\ service = "notices" => NoticesInv
  /\ service = "accounts" => AccountsInv
  /\ service = "courses" => CoursesInv
  /\ service = "forum" => ForumInv
  /\ service = "offline" => OfflineInv

OthersInv ==
  /\ service # "sessions" => SessionsInit
  /\ service # "bookings" => BookingsInit
  /\ service # "kyc" => KycInit
  /\ service # "proposals" => ProposalsInit
  /\ service # "moderation" => ModerationInit
  /\ service # "batch" => BatchInit
  /\ service # "shutdown" => ShutdownInit
  /\ service # "email" => EmailInit
  /\ service # "optouts" => OptOutsInit
  /\ service # "limits" => limits \in LimitsState /\ WindowsHold /\ DailyHolds
  /\ service # "cohort" => members = 0
  /\ service # "notices" => NoticesInit
  /\ service # "accounts" => AccountsInit
  /\ service # "courses" => CoursesInit
  /\ service # "forum" => ForumInit
  /\ service # "offline" => OfflineInit

\* Only the shutdown counts requests in flight.
CountedInv == service # "shutdown" => InFlight = {}

ServicesInv == service \in Followed /\ FollowedInv /\ OthersInv /\ CountedInv

LEMMA ServicesInvInit == ServicesInit => ServicesInv
  <1> SUFFICES ASSUME ServicesInit PROVE ServicesInv
    OBVIOUS
  <1>2. InFlight = {}
    BY InitCalls DEF ServicesInit, InFlight, At
  <1>3. RateInv /\ CohortInv
    BY RateInitInv DEF ServicesInit
  <1>1. OthersInv
    <2>1. limits \in LimitsState /\ WindowsHold /\ DailyHolds /\ members = 0
      BY <1>3 DEF ServicesInit, RequestsInit, RateInv, RateInit
    <2>2. QED
      BY <2>1 DEF ServicesInit, OthersInv
  <1>4. AllShown
    BY DEF ServicesInit, BatchInit, NoBatch, RequestsInit, AllShown, Shown
  <1>5. FollowedInv
    BY <1>3, <1>4, SessionsInitInv, BookingsInitInv, KycInitInv, ProposalsInitInv,
       ModerationInitInv, BatchInitInv, ShutdownInitInv, EmailInitInv, OptOutsInitInv,
       NoticesInitInv, AccountsInitInv, CoursesInitInv, ForumInitInv, OfflineInitInv
    DEF ServicesInit, FollowedInv
  <1>6. QED
    BY <1>1, <1>2, <1>5 DEF ServicesInit, ServicesInv, CountedInv

LEMMA OthersStay == OthersInv /\ Unfollowed => OthersInv'
  <1> SUFFICES ASSUME OthersInv, Unfollowed PROVE OthersInv'
    OBVIOUS
  <1> USE DEF OthersInv, Unfollowed
  <1>1. (service # "sessions" => SessionsInit)'
    BY DEF SessionsInit
  <1>2. (service # "bookings" => BookingsInit)'
    BY DEF BookingsInit
  <1>3. (service # "kyc" => KycInit)'
    BY DEF KycInit, kycVars
  <1>4. (service # "proposals" => ProposalsInit)'
    BY DEF ProposalsInit
  <1>5. (service # "moderation" => ModerationInit)'
    BY DEF ModerationInit
  <1>6. (service # "batch" => BatchInit)'
    BY DEF BatchInit
  <1>7. (service # "shutdown" => ShutdownInit)'
    BY DEF ShutdownInit
  <1>8. (service # "email" => EmailInit)'
    BY DEF EmailInit
  <1>9. (service # "optouts" => OptOutsInit)'
    BY DEF OptOutsInit, optVars
  <1>10. (service # "notices" => NoticesInit)'
    BY DEF NoticesInit
  <1>11. (service # "accounts" => AccountsInit)'
    BY DEF AccountsInit, accountVars
  <1>12. (service # "courses" => CoursesInit)'
    BY DEF CoursesInit, courseVars
  <1>13. (service # "forum" => ForumInit)'
    BY DEF ForumInit
  <1>14. (service # "offline" => OfflineInit)'
    BY DEF OfflineInit, offlineVars
  <1>15. (service # "limits" => limits \in LimitsState /\ WindowsHold /\ DailyHolds)'
    BY DEF WindowsHold, DailyHolds
  <1>16. (service # "cohort" => members = 0)'
    OBVIOUS
  <1>17. QED
    BY <1>1, <1>2, <1>3, <1>4, <1>5, <1>6, <1>7, <1>8, <1>9, <1>10, <1>11, <1>12, <1>13, <1>14,
       <1>15, <1>16

\* A step of the service followed keeps its invariant, and no request appears in flight.
LEMMA FollowedStep ==
    ASSUME ServicesInv, ServicesNext
    PROVE  (FollowedInv /\ CountedInv)'
  <1>1. service' = service
    BY DEF ServicesNext, Unfollowed
  <1>2. CASE service = "sessions" /\ SessionsNext
    <2>1. SessionsInv'
      BY <1>2, SessionsStep DEF ServicesInv, FollowedInv
    <2>2. InFlight' = {}
      BY <2>1 DEF SessionsInv, InFlight, At
    <2>3. QED
      BY <1>1, <1>2, <2>1, <2>2 DEF FollowedInv, CountedInv
  <1>3. CASE service = "bookings" /\ BookingsNext
    <2>1. BookingsInv'
      BY <1>3, BookingsStep DEF ServicesInv, FollowedInv
    <2>2. InFlight' = {}
      BY <2>1 DEF BookingsInv, InFlight, At
    <2>3. QED
      BY <1>1, <1>3, <2>1, <2>2 DEF FollowedInv, CountedInv
  <1>4. CASE service = "kyc" /\ KycNext
    <2>1. KycInv'
      BY <1>4, KycStep DEF ServicesInv, FollowedInv
    <2>2. InFlight' = {}
      BY <2>1 DEF KycInv, InFlight, At
    <2>3. QED
      BY <1>1, <1>4, <2>1, <2>2 DEF FollowedInv, CountedInv
  <1>5. CASE service = "proposals" /\ ProposalsNext
    <2>1. ProposalsInv'
      BY <1>5, ProposalsStep DEF ServicesInv, FollowedInv
    <2>2. InFlight' = {}
      BY <2>1 DEF ProposalsInv, InFlight, At
    <2>3. QED
      BY <1>1, <1>5, <2>1, <2>2 DEF FollowedInv, CountedInv
  <1>6. CASE service = "moderation" /\ ModerationNext
    <2>1. ModerationInv'
      BY <1>6, ModerationStep DEF ServicesInv, FollowedInv
    <2>2. InFlight' = {}
      BY <2>1 DEF ModerationInv, InFlight, At
    <2>3. QED
      BY <1>1, <1>6, <2>1, <2>2 DEF FollowedInv, CountedInv
  <1>7. CASE service = "batch" /\ BatchNext
    <2>1. BatchInv' /\ AllShown'
      BY <1>7, BatchStep, BatchShown DEF ServicesInv, FollowedInv
    <2>2. InFlight' = {}
      BY <2>1 DEF BatchInv, InFlight, At
    <2>3. QED
      BY <1>1, <1>7, <2>1, <2>2 DEF FollowedInv, CountedInv
  <1>8. CASE service = "shutdown" /\ ShutdownNext
    BY <1>1, <1>8, ShutdownStep DEF ServicesInv, FollowedInv, CountedInv
  <1>9. CASE service = "email" /\ EmailNext
    <2>1. EmailInv'
      BY <1>9, EmailStep DEF ServicesInv, FollowedInv
    <2>2. InFlight' = {}
      BY <2>1 DEF EmailInv, InFlight, At
    <2>3. QED
      BY <1>1, <1>9, <2>1, <2>2 DEF FollowedInv, CountedInv
  <1>10. CASE service = "optouts" /\ OptOutsNext
    <2>1. OptOutsInv'
      BY <1>10, OptOutsStep DEF ServicesInv, FollowedInv
    <2>2. InFlight' = {}
      BY <2>1 DEF OptOutsInv, InFlight, At
    <2>3. QED
      BY <1>1, <1>10, <2>1, <2>2 DEF FollowedInv, CountedInv
  <1>11. CASE service = "limits" /\ RateNext
    <2>1. RateInv'
      BY <1>11, RateStep DEF ServicesInv, FollowedInv
    <2>2. InFlight' = {}
      BY <2>1 DEF RateInv, RateCall, InFlight, At
    <2>3. QED
      BY <1>1, <1>11, <2>1, <2>2 DEF FollowedInv, CountedInv
  <1>12. CASE service = "cohort" /\ CohortNext
    <2>1. CohortInv'
      BY <1>12, CohortStep DEF ServicesInv, FollowedInv
    <2>2. InFlight' = {}
      BY <2>1 DEF CohortInv, InFlight, At
    <2>3. QED
      BY <1>1, <1>12, <2>1, <2>2 DEF FollowedInv, CountedInv
  <1>13. CASE service = "notices" /\ NoticesNext
    <2>1. NoticesInv'
      BY <1>13, NoticesStep DEF ServicesInv, FollowedInv
    <2>2. InFlight' = {}
      BY <2>1 DEF NoticesInv, InFlight, At, NoticeCall
    <2>3. QED
      BY <1>1, <1>13, <2>1, <2>2 DEF FollowedInv, CountedInv
  <1>14. CASE service = "accounts" /\ AccountsNext
    <2>1. AccountsInv'
      BY <1>14, AccountsStep DEF ServicesInv, FollowedInv
    <2>2. InFlight' = {}
      BY <2>1 DEF AccountsInv, InFlight, At, AccountCall
    <2>3. QED
      BY <1>1, <1>14, <2>1, <2>2 DEF FollowedInv, CountedInv
  <1>15. CASE service = "courses" /\ CoursesNext
    <2>1. CoursesInv'
      BY <1>15, CoursesStep DEF ServicesInv, FollowedInv
    <2>2. InFlight' = {}
      BY <2>1 DEF CoursesInv, InFlight, At, CourseCall
    <2>3. QED
      BY <1>1, <1>15, <2>1, <2>2 DEF FollowedInv, CountedInv
  <1>16. CASE service = "forum" /\ ForumNext
    <2>1. ForumInv'
      BY <1>16, ForumStep DEF ServicesInv, FollowedInv
    <2>2. InFlight' = {}
      BY <2>1 DEF ForumInv, InFlight, At
    <2>3. QED
      BY <1>1, <1>16, <2>1, <2>2 DEF FollowedInv, CountedInv
  <1>17. CASE service = "offline" /\ OfflineNext
    <2>1. OfflineInv'
      BY <1>17, OfflineStep DEF ServicesInv, FollowedInv
    <2>2. InFlight' = {}
      BY <2>1 DEF OfflineInv, InFlight, At, WriterInv
    <2>3. QED
      BY <1>1, <1>17, <2>1, <2>2 DEF FollowedInv, CountedInv
  <1>18. QED
    BY <1>2, <1>3, <1>4, <1>5, <1>6, <1>7, <1>8, <1>9, <1>10, <1>11, <1>12,
       <1>13, <1>14, <1>15, <1>16, <1>17 DEF ServicesNext

LEMMA AccountsBeginKept == AccountsInit => AccountsAreKept
  <1> SUFFICES ASSUME AccountsInit PROVE AccountsAreKept
    OBVIOUS
  <1>1. resets.made = {} /\ Cardinality(resets.made) = 0
    BY FS_EmptySet DEF AccountsInit
  <1>2. /\ user.isBanned = FALSE /\ user.password = 0
        /\ user.mfaEnabled => user.mfaSecret = 0
    <2>1. CASE user = Registered
      BY <2>1 DEF Registered
    <2>2. CASE user = Protected
      BY <2>2 DEF Protected, Registered
    <2>3. QED
      BY <2>1, <2>2 DEF AccountsInit
  <1>3. /\ told.erased = FALSE /\ told.banned = FALSE /\ told.password = 0
        /\ told.verified = user.isVerified /\ told.proven = {0}
        /\ told.accepted = {} /\ told.again = FALSE
    BY DEF AccountsInit
  <1>4. told.verified => user.isVerified
    BY <1>3
  <1>5. Cardinality(resets.made) <= MaxRecent
    BY <1>1, AccountsAssumption
  <1>6. user.mfaEnabled /\ user.pii => user.mfaSecret \in told.proven
    BY <1>2, <1>3
  <1>7. user.mfaBackupCodes \cap told.accepted = {}
    BY <1>3
  <1>8. QED
    BY <1>1, <1>2, <1>3, <1>4, <1>5, <1>6, <1>7 DEF AccountsAreKept

LEMMA AccountsStutter ==
    ASSUME AccountsInv, UNCHANGED <<accountVars, call, raced>>
    PROVE  AccountsInv'
  <1> USE DEF accountVars
  <1>0. /\ user' = user /\ resets' = resets /\ edits' = edits /\ told' = told
        /\ call' = call /\ raced' = raced
    OBVIOUS
  <1>1. ASSUME NEW c \in Calls PROVE (AccountCall(call[c]) /\ BatchIsFresh(c))'
    <2>1. AccountCall(call[c])'
      <3>1. AccountCall(call[c])
        BY DEF AccountsInv
      <3>2. QED
        BY <1>0, <3>1 DEF AccountCall
    <2>2. BatchIsFresh(c)'
      <3>1. BatchIsFresh(c)
        BY DEF AccountsInv
      <3>2. QED
        BY <1>0, <3>1 DEF BatchIsFresh, Own, Held
    <2>3. QED
      BY <2>1, <2>2
  <1>2. ASSUME NEW c \in Calls PROVE (Held(call[c]) \subseteq CodesTo(edits))'
    BY <1>0 DEF AccountsInv, Held, Own, CodesTo
  <1>3. (~raced => AccountIsExact /\ \A t \in Numbers : TokenAddsUp(t))'
    BY <1>0 DEF AccountsInv, AccountIsExact, TokenAddsUp, Spending, At
  <1>4. QED
    BY <1>0, <1>1, <1>2, <1>3 DEF AccountsInv, CallShape, CodesTo

LEMMA OfflineIsSafe ==
    ASSUME OfflineInv, Written \subseteq Writes
    PROVE  QueuedWritesArrive
  <1>1. ASSUME NEW w \in Written
        PROVE  /\ w \in writes.queued => w \in writes.queue \/ writes.arrived[w] > 0
               /\ writes.arrived[w] = writes.unnoticed[w] + Cardinality(Deleting(w))
                    + (IF w \in writes.direct \cup writes.deleted THEN 1 ELSE 0)
    <2>1. w \in Writes /\ ArrivalsAddUp(w)
      BY DEF OfflineInv
    <2>2. w \in writes.queued => w \in writes.queue \/ w \in writes.deleted
      BY DEF OfflineInv
    <2>3. writes.unnoticed[w] \in Nat /\ Cardinality(Deleting(w)) \in Nat
      <3>1. Deleting(w) \subseteq Calls
        BY DEF Deleting
      <3>2. Cardinality(Deleting(w)) \in Nat
        BY <3>1, RequestsAssumption, FS_Subset, FS_CardinalityType
      <3>3. QED
        BY <2>1, <3>2 DEF OfflineInv, WritesState
    <2>4. QED
      BY <2>1, <2>2, <2>3 DEF ArrivalsAddUp, Settled
  <1>2. browser.online /\ ~Timers => browser.indicator = "online"
    BY DEF OfflineInv
  <1>3. QED
    BY <1>1, <1>2 DEF QueuedWritesArrive

LEMMA OfflineStutter ==
    ASSUME OfflineInv, UNCHANGED <<offlineVars, call, raced>>
    PROVE  OfflineInv'
  <1>0. writes' = writes /\ browser' = browser /\ call' = call /\ raced' = raced
    BY DEF offlineVars
  <1>1. ASSUME NEW c \in Calls PROVE WriterInv(call[c])'
    <2>1. WriterInv(call[c])
      BY DEF OfflineInv
    <2>2. QED
      BY <1>0, <2>1 DEF WriterInv, Written, Settled
  <1>2. ASSUME NEW w \in Writes PROVE ArrivalsAddUp(w)'
    BY <1>0 DEF OfflineInv, ArrivalsAddUp, Settled, Deleting, At
  <1>3. QED
    BY <1>0, <1>1, <1>2 DEF OfflineInv, CallShape, Written, Settled, Timers

LEMMA ServicesStutter == ServicesInv /\ UNCHANGED svcVars => ServicesInv'
  <1> SUFFICES ASSUME ServicesInv, UNCHANGED svcVars PROVE ServicesInv'
    OBVIOUS
  <1> USE DEF svcVars, At
  <1>1. (service \in Followed)' /\ CallShape' = CallShape /\ service' = service
    BY DEF ServicesInv, CallShape
  <1>2. SessionsInv => (SessionsInv)'
    BY <1>1 DEF SessionsInv, SessionsShape
  <1>3. BookingsInv => (BookingsInv)'
    BY <1>1 DEF BookingsInv, Made
  <1>4. KycInv => (KycInv)'
    BY <1>1 DEF KycInv, KycTypeOK, ApprovalIsTheProviders, isApproved, Approved, SessionStaysLinked
  <1>5. ProposalsInv => (ProposalsInv)'
    BY <1>1 DEF ProposalsInv
  <1>6. ModerationInv => (ModerationInv)'
    BY <1>1 DEF ModerationInv, ModerationTypeOK, Flagged, PendingItems
  <1>7. BatchInv /\ AllShown => (BatchInv /\ AllShown)'
    BY <1>1 DEF BatchInv, AllShown
  <1>8. ShutdownInv => (ShutdownInv)'
    BY <1>1 DEF ShutdownInv, DrainIsOrderly, InFlight, Cleaning
  <1>9. EmailInv => (EmailInv)'
    BY <1>1 DEF EmailInv, Sending
  <1>10. OptOutsInv => (OptOutsInv)'
    BY <1>1 DEF OptOutsInv, OptOutsTypeOK, RemindersShowWish, InPlace
  <1>11. RateInv => (RateInv)'
    BY <1>1 DEF RateInv, RateCall, WindowsHold, DailyHolds, LastIs
  <1>12. CohortInv => (CohortInv)'
    BY <1>1 DEF CohortInv
  <1>13. NoticesInv => (NoticesInv)'
    BY <1>1 DEF NoticesInv, NoticeAddsUp, NoticeCall, Marking
  <1>14. AccountsInv => (AccountsInv)'
    BY AccountsStutter DEF accountVars
  <1>15. CoursesInv => (CoursesInv)'
    BY <1>1 DEF CoursesInv, CourseCall, ReleasesAddUp, Announcing, CourseIsExact, Indexing, courseVars
  <1>16. ForumInv => (ForumInv)'
    BY <1>1 DEF ForumInv, OneAnswer, Answering
  <1>17. OfflineInv => (OfflineInv)'
    BY OfflineStutter DEF offlineVars
  <1>18. CountedInv'
    BY DEF ServicesInv, CountedInv, InFlight
  <1>19. Unfollowed
    BY DEF Unfollowed, kycVars, optVars, accountVars, courseVars, offlineVars
  <1>20. OthersInv'
    BY <1>19, OthersStay DEF ServicesInv
  <1>21. FollowedInv'
    BY <1>1, <1>2, <1>3, <1>4, <1>5, <1>6, <1>7, <1>8, <1>9, <1>10, <1>11, <1>12,
       <1>13, <1>14, <1>15, <1>16, <1>17 DEF ServicesInv, FollowedInv
  <1>22. QED
    BY <1>1, <1>18, <1>20, <1>21 DEF ServicesInv

THEOREM ServicesInvHolds == ServicesSpec => []ServicesInv
  <1>1. ServicesInv /\ [ServicesNext]_svcVars => ServicesInv'
    <2>1. ASSUME ServicesInv, ServicesNext PROVE ServicesInv'
      <3>1. OthersInv' /\ service' \in Followed
        BY <2>1, OthersStay DEF ServicesInv, ServicesNext, Unfollowed
      <3>2. QED
        BY <2>1, <3>1, FollowedStep DEF ServicesInv
    <2>2. QED
      BY <2>1, ServicesStutter
  <1>2. QED
    BY <1>1, ServicesInvInit, PTL DEF ServicesSpec

(* Whatever the interleaving, a failure or a restart: an answered log-out     *)
(* leaves its refresh token revoked, and one that came to blacklist its       *)
(* access token is final; an approved customer was approved by the provider;  *)
(* the drain lets no request in and never counts too many; a batch shown as   *)
(* completed did something, and one that came to its end counted every item,  *)
(* an export as one; a write the browser queued reaches the server once for   *)
(* all that the worker knows of; and no stale copy claims a vote, a delivery, *)
(* a notification or a publication that was none.                             *)
THEOREM ServicesAreSafe == ServicesSpec => []SafeUnderRaces
  <1>1. ServicesInv => SafeUnderRaces
    <2> SUFFICES ASSUME ServicesInv PROVE SafeUnderRaces
      OBVIOUS
    <2> USE DEF ServicesInv, FollowedInv, OthersInv, CountedInv
    <2>1. RevokingLogoutIsFinal
      BY DEF SessionsInv, SessionsInit, RevokingLogoutIsFinal
    <2>2. ApprovalIsTheProviders
      BY DEF KycInv, KycInit, ApprovalIsTheProviders, isApproved
    <2>3. BatchCountsAreWhole
      BY DEF BatchInv, WholeRow, ExportRow, BatchInit, NoBatch, BatchCountsAreWhole
    <2>4. DrainIsOrderly
      <3>1. CASE service = "shutdown"
        BY <3>1 DEF ShutdownInv
      <3>2. CASE service # "shutdown"
        <4>1. InFlight = {} /\ Cardinality({}) = 0
          BY <3>2, FS_EmptySet
        <4>2. server.late = FALSE /\ server.inFlightCount = 0
          BY <3>2 DEF ShutdownInit
        <4>3. server.inFlightCount = Cardinality(InFlight)
          BY <4>1, <4>2, Zenon
        <4>4. QED
          BY <4>1, <4>2, <4>3 DEF DrainIsOrderly
      <3>3. QED
        BY <3>1, <3>2
    <2>5. QueuedWritesArrive
      <3>1. CASE service = "offline"
        <4>1. Written \subseteq Writes
          BY <3>1, OfflineAssumption DEF OfflineInv, WritesState, Written, Writes
        <4>2. QED
          BY <3>1, <4>1, OfflineIsSafe
      <3>2. CASE service # "offline"
        BY <3>2 DEF OfflineInit, Written, QueuedWritesArrive
      <3>3. QED
        BY <3>1, <3>2
    <2>6. ExchangedIsRevoked
      <3>1. CASE service = "sessions"
        BY <3>1 DEF SessionsInv, ExchangedIsRevoked
      <3>2. CASE service # "sessions"
        <4>1. \A t \in Tokens : sessions.exchanged[t] = 0
          BY <3>2 DEF SessionsInit
        <4>2. QED
          BY <4>1 DEF ExchangedIsRevoked
      <3>3. QED
        BY <3>1, <3>2
    <2>7. NoVoteIsInvented
      <3>1. CASE service = "proposals"
        BY <3>1 DEF ProposalsInv, RowInv, Row, Kept, NoVoteIsInvented
      <3>2. CASE service # "proposals"
        BY <3>2 DEF ProposalsInit, Kept, NoVoteIsInvented
      <3>3. QED
        BY <3>1, <3>2
    <2>8. NoDeliveryIsInvented
      <3>1. CASE service = "email"
        <4>1. Queued \subseteq Emails
          BY <3>1, EmailAssumption DEF EmailInv, EmailState, Queued, Emails
        <4>2. QED
          BY <3>1, <4>1 DEF EmailInv, EmailRowInv, NoDeliveryIsInvented
      <3>2. CASE service # "email"
        BY <3>2 DEF EmailInit, Queued, NoDeliveryIsInvented
      <3>3. QED
        BY <3>1, <3>2
    <2>9. NoShowingIsInvented
      <3>1. CASE service = "notices"
        <4>1. Scheduled \subseteq Notices
          BY <3>1, NoticesAssumption DEF NoticesInv, NoticesState, Scheduled, Notices
        <4>2. QED
          BY <3>1, <4>1 DEF NoticesInv, NoShowingIsInvented
      <3>2. CASE service # "notices"
        BY <3>2 DEF NoticesInit, Scheduled, NoShowingIsInvented
      <3>3. QED
        BY <3>1, <3>2
    <2>10. NoReleaseIsEarly
      <3>1. CASE service = "courses"
        BY <3>1, ReleasesAreDue
      <3>2. CASE service # "courses"
        BY <3>2 DEF CoursesInit, NoReleaseIsEarly
      <3>3. QED
        BY <3>1, <3>2
    <2>11. QED
      BY <2>1, <2>2, <2>3, <2>4, <2>5, <2>6, <2>7, <2>8, <2>9, <2>10 DEF SafeUnderRaces
  <1>2. QED
    BY <1>1, ServicesInvHolds, PTL

LEMMA AtMostOne ==
    ASSUME NEW S, \A i, j \in S : i = j
    PROVE  Cardinality(S) <= 1
  <1>1. CASE S = {}
    BY <1>1, FS_EmptySet
  <1>2. ASSUME NEW i \in S PROVE Cardinality(S) <= 1
    <2>1. S = {i}
      BY <1>2
    <2>2. Cardinality(S) = 1
      BY <2>1, FS_Singleton, Zenon
    <2>3. QED
      BY <2>2
  <1>3. QED
    BY <1>1, <1>2

(* As long as no call wrote from a stale copy: a refresh token is used once,  *)
(* two confirmed bookings overlap only when neither was confirmed as the      *)
(* other was made, votes, outcomes, reports, appeals and deliveries are       *)
(* counted exactly, an ended batch says so, no mail goes out against a wish   *)
(* that was answered and every reminder of a course is off after the user     *)
(* said so, a due notification is shown once, the row of a user is as he was  *)
(* told, a course follows its plan, a post has one answer, no window lets in  *)
(* more than the limit nor a day more than the quota, and a cohort has no     *)
(* more members than places.                                                  *)
THEOREM ServicesAreExact == ServicesSpec => []ExactWithoutRaces
  <1>1. ServicesInv => RowsAreExact
    <2> SUFFICES ASSUME ServicesInv PROVE RowsAreExact
      OBVIOUS
    <2> USE DEF ServicesInv, FollowedInv, OthersInv
    <2>1. RotationIsSingleUse
      <3>1. CASE service = "sessions"
        BY <3>1 DEF SessionsInv, RotationIsSingleUse
      <3>2. CASE service # "sessions"
        <4>1. \A t \in Tokens : sessions.exchanged[t] = 0
          BY <3>2 DEF SessionsInit
        <4>2. QED
          BY <4>1 DEF RotationIsSingleUse
      <3>3. QED
        BY <3>1, <3>2
    <2>2. DoubleBookingsWerePending
      <3>1. CASE service = "bookings"
        <4>1. /\ Confirmed \subseteq Made /\ Confirmed \subseteq BookingIds
              /\ \A b \in BookingIds : bookings.before[b] \subseteq Made
          BY <3>1, BookingsAssumption DEF BookingsInv, Booking, Confirmed, Made, BookingIds
        <4>2. \A t, u : Overlap(t, u) = Overlap(u, t)
          BY DEF Overlap
        <4>3. QED
          BY <3>1, <4>1, <4>2 DEF BookingsInv, DoubleBookingsWerePending
      <3>2. CASE service # "bookings"
        BY <3>2 DEF BookingsInit, DoubleBookingsWerePending, Confirmed, Made
      <3>3. QED
        BY <3>1, <3>2
    <2>3. SessionStaysLinked
      BY DEF KycInv, KycInit, SessionStaysLinked
    <2>4. VotesAreCounted /\ OutcomesMatchCounts
      <3>1. CASE service = "proposals"
        BY <3>1 DEF ProposalsInv, RowInv, Row, Kept, VotesAreCounted, OutcomesMatchCounts
      <3>2. CASE service # "proposals"
        BY <3>2 DEF ProposalsInit, Kept, VotesAreCounted, OutcomesMatchCounts
      <3>3. QED
        BY <3>1, <3>2
    <2>5. OneReportOneAppeal
      <3>1. ~raced => \A i, j \in PendingItems \ moderation.auto : i = j
        BY DEF ModerationInv, ModerationInit, PendingItems, Flagged
      <3>2. ~raced => \A i \in Flagged :
              moderation.appeals[i] = (IF moderation.item[i].appealed THEN 1 ELSE 0)
        <4>1. CASE service = "moderation"
          BY <4>1, ModerationAssumption DEF ModerationInv, ModerationTypeOK, Flagged, Items
        <4>2. CASE service # "moderation"
          BY <4>2 DEF ModerationInit, Flagged
        <4>3. QED
          BY <4>1, <4>2
      <3>3. QED
        BY <3>1, <3>2, AtMostOne DEF OneReportOneAppeal
    <2>6. EndedBatchesShowIt
      BY DEF AllShown, Shown, BatchInit, NoBatch, EndedBatchesShowIt
    <2>7. EmailsAreAccountedFor
      <3>1. CASE service = "email"
        <4>1. Queued \subseteq Emails
          BY <3>1, EmailAssumption DEF EmailInv, EmailState, Queued, Emails
        <4>2. QED
          BY <3>1, <4>1 DEF EmailInv, EmailRowInv, EmailsAreAccountedFor
      <3>2. CASE service # "email"
        BY <3>2 DEF EmailInit, Queued, EmailsAreAccountedFor
      <3>3. QED
        BY <3>1, <3>2
    <2>8. WishesAreKept
      BY DEF OptOutsInv, OptOutsInit, WishesAreKept, RemindersShowWish, InPlace
    <2>9. NoticesAreAccountedFor
      <3>1. CASE service = "notices"
        <4>1. Scheduled \subseteq Notices
          BY <3>1, NoticesAssumption DEF NoticesInv, NoticesState, Scheduled, Notices
        <4>2. QED
          BY <3>1, <4>1 DEF NoticesInv, NoticeAddsUp, NoticesAreAccountedFor
      <3>2. CASE service # "notices"
        BY <3>2 DEF NoticesInit, Scheduled, NoticesAreAccountedFor
      <3>3. QED
        BY <3>1, <3>2
    <2>10. AccountsAreKept
      <3>1. CASE service = "accounts"
        <4>1. resets.made \subseteq Numbers
          BY <3>1 DEF AccountsInv, ResetsState
        <4>2. QED
          BY <3>1, <4>1 DEF AccountsInv, AccountIsExact, TokenAddsUp, AccountsAreKept
      <3>2. CASE service # "accounts"
        BY <3>2, AccountsBeginKept
      <3>3. QED
        BY <3>1, <3>2
    <2>11. CoursesFollowTheirPlan
      <3>1. CASE service = "courses"
        BY <3>1, CoursesAreExact
      <3>2. CASE service # "courses"
        BY <3>2 DEF CoursesInit, CoursesFollowTheirPlan
      <3>3. QED
        BY <3>1, <3>2
    <2>12. OneAnswer
      BY DEF ForumInv, ForumInit, OneAnswer
    <2>13. QED
      BY <2>1, <2>2, <2>3, <2>4, <2>5, <2>6, <2>7, <2>8, <2>9, <2>10, <2>11, <2>12
         DEF RowsAreExact
  <1>2. ServicesInv => LimitsHold
    <2> SUFFICES ASSUME ServicesInv PROVE LimitsHold
      OBVIOUS
    <2>1. ~raced => WindowsHold /\ DailyHolds
      BY DEF ServicesInv, FollowedInv, OthersInv, RateInv
    <2>2. ~raced /\ MaxMembers > 0 => members <= MaxMembers
      BY RateAssumption DEF ServicesInv, FollowedInv, OthersInv, CohortInv
    <2>3. QED
      BY <2>1, <2>2, LimitsHoldIs
  <1>3. ServicesInv => ExactWithoutRaces
    BY <1>1, <1>2 DEF ExactWithoutRaces
  <1>4. QED
    BY <1>3, ServicesInvHolds, PTL

----------------------------------------------------------------------------
(* closed rows *)

LEMMA BookingsClose ==
    ASSUME BookingsInv, BookingsNext, ~raced'
    PROVE  \A b \in BookingIds : ClosedBooking(b) => bookings'.status[b] = bookings.status[b]
  <1> USE DEF At, ClosedBooking
  <1>1. ASSUME UNCHANGED bookings
        PROVE  \A b \in BookingIds : bookings'.status[b] = bookings.status[b]
    BY <1>1
  <1>2. ASSUME NEW c \in Calls, createBooking_insert(c)
        PROVE  \A b \in BookingIds : bookings'.status[b] = bookings.status[b]
    BY <1>2 DEF createBooking_insert, BookingsInv, Booking
  <1>3. ASSUME NEW c \in Calls, SaveBooking(c), NEW b \in BookingIds, ClosedBooking(b)
        PROVE  bookings'.status[b] = bookings.status[b]
    <2>1. bookings.status[call[c].id] \in {"pending", "confirmed"}
      BY <1>3 DEF SaveBooking, Trusts, BookingsInv
    <2>2. call[c].id # b
      BY <1>3, <2>1
    <2>3. QED
      BY <1>3, <2>2 DEF SaveBooking, BookingsInv, Booking
  <1>4. QED
    BY <1>1, <1>2, <1>3 DEF BookingsNext, createBooking, respondToBooking, cancelBooking

LEMMA ProposalsClose ==
    ASSUME ProposalsInv, ProposalsNext, ~raced'
    PROVE  \A p \in DraftIds : ClosedProposal(p) =>
             drafts'[p].status \in {drafts[p].status, "removed"}
  <1> SUFFICES ASSUME NEW p \in DraftIds, ClosedProposal(p)
               PROVE  drafts'[p].status \in {drafts[p].status, "removed"}
    OBVIOUS
  <1> USE DEF At, ClosedProposal
  <1>0. DOMAIN drafts = DraftIds /\ p \in Kept /\ drafts[p] \in Row /\ drafts[p] # None
    BY DEF ProposalsInv, RowInv, Kept
  <1>1. ASSUME UNCHANGED drafts PROVE drafts'[p].status = drafts[p].status
    BY <1>1
  <1>2. ASSUME NEW c \in Calls, NEW d \in DraftIds, NEW q \in Quorums, create_proposal(c, d, q)
        PROVE  drafts'[p].status = drafts[p].status
    BY <1>0, <1>2 DEF create_proposal
  <1>3. ASSUME NEW c \in Calls, SetStatus(c) PROVE drafts'[p].status = drafts[p].status
    <2> DEFINE d == call[c].id
    <2>1. CASE d \notin Kept
      BY <1>3, <2>1 DEF SetStatus
    <2>2. CASE d \in Kept
      <3>1. /\ d \in DraftIds /\ drafts' = [drafts EXCEPT ![d].status = call[c].arg]
            /\ call[c].seen = Columns(d) /\ call[c].seen.status \in {"draft", "active"}
        BY <1>3, <2>2 DEF SetStatus, Trusts, ProposalsInv, CopyInv
      <3>2. drafts[d].status \in {"draft", "active"}
        BY <3>1 DEF Columns
      <3>3. d # p
        BY <3>2
      <3>4. QED
        BY <1>0, <3>1, <3>3
    <2>3. QED
      BY <2>1, <2>2
  <1>4. ASSUME NEW c \in Calls, recordVote_count(c) PROVE drafts'[p].status = drafts[p].status
    <2> DEFINE d == call[c].id
               side == call[c].arg
               votes == [drafts[d].cast EXCEPT ![side] = @ + 1]
               n == call[c].seen[side] + 1
    <2>1. CASE d \notin Kept
      BY <1>4, <2>1 DEF recordVote_count
    <2>2. CASE d \in Kept
      <3>1. /\ d \in DraftIds /\ side \in Sides
            /\ drafts' = [drafts EXCEPT ![d] = [drafts[d] EXCEPT ![side] = n, !.cast = votes]]
        BY <1>4, <2>2 DEF recordVote_count, ProposalsInv, CopyInv
      <3> HIDE DEF votes, n
      <3>2. [drafts[d] EXCEPT ![side] = n, !.cast = votes].status = drafts[d].status
        BY <3>1, <2>2, <1>0 DEF Sides, ProposalsInv, RowInv, Row, Kept
      <3>3. QED
        BY <1>0, <3>1, <3>2
    <2>3. QED
      BY <2>1, <2>2
  <1>5. ASSUME NEW c \in Calls, remove_delete(c)
        PROVE  drafts'[p].status \in {drafts[p].status, "removed"}
    BY <1>0, <1>5 DEF remove_delete, Row
  <1>6. ASSUME NEW d \in DraftIds, VotingEnds(d) PROVE drafts'[p].status = drafts[p].status
    BY <1>0, <1>6 DEF VotingEnds, Row
  <1>7. QED
    BY <1>1, <1>2, <1>3, <1>4, <1>5, <1>6
    DEF ProposalsNext, recordVote, activate, cancel, execute, remove, FindById

LEMMA ModerationCloses ==
    ASSUME ModerationInv, ModerationNext, ~raced'
    PROVE  /\ \A i \in Items : ClosedItem(i) => moderation'.item[i] = moderation.item[i]
           /\ \A d \in Complaints : ClosedComplaint(d) =>
                moderation'.complaint[d] = moderation.complaint[d]
  <1> DEFINE Kept1 == \A i \in Items : ClosedItem(i) => moderation'.item[i] = moderation.item[i]
             Kept2 == \A d \in Complaints : ClosedComplaint(d) =>
                        moderation'.complaint[d] = moderation.complaint[d]
  <1> USE DEF At
  <1>1. ASSUME UNCHANGED moderation PROVE Kept1 /\ Kept2
    BY <1>1
  <1>2. ASSUME NEW c \in Calls, analyzeContent(c) \/ flagContent_insert(c) \/ createDispute(c)
        PROVE  Kept1 /\ Kept2
    <2>1. moderation'.item = moderation.item /\ moderation'.complaint = moderation.complaint
      BY <1>2 DEF analyzeContent, flagContent_insert, createDispute, ModerationInv, ModerationTypeOK
    <2>2. QED
      BY <2>1
  <1>3. ASSUME NEW c \in Calls, SaveItem(c) \/ submitAppeal_save(c) PROVE Kept1 /\ Kept2
    <2>1. PICK i \in Items : i = call[c].id
      BY <1>3 DEF SaveItem, submitAppeal_save, ModerationInv
    <2>2. call[c].seen = moderation.item[i]
      BY <1>3, <2>1 DEF SaveItem, submitAppeal_save, Trusts
    <2>3. ~ClosedItem(i)
      <3>1. CASE SaveItem(c)
        <4>1. moderation.item[i].status \in {"pending", "appealed"}
          BY <2>2, <3>1 DEF SaveItem, ModerationInv
        <4>2. QED
          BY <4>1 DEF ClosedItem
      <3>2. CASE submitAppeal_save(c)
        BY <2>2, <3>2 DEF submitAppeal_save, ModerationInv, ClosedItem
      <3>3. QED
        BY <1>3, <3>1, <3>2
    <2>4. /\ moderation'.complaint = moderation.complaint
          /\ \A j \in Items \ {i} : moderation'.item[j] = moderation.item[j]
      <3> DEFINE new == moderation'.item[i]
                 appeals == moderation'.appeals
      <3>1. CASE SaveItem(c)
        BY <2>1, <3>1 DEF SaveItem, ModerationInv, ModerationTypeOK
      <3>2. CASE submitAppeal_save(c)
        BY <2>1, <3>2 DEF submitAppeal_save, ModerationInv, ModerationTypeOK
      <3>3. QED
        BY <1>3, <3>1, <3>2
    <2>5. QED
      BY <2>3, <2>4
  <1>4. ASSUME NEW c \in Calls, resolveDispute_save(c) PROVE Kept1 /\ Kept2
    <2>1. PICK d \in Complaints : d = call[c].id
      BY <1>4 DEF resolveDispute_save, ModerationInv
    <2>2. moderation.complaint[d] = "open"
      BY <1>4, <2>1 DEF resolveDispute_save, Trusts, ModerationInv
    <2>3. /\ moderation'.item = moderation.item
          /\ \A e \in Complaints \ {d} : moderation'.complaint[e] = moderation.complaint[e]
      BY <1>4, <2>1 DEF resolveDispute_save, ModerationInv, ModerationTypeOK
    <2>4. QED
      BY <2>2, <2>3 DEF ClosedComplaint
  <1> HIDE DEF Kept1, Kept2
  <1>5. Kept1 /\ Kept2
    BY <1>1, <1>2, <1>3, <1>4
    DEF ModerationNext, reviewItem, resolveAppeal, submitAppeal, Decide, resolveDispute, flagContent
  <1>6. QED
    BY <1>5 DEF Kept1, Kept2

LEMMA EmailsClose ==
    ASSUME EmailInv, EmailNext, ~raced'
    PROVE  \A e \in Emails : ClosedEmail(e) => emails'.row[e] = emails.row[e]
  <1> USE DEF At, ClosedEmail
  <1>1. ASSUME emails'.row = emails.row
        PROVE  \A e \in Emails : emails'.row[e] = emails.row[e]
    BY <1>1
  <1>2. ASSUME NEW c \in Calls, NEW ok \in BOOLEAN, sendJob(c, ok) PROVE emails'.row = emails.row
    <2>1. PICK e : e = Oldest(call[c].arg)
      OBVIOUS
    <2> DEFINE delivered == [emails.delivered EXCEPT ![e] = @ + 1]
    <2>2. emails' = IF ok THEN [emails EXCEPT !.delivered = delivered] ELSE emails
      BY <1>2, <2>1 DEF sendJob
    <2> HIDE DEF delivered
    <2>3. QED
      BY <2>2 DEF EmailInv, EmailState
  <1>3. ASSUME NEW c \in Calls, PassFails(c) PROVE emails'.row = emails.row
    <2>1. PICK e : e = call[c].id
      OBVIOUS
    <2> DEFINE unsaved == [emails.unsaved EXCEPT ![e] = @ + 1]
    <2>2. emails' = [emails EXCEPT !.unsaved = unsaved] \/ emails' = emails
      BY <1>3, <2>1 DEF PassFails
    <2> HIDE DEF unsaved
    <2>3. QED
      BY <2>2 DEF EmailInv, EmailState
  <1>4. ASSUME NEW c \in Calls, enqueue \/ processQueue(c) PROVE emails'.row = emails.row
    BY <1>4 DEF enqueue, processQueue, EmailInv, EmailState
  <1>5. ASSUME NEW c \in Calls, sendJob_save(c), NEW e \in Emails, ClosedEmail(e)
        PROVE  emails'.row[e] = emails.row[e]
    <2>1. PICK f \in Emails : f = call[c].id
      BY <1>5 DEF sendJob_save, EmailInv
    <2>2. emails.row[f].status = "pending"
      BY <1>5, <2>1 DEF sendJob_save
    <2> DEFINE row == [emails.row EXCEPT ![f] = call[c].seen[f]]
    <2>3. emails' = [emails EXCEPT !.row = row]
      BY <1>5, <2>1 DEF sendJob_save
    <2>4. row[e] = emails.row[e]
      BY <1>5, <2>2 DEF EmailInv, EmailState
    <2> HIDE DEF row
    <2>5. emails'.row = row
      BY <2>3 DEF EmailInv, EmailState
    <2>6. QED
      BY <2>4, <2>5
  <1>6. ASSUME NEW f \in Emails, RetryComesDue(f), NEW e \in Emails, ClosedEmail(e)
        PROVE  emails'.row[e] = emails.row[e]
    <2>1. f # e
      BY <1>6 DEF RetryComesDue, EmailInv, EmailRowInv
    <2> DEFINE row == [emails.row EXCEPT ![f].waits = FALSE]
    <2>2. emails' = [emails EXCEPT !.row = row]
      BY <1>6 DEF RetryComesDue
    <2>3. row[e] = emails.row[e]
      BY <2>1 DEF EmailInv, EmailState
    <2> HIDE DEF row
    <2>4. emails'.row = row
      BY <2>2 DEF EmailInv, EmailState
    <2>5. QED
      BY <2>3, <2>4
  <1>7. QED
    BY <1>1, <1>2, <1>3, <1>4, <1>5, <1>6, RequestsAssumption DEF EmailNext

(* A booking, a proposal, a moderation item, a complaint, an e-mail or a      *)
(* notification that is closed changes only in a write from a copy gone stale.*)
THEOREM ClosedRowsStayClosed == ServicesSpec => ClosedStaysClosed
  <1> DEFINE Closed ==
        /\ \A b \in BookingIds : ClosedBooking(b) => bookings'.status[b] = bookings.status[b]
        /\ \A p \in DraftIds : ClosedProposal(p) =>
             drafts'[p].status \in {drafts[p].status, "removed"}
        /\ \A i \in Items : ClosedItem(i) => moderation'.item[i] = moderation.item[i]
        /\ \A d \in Complaints : ClosedComplaint(d) =>
             moderation'.complaint[d] = moderation.complaint[d]
        /\ \A e \in Queued : ClosedEmail(e) => emails'.row[e] = emails.row[e]
        /\ \A n \in Scheduled : ClosedNotice(n) =>
             notices'.status[n] \in {notices.status[n], "cancelled"}
  <1>1. ServicesInv /\ [ServicesNext]_svcVars => [~raced' => Closed]_svcVars
    <2> SUFFICES ASSUME ServicesInv, ServicesNext, ~raced' PROVE Closed
      OBVIOUS
    <2> USE DEF ServicesInv, FollowedInv, OthersInv, ServicesNext, Unfollowed
    <2>1. \A b \in BookingIds : ClosedBooking(b) => bookings'.status[b] = bookings.status[b]
      <3>1. CASE service = "bookings"
        BY <3>1, BookingsClose
      <3>2. CASE service # "bookings"
        BY <3>2
      <3>3. QED
        BY <3>1, <3>2
    <2>2. \A p \in DraftIds : ClosedProposal(p) =>
            drafts'[p].status \in {drafts[p].status, "removed"}
      <3>1. CASE service = "proposals"
        BY <3>1, ProposalsClose
      <3>2. CASE service # "proposals"
        BY <3>2
      <3>3. QED
        BY <3>1, <3>2
    <2>3. /\ \A i \in Items : ClosedItem(i) => moderation'.item[i] = moderation.item[i]
          /\ \A d \in Complaints : ClosedComplaint(d) =>
               moderation'.complaint[d] = moderation.complaint[d]
      <3>1. CASE service = "moderation"
        BY <3>1, ModerationCloses
      <3>2. CASE service # "moderation"
        BY <3>2
      <3>3. QED
        BY <3>1, <3>2
    <2>4. \A e \in Queued : ClosedEmail(e) => emails'.row[e] = emails.row[e]
      <3>1. CASE service = "email"
        <4>1. Queued \subseteq Emails
          BY <3>1, EmailAssumption DEF EmailInv, EmailState, Queued, Emails
        <4>2. QED
          BY <3>1, <4>1, EmailsClose
      <3>2. CASE service # "email"
        BY <3>2
      <3>3. QED
        BY <3>1, <3>2
    <2>5. \A n \in Scheduled : ClosedNotice(n) =>
            notices'.status[n] \in {notices.status[n], "cancelled"}
      <3>1. CASE service = "notices"
        <4>1. Scheduled \subseteq Notices
          BY <3>1, NoticesAssumption DEF NoticesInv, NoticesState, Scheduled, Notices
        <4>2. QED
          BY <3>1, <4>1, NoticesClose
      <3>2. CASE service # "notices"
        BY <3>2
      <3>3. QED
        BY <3>1, <3>2
    <2>6. QED
      BY <2>1, <2>2, <2>3, <2>4, <2>5
  <1>2. QED
    BY <1>1, ServicesInvHolds, PTL DEF ServicesSpec, ClosedStaysClosed
----------------------------------------------------------------------------
(* The types: the bounds of the model, an inductive invariant on top of ServicesInv *)

\* What the types of the model say beyond the invariants above: its bounds.
SessionsBounds ==
  sessions.next <= MaxTokens /\ \A t \in Tokens : sessions.exchanged[t] <= sessions.next

BookingsBounds == bookings.time \in [BookingIds -> Times \cup {{}}]

BatchBound(r) ==
  /\ r.total <= MaxItemsEach /\ r.processed <= MaxItemsEach /\ r.failed <= MaxItemsEach
  /\ r.done + r.errors <= r.total /\ r.stalls <= 1
  /\ r.row = "none" => r.done = 0 /\ r.errors = 0

BatchBounds ==
  /\ raced \in BOOLEAN /\ batches = [b \in BatchIds |-> batches[b]]
  /\ \A b \in BatchIds : BatchBound(batches[b])

ShutdownBounds ==
  raced \in BOOLEAN /\ \A c \in Calls : call[c].at \in {"idle", "handled", "finished"}

EmailBounds ==
  \A e \in Emails : /\ emails.delivered[e] <= MaxDelivered
                    /\ emails.unsaved[e] + Cardinality(Sending(e)) <= emails.delivered[e]

NoticesBounds ==
  \A n \in Notices : /\ notices.shown[n] <= MaxDelivered
                     /\ notices.unrecorded[n] + Cardinality(Marking(n)) <= notices.shown[n]

CoursesBounds == Len(catalog.versions) <= MaxVersions

ForumBounds == forum.next <= MaxReplies

OfflineBounds == \A w \in Writes : writes.arrived[w] <= MaxArrivals

LEMMA SessionsBoundsStep ==
    SessionsInv /\ SessionsBounds /\ SessionsNext => SessionsBounds'
  <1> SUFFICES ASSUME SessionsInv, SessionsBounds, SessionsNext PROVE SessionsBounds'
    OBVIOUS
  <1> USE SessionsAssumption DEF SessionsBounds
  <1>1. SessionsShape
    BY DEF SessionsInv
  <1>2. ASSUME sessions'.next = sessions.next, sessions'.exchanged = sessions.exchanged
        PROVE  SessionsBounds'
    BY <1>2
  <1>3. ASSUME NEW c \in Calls, login(c) PROVE SessionsBounds'
    BY <1>1, <1>3 DEF login, issueTokenPair, SessionsShape
  <1>4. ASSUME NEW c \in Calls, refresh_issue(c) PROVE SessionsBounds'
    <2>1. PICK t \in Tokens : t = call[c].id
      BY <1>4 DEF refresh_issue, SessionsInv, At
    <2>2. /\ sessions.next < MaxTokens /\ sessions'.next = sessions.next + 1
          /\ sessions'.exchanged = [sessions.exchanged EXCEPT ![t] = sessions.exchanged[t] + 1]
          /\ sessions.exchanged \in [Tokens -> Nat] /\ sessions.next \in Nat
      BY <1>1, <1>4, <2>1 DEF refresh_issue, issueTokenPair, SessionsShape
    <2>3. QED
      BY <2>2
  <1>5. ASSUME NEW c \in Calls,
               refresh_rotate(c) \/ logout_revoke(c) \/ blacklistToken(c)
                 \/ blacklistToken_persist(c) \/ isTokenBlacklisted_lookup(c)
        PROVE  SessionsBounds'
    BY <1>1, <1>2, <1>5 DEF refresh_rotate, logout_revoke, blacklistToken,
       blacklistToken_persist, isTokenBlacklisted_lookup, SessionsShape
  <1>6. ASSUME NEW t \in Tokens, AccessTokenLapses(t) PROVE SessionsBounds'
    BY <1>1, <1>2, <1>6 DEF AccessTokenLapses, SessionsShape
  <1>7. ASSUME cleanupExpiredTokens \/ Restart PROVE SessionsBounds'
    BY <1>1, <1>2, <1>7 DEF cleanupExpiredTokens, Restart, SessionsShape
  <1>9. ASSUME NEW c \in Calls, NEW t \in Tokens, logout_unknown(c, t) PROVE SessionsBounds'
    BY <1>1, <1>2, <1>9 DEF logout_unknown, SessionsShape
  <1>8. QED
    BY <1>2, <1>3, <1>4, <1>5, <1>6, <1>7, <1>9
    DEF SessionsNext, refresh, logout, isTokenBlacklisted

LEMMA BookingsBoundsStep ==
    BookingsInv /\ BookingsBounds /\ BookingsNext => BookingsBounds'
  <1> SUFFICES ASSUME BookingsInv, BookingsBounds, BookingsNext PROVE BookingsBounds'
    OBVIOUS
  <1> USE DEF BookingsBounds
  <1>1. bookings \in Booking
    BY DEF BookingsInv
  <1>2. ASSUME NEW c \in Calls, createBooking_insert(c) PROVE BookingsBounds'
    <2>1. PICK t \in Times : t = call[c].arg
      BY <1>2 DEF createBooking_insert, BookingsInv
    <2>2. bookings'.time = [bookings.time EXCEPT ![bookings.next] = t]
      BY <1>1, <1>2, <2>1 DEF createBooking_insert, Booking
    <2>3. QED
      BY <2>2
  <1>3. ASSUME bookings'.time = bookings.time PROVE BookingsBounds'
    BY <1>3
  <1>4. ASSUME NEW c \in Calls, SaveBooking(c) PROVE BookingsBounds'
    BY <1>1, <1>3, <1>4 DEF SaveBooking, Booking
  <1>5. QED
    BY <1>2, <1>3, <1>4 DEF BookingsNext, createBooking, respondToBooking, cancelBooking

LEMMA BatchBoundsStep == BatchInv /\ BatchBounds /\ BatchNext => BatchBounds'
  <1> SUFFICES ASSUME BatchInv, BatchBounds, BatchNext PROVE BatchBounds'
    OBVIOUS
  <1>1. /\ raced \in BOOLEAN /\ batches = [b \in BatchIds |-> batches[b]]
        /\ \A b \in BatchIds : WholeRow(batches[b]) /\ batches[b] \in BatchRow /\ BatchBound(batches[b])
    BY DEF BatchInv, BatchBounds, WholeRow
  <1>2. ASSUME NEW c \in Calls, NEW b \in BatchIds, NEW n \in 0 .. MaxItemsEach,
               NEW export \in BOOLEAN, createBatchJob(c, b, n, export)
        PROVE  BatchBounds'
    <2> DEFINE row == [batches[b] EXCEPT !.row = "pending", !.total = n, !.export = export]
    <2>1. batches' = [batches EXCEPT ![b] = row] /\ raced' \in BOOLEAN /\ batches[b].row = "none"
      BY <1>1, <1>2 DEF createBatchJob
    <2>2. BatchBound(row)
      BY <1>1, <2>1 DEF BatchRow, BatchBound
    <2> HIDE DEF row
    <2>3. QED
      BY <1>1, <2>1, <2>2 DEF BatchBounds
  <1>3. ASSUME NEW c \in Calls, createBatchJob_enqueue(c) PROVE BatchBounds'
    <2>1. PICK b \in BatchIds : b = call[c].id
      BY <1>1, <1>3 DEF createBatchJob_enqueue, BatchInv
    <2> DEFINE row == [batches[b] EXCEPT !.job = "waiting"]
    <2>2. batches' = [batches EXCEPT ![b] = row] /\ raced' \in BOOLEAN
      BY <1>1, <1>3, <2>1 DEF createBatchJob_enqueue
    <2>3. BatchBound(row)
      BY <1>1 DEF BatchRow, BatchBound
    <2> HIDE DEF row
    <2>4. QED
      BY <1>1, <2>2, <2>3 DEF BatchBounds
  <1>4. ASSUME NEW b \in BatchIds, onActive(b) PROVE BatchBounds'
    <2> DEFINE landing == batches[b].landing \cup {"processing"}
               row == [batches[b] EXCEPT !.job = "active", !.done = 0, !.errors = 0,
                                         !.landing = landing]
    <2>1. batches' = [batches EXCEPT ![b] = row] /\ raced' \in BOOLEAN
      BY <1>1, <1>4 DEF onActive, reqVars
    <2>2. BatchBound(row)
      <3> HIDE DEF landing
      <3> QED
        BY <1>1 DEF BatchRow, BatchBound
    <2> HIDE DEF row
    <2>3. QED
      BY <1>1, <2>1, <2>2 DEF BatchBounds
  <1>5. ASSUME NEW b \in BatchIds, NEW ok \in BOOLEAN, ProcessItem(b, ok) PROVE BatchBounds'
    <2> DEFINE row == IF ok THEN [batches[b] EXCEPT !.done = @ + 1]
                      ELSE [batches[b] EXCEPT !.errors = @ + 1]
    <2>1. /\ batches' = [batches EXCEPT ![b] = row] /\ raced' \in BOOLEAN
          /\ batches[b].done + batches[b].errors < batches[b].total
          /\ batches[b].row # "none"
      BY <1>1, <1>5 DEF ProcessItem, reqVars, WholeRow
    <2>2. BatchBound(row)
      BY <1>1, <2>1 DEF BatchRow, BatchBound
    <2> HIDE DEF row
    <2>3. QED
      BY <1>1, <2>1, <2>2 DEF BatchBounds
  <1>6. ASSUME NEW b \in BatchIds, ProcessEnd(b) PROVE BatchBounds'
    <2> DEFINE status == IF batches[b].errors = batches[b].total THEN "failed" ELSE "completed"
               row == [batches[b] EXCEPT !.row = status, !.processed = batches[b].done,
                         !.failed = batches[b].errors, !.job = "written"]
    <2>1. batches' = [batches EXCEPT ![b] = row] /\ raced' \in BOOLEAN /\ status # "none"
      BY <1>1, <1>6 DEF ProcessEnd, reqVars
    <2>2. BatchBound(row)
      <3> HIDE DEF status
      <3> QED
        BY <1>1, <2>1, BatchAssumption DEF BatchRow, BatchBound
    <2> HIDE DEF row
    <2>3. QED
      BY <1>1, <2>1, <2>2 DEF BatchBounds
  <1>11. ASSUME NEW b \in BatchIds, NEW ok \in BOOLEAN, ExportEnd(b, ok) PROVE BatchBounds'
    <2> DEFINE fine == [batches[b] EXCEPT !.row = "completed", !.processed = 1,
                                          !.job = "written"]
               wrong == [batches[b] EXCEPT !.row = "failed", !.processed = 0, !.failed = 1,
                                           !.job = "written"]
    <2>1. /\ batches' = [batches EXCEPT ![b] = fine] \/ batches' = [batches EXCEPT ![b] = wrong]
          /\ raced' \in BOOLEAN
      BY <1>1, <1>11 DEF ExportEnd, reqVars
    <2>2. batches[b].total > 0
      BY <1>11 DEF ExportEnd
    <2>3. BatchBound(fine) /\ BatchBound(wrong)
      BY <1>1, <2>2, BatchAssumption DEF BatchRow, BatchBound
    <2> HIDE DEF fine, wrong
    <2>4. QED
      BY <1>1, <2>1, <2>3 DEF BatchBounds
  <1>12. ASSUME NEW b \in BatchIds, JobCompletes(b) PROVE BatchBounds'
    <2> DEFINE row == [batches[b] EXCEPT !.job = "completed"]
    <2>1. batches' = [batches EXCEPT ![b] = row] /\ raced' \in BOOLEAN
      BY <1>1, <1>12 DEF JobCompletes, reqVars
    <2>2. BatchBound(row)
      BY <1>1 DEF BatchRow, BatchBound
    <2> HIDE DEF row
    <2>3. QED
      BY <1>1, <2>1, <2>2 DEF BatchBounds
  <1>7. ASSUME NEW b \in BatchIds, ProcessThrows(b) \/ WorkerDies(b) PROVE BatchBounds'
    <2> DEFINE landing == batches[b].landing \cup {"failed"}
               stalled == [batches[b] EXCEPT !.job = "waiting", !.stalls = 1]
               over == [batches[b] EXCEPT !.job = "failed", !.landing = landing]
    <2>1. /\ batches' = [batches EXCEPT ![b] = stalled] \/ batches' = [batches EXCEPT ![b] = over]
          /\ raced' \in BOOLEAN
      BY <1>1, <1>7 DEF ProcessThrows, WorkerDies, reqVars
    <2>2. BatchBound(stalled) /\ BatchBound(over)
      <3> HIDE DEF landing
      <3> QED
        BY <1>1 DEF BatchRow, BatchBound
    <2> HIDE DEF stalled, over
    <2>3. QED
      BY <1>1, <2>1, <2>2 DEF BatchBounds
  <1>8. ASSUME NEW b \in BatchIds, NEW status \in {"processing", "failed"},
               UpdateLands(b, status) \/ UpdateIsRefused(b, status)
        PROVE  BatchBounds'
    <2> DEFINE landing == batches[b].landing \ {status}
               landed == [batches[b] EXCEPT !.row = status, !.landing = landing]
               refused == [batches[b] EXCEPT !.landing = landing]
    <2>1. /\ batches' = [batches EXCEPT ![b] = landed] \/ batches' = [batches EXCEPT ![b] = refused]
          /\ raced' \in BOOLEAN
      BY <1>1, <1>8 DEF UpdateLands, UpdateIsRefused, reqVars
    <2>2. BatchBound(landed) /\ BatchBound(refused)
      <3> HIDE DEF landing
      <3> QED
        BY <1>1 DEF BatchRow, BatchBound
    <2> HIDE DEF landed, refused
    <2>3. QED
      BY <1>1, <2>1, <2>2 DEF BatchBounds
  <1>9. ASSUME NEW c \in Calls, Fails(c), UNCHANGED batches PROVE BatchBounds'
    BY <1>9 DEF Fails, BatchBounds
  <1>10. QED
    BY <1>2, <1>3, <1>4, <1>5, <1>6, <1>7, <1>8, <1>9, <1>11, <1>12 DEF BatchNext

LEMMA ShutdownBoundsStep ==
    ShutdownInv /\ ShutdownBounds /\ ShutdownNext => ShutdownBounds'
  <1> SUFFICES ASSUME ShutdownInv, ShutdownBounds, ShutdownNext PROVE ShutdownBounds'
    OBVIOUS
  <1> USE DEF ShutdownBounds, At
  <1>1. CallShape
    BY DEF ShutdownInv
  <1>2. ASSUME NEW c \in Calls, ShutdownMiddleware(c) PROVE ShutdownBounds'
    BY <1>1, <1>2, ReadsEffect DEF ShutdownMiddleware
  <1>3. ASSUME NEW c \in Calls, ResponseFinishes(c) PROVE ShutdownBounds'
    BY <1>1, <1>3 DEF ResponseFinishes, Moves, CallShape, Fields
  <1>4. ASSUME NEW c \in Calls, ResponseCloses(c) PROVE ShutdownBounds'
    BY <1>1, <1>4, EndsEffect DEF ResponseCloses
  <1>5. ASSUME UNCHANGED reqVars PROVE ShutdownBounds'
    BY <1>5 DEF reqVars
  <1>6. QED
    BY <1>2, <1>3, <1>4, <1>5 DEF ShutdownNext, shutdown, DrainTimeout, CleanupEnds

LEMMA SendingMoves ==
    ASSUME NEW c \in Calls, \A d \in Calls \ {c} : call'[d] = call[d], NEW e
    PROVE  /\ Cardinality(Sending(e)) \in Nat /\ Cardinality(Sending(e)') \in Nat
           /\ (c \in Sending(e) <=> c \in Sending(e)')
                => Cardinality(Sending(e)') = Cardinality(Sending(e))
           /\ c \notin Sending(e)
                => Cardinality(Sending(e)') <= Cardinality(Sending(e)) + 1
           /\ c \notin Sending(e)'
                => Cardinality(Sending(e)') <= Cardinality(Sending(e))
           /\ c \in Sending(e) /\ c \notin Sending(e)'
                => Cardinality(Sending(e)) = Cardinality(Sending(e)') + 1
  <1>1. Sending(e) \subseteq Calls /\ Sending(e)' \subseteq Calls
    BY DEF Sending
  <1>2. \A d \in Calls \ {c} : d \in Sending(e) <=> d \in Sending(e)'
    BY DEF Sending, At
  <1>3. PICK S \in SUBSET Calls, T \in SUBSET Calls : S = Sending(e) /\ T = Sending(e)'
    BY <1>1
  <1>4. /\ Cardinality(S) \in Nat /\ Cardinality(T) \in Nat
        /\ (c \in S <=> c \in T) => Cardinality(T) = Cardinality(S)
        /\ c \in T /\ c \notin S => Cardinality(T) = Cardinality(S) + 1
        /\ c \in S /\ c \notin T => Cardinality(S) = Cardinality(T) + 1
    BY <1>2, <1>3, OneCallMoves
  <1>5. QED
    BY <1>3, <1>4

LEMMA EmailBoundsStep == EmailInv /\ EmailBounds /\ EmailNext => EmailBounds'
  <1> SUFFICES ASSUME EmailInv, EmailBounds, EmailNext PROVE EmailBounds'
    OBVIOUS
  <1>0. /\ CallShape /\ emails \in EmailState
        /\ \A e \in Emails : /\ emails.delivered[e] \in Nat /\ emails.unsaved[e] \in Nat
                             /\ Cardinality(Sending(e)) \in Nat
                             /\ emails.delivered[e] <= MaxDelivered
                             /\ emails.unsaved[e] + Cardinality(Sending(e)) <= emails.delivered[e]
    BY SendingIsFinite DEF EmailInv, EmailBounds, EmailState
  <1> USE EmailAssumption DEF At
  \* The e-mails stay as they are, and the call that moves does not come to save one it sent.
  <1>1. ASSUME NEW c \in Calls, \A d \in Calls \ {c} : call'[d] = call[d],
               emails'.delivered = emails.delivered, emails'.unsaved = emails.unsaved,
               call'[c].at # "save"
        PROVE  EmailBounds'
    <2>1. ASSUME NEW e \in Emails
          PROVE  emails'.unsaved[e] + Cardinality(Sending(e)') <= emails'.delivered[e]
      <3>1. c \notin Sending(e)'
        BY <1>1 DEF Sending
      <3>2. /\ Cardinality(Sending(e)') <= Cardinality(Sending(e))
            /\ Cardinality(Sending(e)') \in Nat
        BY <1>1, <3>1, SendingMoves
      <3>3. QED
        BY <1>0, <1>1, <3>2
    <2>2. QED
      BY <1>0, <1>1, <2>1 DEF EmailBounds
  <1>2. ASSUME NEW e \in Emails, UNCHANGED call, enqueue \/ RetryComesDue(e) PROVE EmailBounds'
    <2>1. emails'.delivered = emails.delivered /\ emails'.unsaved = emails.unsaved
      BY <1>0, <1>2 DEF enqueue, RetryComesDue, EmailState
    <2>2. \A f : Sending(f)' = Sending(f)
      BY <1>2 DEF Sending
    <2>3. QED
      BY <2>1, <2>2 DEF EmailBounds
  <1>3. ASSUME NEW c \in Calls, processQueue(c) PROVE EmailBounds'
    <2>1. /\ \A d \in Calls \ {c} : call'[d] = call[d]
          /\ call'[c].at = "send" /\ emails' = emails
      BY <1>0, <1>3, ReadsEffect DEF processQueue
    <2>2. QED
      BY <1>1, <2>1
  <1>4. ASSUME NEW c \in Calls, sendJob_save(c) PROVE EmailBounds'
    <2>1. /\ \A d \in Calls \ {c} : call'[d] = call[d]
          /\ call'[c].at \in {"idle", "send"}
      BY <1>0, <1>4, EndsEffect DEF sendJob_save, CallShape, Fields
    <2> DEFINE row == [emails.row EXCEPT ![call[c].id] = call[c].seen[call[c].id]]
    <2>2. emails' = [emails EXCEPT !.row = row]
      BY <1>4 DEF sendJob_save
    <2> HIDE DEF row
    <2>3. emails'.delivered = emails.delivered /\ emails'.unsaved = emails.unsaved
      BY <1>0, <2>2 DEF EmailState
    <2>4. QED
      BY <1>1, <2>1, <2>3
  <1>5. ASSUME NEW c \in Calls, PassFails(c) PROVE EmailBounds'
    <2>1. /\ \A d \in Calls \ {c} : call'[d] = call[d]
          /\ call'[c].at = "idle" /\ call[c].at # "idle"
      BY <1>0, <1>5, EndsEffect DEF PassFails, Fails
    <2>2. CASE ~(call[c].at = "save" /\ call[c].seen[call[c].id].status = "sent")
      BY <1>1, <1>5, <2>1, <2>2 DEF PassFails
    <2>3. CASE call[c].at = "save" /\ call[c].seen[call[c].id].status = "sent"
      <3>1. PICK e \in Emails : e = call[c].id
        BY <2>3 DEF EmailInv
      <3> DEFINE unsaved == [emails.unsaved EXCEPT ![e] = emails.unsaved[e] + 1]
      <3>2. emails' = [emails EXCEPT !.unsaved = unsaved]
        BY <1>5, <2>3, <3>1 DEF PassFails
      <3>3. \A f \in Emails : unsaved[f] = IF f = e THEN emails.unsaved[f] + 1 ELSE emails.unsaved[f]
        BY <1>0 DEF EmailState
      <3> HIDE DEF unsaved
      <3>4. emails'.delivered = emails.delivered /\ emails'.unsaved = unsaved
        BY <1>0, <3>2 DEF EmailState
      <3>5. ASSUME NEW f \in Emails
            PROVE  emails'.unsaved[f] + Cardinality(Sending(f)') <= emails'.delivered[f]
        <4>1. c \notin Sending(f)' /\ (c \in Sending(f) <=> f = e)
          BY <2>1, <2>3, <3>1 DEF Sending
        <4>2. /\ Cardinality(Sending(f)') \in Nat
              /\ f = e => Cardinality(Sending(f)) = Cardinality(Sending(f)') + 1
              /\ f # e => Cardinality(Sending(f)) = Cardinality(Sending(f)')
          BY <2>1, <4>1, SendingMoves
        <4>3. QED
          BY <1>0, <3>3, <3>4, <4>2
      <3>6. QED
        BY <1>0, <3>4, <3>5 DEF EmailBounds
    <2>4. QED
      BY <2>2, <2>3
  <1>6. ASSUME NEW c \in Calls, NEW ok \in BOOLEAN, sendJob(c, ok) PROVE EmailBounds'
    <2>1. PICK e \in Emails : e = Oldest(call[c].arg) /\ e \in call[c].arg
      BY <1>6, OldestIsOne DEF sendJob, EmailInv
    <2>2. /\ call[c].at = "send" /\ call[c].seen \in [Emails -> EmailRow]
          /\ ok => emails.delivered[e] < MaxDelivered
      BY <1>6, <2>1 DEF sendJob, EmailInv
    <2> DEFINE n == call[c].seen[e].attempts + 1
               row == IF ok THEN [status |-> "sent", attempts |-> n, waits |-> FALSE]
                      ELSE IF n >= MaxAttempts
                      THEN [status |-> "failed", attempts |-> n, waits |-> FALSE]
                      ELSE [status |-> "pending", attempts |-> n, waits |-> TRUE]
               seen == [call[c].seen EXCEPT ![e] = row]
               delivered == [emails.delivered EXCEPT ![e] = emails.delivered[e] + 1]
    <2>3. /\ call' = [call EXCEPT ![c] = [@ EXCEPT !.at = "save", !.id = e, !.seen = seen]]
          /\ emails' = IF ok THEN [emails EXCEPT !.delivered = delivered] ELSE emails
      BY <1>6, <2>1 DEF sendJob
    <2> HIDE DEF n
    <2>4. seen[e] = row /\ (row.status = "sent" <=> ok)
      BY <2>2
    <2>5. \A f \in Emails : delivered[f] = IF f = e THEN emails.delivered[f] + 1
                                           ELSE emails.delivered[f]
      BY <1>0 DEF EmailState
    <2> HIDE DEF row, seen, delivered
    <2>6. /\ \A d \in Calls \ {c} : call'[d] = call[d]
          /\ call'[c].at = "save" /\ call'[c].id = e /\ call'[c].seen = seen
      BY <1>0, <2>3 DEF CallShape, Fields
    <2>7. CASE ok
      <3>1. emails'.delivered = delivered /\ emails'.unsaved = emails.unsaved
        BY <1>0, <2>3, <2>7 DEF EmailState
      <3>2. ASSUME NEW f \in Emails
            PROVE  emails'.unsaved[f] + Cardinality(Sending(f)') <= emails'.delivered[f]
        <4>1. c \notin Sending(f) /\ (f # e => c \notin Sending(f)')
          BY <2>2, <2>6 DEF Sending
        <4>2. /\ Cardinality(Sending(f)') \in Nat
              /\ Cardinality(Sending(f)') <= Cardinality(Sending(f)) + 1
              /\ f # e => Cardinality(Sending(f)') <= Cardinality(Sending(f))
          BY <2>6, <4>1, SendingMoves
        <4>3. QED
          BY <1>0, <2>5, <3>1, <4>2
      <3>3. QED
        BY <1>0, <2>2, <2>5, <2>7, <3>1, <3>2 DEF EmailBounds
    <2>8. CASE ~ok
      <3>1. ASSUME NEW f \in Emails
            PROVE  Cardinality(Sending(f)') <= Cardinality(Sending(f))
                   /\ Cardinality(Sending(f)') \in Nat
        <4>1. call'[c].seen[call'[c].id].status # "sent"
          BY <2>4, <2>6, <2>8
        <4>2. c \notin Sending(f)'
          BY <4>1 DEF Sending
        <4>3. QED
          BY <2>6, <4>2, SendingMoves
      <3>2. emails' = emails
        BY <2>3, <2>8
      <3>3. QED
        BY <1>0, <3>1, <3>2 DEF EmailBounds
    <2>9. QED
      BY <2>7, <2>8
  <1>7. ASSUME enqueue PROVE EmailBounds'
    <2>1. emails'.delivered = emails.delivered /\ emails'.unsaved = emails.unsaved
      BY <1>0, <1>7 DEF enqueue, EmailState
    <2>2. \A f : Sending(f)' = Sending(f)
      BY <1>7 DEF Sending, enqueue, reqVars
    <2>3. QED
      BY <2>1, <2>2 DEF EmailBounds
  <1>8. QED
    BY <1>2, <1>3, <1>4, <1>5, <1>6, <1>7 DEF EmailNext, RetryComesDue, reqVars

LEMMA NoticesBoundsStep == NoticesInv /\ NoticesBounds /\ NoticesNext => NoticesBounds'
  <1> SUFFICES ASSUME NoticesInv, NoticesBounds, NoticesNext PROVE NoticesBounds'
    OBVIOUS
  <1>0. /\ CallShape /\ notices \in NoticesState
        /\ \A d \in Calls : NoticeCall(call[d])
        /\ \A n \in Notices : /\ notices.shown[n] \in Nat /\ notices.unrecorded[n] \in Nat
                              /\ notices.shown[n] <= MaxDelivered
                              /\ notices.unrecorded[n] + Cardinality(Marking(n)) <= notices.shown[n]
    BY DEF NoticesInv, NoticesBounds, NoticesState
  <1> USE EmailAssumption DEF At
  \* The notifications stay as they are, and the call that moves does not come to save one.
  <1>1. ASSUME NEW c \in Calls, \A d \in Calls \ {c} : call'[d] = call[d],
               notices'.shown = notices.shown, notices'.unrecorded = notices.unrecorded,
               call'[c].at # "mark"
        PROVE  NoticesBounds'
    <2>1. ASSUME NEW n \in Notices
          PROVE  notices'.unrecorded[n] + Cardinality(Marking(n)') <= notices'.shown[n]
      <3>1. /\ Cardinality(Marking(n)') <= Cardinality(Marking(n))
            /\ Cardinality(Marking(n)') \in Nat /\ Cardinality(Marking(n)) \in Nat
        BY <1>1, MarkingMoves
      <3>2. QED
        BY <1>0, <1>1, <3>1
    <2>2. QED
      BY <1>0, <1>1, <2>1 DEF NoticesBounds
  <1>2. ASSUME NEW n \in Notices, schedule \/ NoticeComesDue(n) PROVE NoticesBounds'
    <2> DEFINE due == notices.due \cup {n}
    <2>1. /\ UNCHANGED call
          /\ \/ notices' = [notices EXCEPT !.next = notices.next + 1]
             \/ notices' = [notices EXCEPT !.due = due]
      BY <1>2 DEF schedule, NoticeComesDue, reqVars
    <2> HIDE DEF due
    <2>2. notices'.shown = notices.shown /\ notices'.unrecorded = notices.unrecorded
      BY <1>0, <2>1 DEF NoticesState
    <2>3. \A m : Marking(m)' = Marking(m)
      BY <2>1 DEF Marking
    <2>4. QED
      BY <2>2, <2>3 DEF NoticesBounds
  <1>3. ASSUME NEW c \in Calls, NEW n \in Notices, processScheduled(c) \/ cancelScheduled(c, n)
        PROVE  NoticesBounds'
    <2>1. /\ \A d \in Calls \ {c} : call'[d] = call[d]
          /\ call'[c].at \in {"create", "cancel"} /\ notices' = notices
      BY <1>0, <1>3, ReadsEffect DEF processScheduled, cancelScheduled
    <2>2. QED
      BY <1>1, <2>1
  <1>4. ASSUME NEW c \in Calls, processScheduled_save(c) \/ cancelScheduled_save(c)
        PROVE  NoticesBounds'
    <2>1. /\ \A d \in Calls \ {c} : call'[d] = call[d]
          /\ call'[c].at \in {"idle", "create"}
      BY <1>0, <1>4, EndsEffect DEF processScheduled_save, cancelScheduled_save, Moves, CallShape,
         Fields
    <2>2. PICK status, recorded, cancelled :
            notices' = [notices EXCEPT !.status = status, !.recorded = recorded,
                                       !.cancelled = cancelled]
      <3>1. CASE processScheduled_save(c)
        <4> DEFINE status == [notices.status EXCEPT ![call[c].id] =
                                IF call[c].at = "mark" THEN "sent" ELSE call[c].seen[call[c].id]]
                   recorded == IF call[c].at = "mark" THEN notices.recorded \cup {call[c].id}
                               ELSE notices.recorded
        <4>1. notices' = [notices EXCEPT !.status = status, !.recorded = recorded]
          BY <3>1 DEF processScheduled_save
        <4> HIDE DEF status, recorded
        <4>2. notices' = [notices EXCEPT !.status = status, !.recorded = recorded,
                                         !.cancelled = notices.cancelled]
          BY <1>0, <4>1 DEF NoticesState
        <4>3. QED
          BY <4>2
      <3>2. CASE cancelScheduled_save(c)
        <4> DEFINE status == [notices.status EXCEPT ![call[c].id] = "cancelled"]
                   cancelled == notices.cancelled \cup {call[c].id}
        <4>1. notices' = [notices EXCEPT !.status = status, !.cancelled = cancelled]
          BY <3>2 DEF cancelScheduled_save
        <4> HIDE DEF status, cancelled
        <4>2. notices' = [notices EXCEPT !.status = status, !.recorded = notices.recorded,
                                         !.cancelled = cancelled]
          BY <1>0, <4>1 DEF NoticesState
        <4>3. QED
          BY <4>2
      <3>3. QED
        BY <1>4, <3>1, <3>2
    <2>3. notices'.shown = notices.shown /\ notices'.unrecorded = notices.unrecorded
      BY <1>0, <2>2 DEF NoticesState
    <2>4. QED
      BY <1>1, <2>1, <2>3
  <1>5. ASSUME NEW c \in Calls, NoticeFails(c) PROVE NoticesBounds'
    <2>1. /\ \A d \in Calls \ {c} : call'[d] = call[d]
          /\ call'[c].at = "idle" /\ call[c].at # "idle"
      BY <1>0, <1>5, EndsEffect DEF NoticeFails, Fails
    <2>2. CASE call[c].at # "mark"
      BY <1>1, <1>5, <2>1, <2>2 DEF NoticeFails
    <2>3. CASE call[c].at = "mark"
      <3>1. PICK n \in Notices : n = call[c].id
        BY <1>0, <2>3 DEF NoticeCall, NoticesState
      <3> DEFINE unrecorded == [notices.unrecorded EXCEPT ![n] = notices.unrecorded[n] + 1]
      <3>2. notices' = [notices EXCEPT !.unrecorded = unrecorded]
        BY <1>5, <2>3, <3>1 DEF NoticeFails
      <3>3. \A m \in Notices :
              unrecorded[m] = IF m = n THEN notices.unrecorded[m] + 1 ELSE notices.unrecorded[m]
        BY <1>0 DEF NoticesState
      <3> HIDE DEF unrecorded
      <3>4. notices'.shown = notices.shown /\ notices'.unrecorded = unrecorded
        BY <1>0, <3>2 DEF NoticesState
      <3>5. ASSUME NEW m \in Notices
            PROVE  notices'.unrecorded[m] + Cardinality(Marking(m)') <= notices'.shown[m]
        <4>1. /\ Cardinality(Marking(m)') \in Nat
              /\ m = n => Cardinality(Marking(m)) = Cardinality(Marking(m)') + 1
              /\ m # n => Cardinality(Marking(m)) = Cardinality(Marking(m)')
          BY <2>1, <2>3, <3>1, MarkingMoves
        <4>2. QED
          BY <1>0, <3>3, <3>4, <4>1
      <3>6. QED
        BY <1>0, <3>4, <3>5 DEF NoticesBounds
    <2>4. QED
      BY <2>2, <2>3
  <1>6. ASSUME NEW c \in Calls, NEW n \in Notices, NEW shown \in BOOLEAN, NEW found \in BOOLEAN,
               processScheduled_create(c, n, shown, found)
        PROVE  NoticesBounds'
    <2> DEFINE step == IF found THEN "mark" ELSE "put_back"
               rest == call[c].arg \ {n}
               s == [notices.shown EXCEPT ![n] = IF shown THEN @ + 1 ELSE @]
               u == [notices.unrecorded EXCEPT ![n] = IF shown /\ ~found THEN @ + 1 ELSE @]
    <2>1. /\ call[c].at = "create" /\ (found => shown)
          /\ shown => notices.shown[n] < MaxDelivered
          /\ notices' = [notices EXCEPT !.shown = s, !.unrecorded = u]
          /\ Waits(c, step, n, call[c].seen, rest)
      BY <1>6 DEF processScheduled_create
    <2>2. \A m \in Notices :
            /\ s[m] = IF m = n /\ shown THEN notices.shown[m] + 1 ELSE notices.shown[m]
            /\ u[m] = IF m = n /\ shown /\ ~found THEN notices.unrecorded[m] + 1
                      ELSE notices.unrecorded[m]
      BY <1>0 DEF NoticesState
    <2> HIDE DEF s, u, rest
    <2>3. /\ call'[c].at = step /\ call'[c].id = n
          /\ \A d \in Calls \ {c} : call'[d] = call[d]
      BY <1>0, <2>1, WaitsEffect
    <2>4. notices'.shown = s /\ notices'.unrecorded = u
      BY <1>0, <2>1 DEF NoticesState
    <2>5. ASSUME NEW m \in Notices
          PROVE  /\ notices'.unrecorded[m] + Cardinality(Marking(m)') <= notices'.shown[m]
                 /\ notices'.shown[m] <= MaxDelivered
      <3>1. /\ Cardinality(Marking(m)') \in Nat
            /\ m = n /\ found => Cardinality(Marking(m)') = Cardinality(Marking(m)) + 1
            /\ ~(m = n /\ found) => Cardinality(Marking(m)') = Cardinality(Marking(m))
        BY <2>1, <2>3, MarkingMoves
      <3>2. /\ notices.shown[m] \in Nat /\ notices.unrecorded[m] \in Nat
            /\ notices.shown[m] <= MaxDelivered /\ Cardinality(Marking(m)) \in Nat
            /\ notices.unrecorded[m] + Cardinality(Marking(m)) <= notices.shown[m]
        BY <1>0, <2>3, MarkingMoves
      <3>3. CASE m # n
        BY <2>2, <2>4, <3>1, <3>2, <3>3
      <3>4. CASE m = n /\ found
        BY <2>1, <2>2, <2>4, <3>1, <3>2, <3>4
      <3>5. CASE m = n /\ ~found
        BY <2>1, <2>2, <2>4, <3>1, <3>2, <3>5
      <3>6. QED
        BY <3>3, <3>4, <3>5
    <2>6. QED
      BY <2>5 DEF NoticesBounds
  <1>7. ASSUME schedule PROVE NoticesBounds'
    <2>1. UNCHANGED call /\ notices' = [notices EXCEPT !.next = notices.next + 1]
      BY <1>7 DEF schedule, reqVars
    <2>2. notices'.shown = notices.shown /\ notices'.unrecorded = notices.unrecorded
      BY <1>0, <2>1 DEF NoticesState
    <2>3. \A m : Marking(m)' = Marking(m)
      BY <2>1 DEF Marking
    <2>4. QED
      BY <2>2, <2>3 DEF NoticesBounds
  <1>8. ASSUME NEW c \in Calls, processScheduled(c) PROVE NoticesBounds'
    <2>1. /\ \A d \in Calls \ {c} : call'[d] = call[d]
          /\ call'[c].at = "create" /\ notices' = notices
      BY <1>0, <1>8, ReadsEffect DEF processScheduled
    <2>2. QED
      BY <1>1, <2>1
  <1>9. QED
    BY <1>2, <1>3, <1>4, <1>5, <1>6, <1>7, <1>8 DEF NoticesNext

LEMMA CoursesBoundsStep == CoursesInv /\ CoursesBounds /\ CoursesNext => CoursesBounds'
  <1> SUFFICES ASSUME CoursesInv, CoursesBounds, CoursesNext PROVE CoursesBounds'
    OBVIOUS
  <1> USE DEF CoursesBounds
  <1>1. catalog \in CatalogState
    BY DEF CoursesInv
  <1>2. ASSUME catalog'.versions = catalog.versions PROVE CoursesBounds'
    BY <1>2
  <1>3. ASSUME NEW c \in Calls, createVersion_insert(c) PROVE CoursesBounds'
    <2>0. call[c].at = "version" /\ CourseCall(call[c])
      BY <1>3 DEF createVersion_insert, CoursesInv, At
    <2>1. PICK v \in Nat : v = call[c].seen + 1
      BY <2>0 DEF CourseCall
    <2>2. /\ catalog'.versions = Append(catalog.versions, v) /\ catalog.versions \in Seq(Nat)
          /\ Len(catalog.versions) < MaxVersions
      BY <1>1, <1>3, <2>1 DEF createVersion_insert, CatalogState
    <2>3. Len(Append(catalog.versions, v)) = Len(catalog.versions) + 1
          /\ Len(catalog.versions) \in Nat
      BY <2>2
    <2>4. QED
      BY <2>2, <2>3, CoursesAssumption
  <1>4. ASSUME NEW c \in Calls, delete_remove(c) PROVE CoursesBounds'
    <2>1. catalog'.versions = << >>
      BY <1>1, <1>4 DEF delete_remove, CatalogState
    <2>2. QED
      BY <2>1, CoursesAssumption
  <1>5. ASSUME NEW c \in Calls,
               create(c) \/ update_save(c) \/ indexCourse(c) \/ deleteFromIndex(c)
                 \/ CourseFails(c)
        PROVE  catalog'.versions = catalog.versions
    BY <1>1, <1>5 DEF create, update_save, indexCourse, deleteFromIndex, CourseFails, CatalogState
  <1>6. ASSUME NEW c \in Calls,
               scheduleCourse_save(c) \/ publishNow_save(c) \/ publishScheduledCourses_save(c)
                 \/ notifyEnrolledStudents(c)
        PROVE  catalog'.versions = catalog.versions
    BY <1>1, <1>6 DEF scheduleCourse_save, publishNow_save, publishScheduledCourses_save,
       notifyEnrolledStudents, CatalogState
  <1>7. ASSUME NEW s \in Plans, DateComes(s) PROVE catalog'.versions = catalog.versions
    BY <1>1, <1>7 DEF DateComes, CatalogState
  <1>8. ASSUME catalog' = catalog PROVE catalog'.versions = catalog.versions
    BY <1>8
  <1>9. QED
    BY <1>2, <1>3, <1>4, <1>5, <1>6, <1>7, <1>8
    DEF CoursesNext, update, delete, scheduleCourse, publishNow, publishScheduledCourses,
        createVersion, courseVars

LEMMA ForumBoundsStep == ForumInv /\ ForumBounds /\ ForumNext => ForumBounds'
  <1> SUFFICES ASSUME ForumInv, ForumBounds, ForumNext PROVE ForumBounds'
    OBVIOUS
  <1> USE DEF ForumBounds
  <1>1. forum \in ForumState
    BY DEF ForumInv
  <1>2. ASSUME NEW c \in Calls, createReply_insert(c) PROVE ForumBounds'
    <2> DEFINE flagged == forum.flagged \cup {forum.next}
    <2>1. forum.next < MaxReplies
          /\ forum' = [forum EXCEPT !.next = forum.next + 1, !.flagged = flagged]
      BY <1>2 DEF createReply_insert
    <2> HIDE DEF flagged
    <2>2. forum'.next = forum.next + 1 /\ forum.next \in Nat
      BY <1>1, <2>1 DEF ForumState
    <2>3. QED
      BY <2>1, <2>2, CoursesAssumption
  <1>3. ASSUME NEW c \in Calls,
               createReply(c) \/ createReply_unflag(c) \/ createReply_save(c) \/ ReplyFails(c)
        PROVE  ForumBounds'
    BY <1>1, <1>3 DEF createReply, createReply_unflag, createReply_save, ReplyFails, ForumState
  <1>4. QED
    BY <1>2, <1>3 DEF ForumNext

LEMMA OfflineBoundsStep == OfflineInv /\ OfflineBounds /\ OfflineNext => OfflineBounds'
  <1> SUFFICES ASSUME OfflineInv, OfflineBounds, OfflineNext PROVE OfflineBounds'
    OBVIOUS
  <1> USE DEF OfflineBounds
  <1>1. writes \in WritesState
    BY DEF OfflineInv
  <1>2. ASSUME writes'.arrived = writes.arrived PROVE OfflineBounds'
    BY <1>2
  <1>3. ASSUME NEW w, writes.arrived[w] < MaxArrivals,
               writes'.arrived = [writes.arrived EXCEPT ![w] = writes.arrived[w] + 1]
        PROVE  OfflineBounds'
    BY <1>1, <1>3, OfflineAssumption DEF WritesState
  <1>4. ASSUME NEW c \in Calls, fetch_answered(c) PROVE OfflineBounds'
    <2> DEFINE w == call[c].id
               arrived == [writes.arrived EXCEPT ![w] = writes.arrived[w] + 1]
               direct == writes.direct \cup {w}
    <2>1. /\ writes' = [writes EXCEPT !.arrived = arrived, !.direct = direct]
          /\ writes.arrived[w] < MaxArrivals
      BY <1>4 DEF fetch_answered, Arrives
    <2> HIDE DEF arrived, direct
    <2>2. writes'.arrived = arrived
      BY <1>1, <2>1 DEF WritesState
    <2>3. QED
      BY <1>3, <2>1, <2>2 DEF arrived
  <1>5. ASSUME NEW c \in Calls, NEW w, NEW lost \in BOOLEAN,
               lost => writes.arrived[w] < MaxArrivals,
               writes' = IF lost THEN [writes EXCEPT !.arrived[w] = @ + 1, !.unnoticed[w] = @ + 1]
                         ELSE writes
        PROVE  OfflineBounds'
    <2> DEFINE arrived == [writes.arrived EXCEPT ![w] = writes.arrived[w] + 1]
               unnoticed == [writes.unnoticed EXCEPT ![w] = writes.unnoticed[w] + 1]
    <2>1. writes' = IF lost THEN [writes EXCEPT !.arrived = arrived, !.unnoticed = unnoticed]
                    ELSE writes
      BY <1>5
    <2> HIDE DEF arrived, unnoticed
    <2>2. writes'.arrived = IF lost THEN arrived ELSE writes.arrived
      BY <1>1, <2>1 DEF WritesState
    <2>3. QED
      BY <1>2, <1>3, <1>5, <2>2 DEF arrived
  <1>6. ASSUME NEW c \in Calls, NEW lost \in BOOLEAN,
               fetch_rejected(c, lost) \/ flushQueue_rejected(c, lost)
        PROVE  OfflineBounds'
    <2>1. CASE fetch_rejected(c, lost)
      <3>1. PICK w : w = call[c].id
        OBVIOUS
      <3>2. QED
        BY <1>5, <2>1, <3>1 DEF fetch_rejected, Arrives
    <2>2. CASE flushQueue_rejected(c, lost)
      <3>1. PICK w : w = NextItem(c)
        OBVIOUS
      <3>2. QED
        BY <1>5, <2>2, <3>1 DEF flushQueue_rejected
    <2>3. QED
      BY <1>6, <2>1, <2>2
  <1>7. ASSUME NEW c \in Calls, flushQueue_sent(c) PROVE OfflineBounds'
    <2>1. PICK w : w = NextItem(c)
      OBVIOUS
    <2> DEFINE arrived == [writes.arrived EXCEPT ![w] = writes.arrived[w] + 1]
    <2>2. writes' = [writes EXCEPT !.arrived = arrived] /\ writes.arrived[w] < MaxArrivals
      BY <1>7, <2>1 DEF flushQueue_sent
    <2> HIDE DEF arrived
    <2>3. writes'.arrived = arrived
      BY <1>1, <2>2 DEF WritesState
    <2>4. QED
      BY <1>3, <2>2, <2>3 DEF arrived
  <1>8. ASSUME NEW c \in Calls,
               fetch(c) \/ enqueueRequest(c) \/ enqueueRequest_answer(c) \/ WorkerEnds(c)
        PROVE  writes'.arrived = writes.arrived
    BY <1>1, <1>8 DEF fetch, enqueueRequest, enqueueRequest_answer, WorkerEnds, WritesState
  <1>9. ASSUME NEW c \in Calls, NEW ok \in BOOLEAN, flushQueue_delete(c, ok)
        PROVE  writes'.arrived = writes.arrived
    BY <1>1, <1>9 DEF flushQueue_delete, WritesState
  <1>10. ASSUME writes' = writes PROVE writes'.arrived = writes.arrived
    BY <1>10
  <1>11. QED
    BY <1>2, <1>4, <1>6, <1>7, <1>8, <1>9, <1>10
    DEF OfflineNext, flushQueue, flushQueue_end, handleOnline_registered, GoesOnline,
        FirstTimer, SecondTimer, GoesOffline

CallsTyped == CallShape /\ raced \in BOOLEAN /\ \A c \in Calls : call[c].at \in Awaits

Bounds ==
  /\ service = "sessions" => SessionsBounds
  /\ service = "bookings" => BookingsBounds
  /\ service = "batch" => BatchBounds
  /\ service = "shutdown" => ShutdownBounds
  /\ service = "email" => EmailBounds
  /\ service = "notices" => NoticesBounds
  /\ service = "courses" => CoursesBounds
  /\ service = "forum" => ForumBounds
  /\ service = "offline" => OfflineBounds

ServiceNames ==
  {"sessions", "bookings", "kyc", "proposals", "moderation", "batch", "shutdown", "email",
   "optouts", "limits", "cohort", "notices", "accounts", "courses", "forum", "offline"}

\* The invariant of the service followed names the steps of its calls; no other moves.
BoundsInv == Bounds /\ (service \notin ServiceNames => CallsTyped)

LEMMA BoundsInit == ServicesInit => BoundsInv
  <1> SUFFICES ASSUME ServicesInit PROVE BoundsInv
    OBVIOUS
  <1>1. /\ CallShape /\ raced = FALSE
        /\ \A c \in Calls : call[c].at = "idle"
    BY InitCalls DEF ServicesInit, RequestsInit, At
  <1>2. CallsTyped
    BY <1>1 DEF CallsTyped, Awaits
  <1>3. SessionsBounds
    BY SessionsAssumption DEF ServicesInit, SessionsInit, SessionsBounds
  <1>4. BookingsBounds
    BY DEF ServicesInit, BookingsInit, BookingsBounds
  <1>5. BatchBounds
    <2>1. \A b \in BatchIds : batches[b] = NoBatch
      BY DEF ServicesInit, BatchInit
    <2>2. BatchBound(NoBatch)
      BY BatchAssumption DEF BatchBound, NoBatch
    <2>3. batches = [b \in BatchIds |-> batches[b]]
      BY DEF ServicesInit, BatchInit
    <2>4. QED
      BY <1>1, <2>1, <2>2, <2>3 DEF BatchBounds
  <1>6. ShutdownBounds
    BY <1>1 DEF ShutdownBounds
  <1>7. EmailBounds
    <2>1. \A e \in Emails : emails.delivered[e] = 0 /\ emails.unsaved[e] = 0
      BY DEF ServicesInit, EmailInit
    <2>2. \A e : Sending(e) = {}
      BY <1>1 DEF Sending, At
    <2>3. Cardinality({}) = 0
      BY FS_EmptySet
    <2>4. QED
      BY <2>1, <2>2, <2>3, EmailAssumption DEF EmailBounds
  <1>8. NoticesBounds
    <2>1. \A n \in Notices : notices.shown[n] = 0 /\ notices.unrecorded[n] = 0
      BY DEF ServicesInit, NoticesInit
    <2>2. \A n : Marking(n) = {}
      BY <1>1 DEF Marking, At
    <2>3. Cardinality({}) = 0
      BY FS_EmptySet
    <2>4. QED
      BY <2>1, <2>2, <2>3, EmailAssumption DEF NoticesBounds
  <1>9. CoursesBounds
    <2>1. catalog.versions = << >> /\ Len(<< >>) = 0
      BY DEF ServicesInit, CoursesInit
    <2>2. QED
      BY <2>1, CoursesAssumption DEF CoursesBounds
  <1>10. ForumBounds /\ OfflineBounds
    BY CoursesAssumption, OfflineAssumption
    DEF ServicesInit, ForumInit, ForumBounds, OfflineInit, OfflineBounds
  <1>11. QED
    BY <1>2, <1>3, <1>4, <1>5, <1>6, <1>7, <1>8, <1>9, <1>10 DEF BoundsInv, Bounds

\* Every step of a call is named.
LEMMA CallsAreTyped == ServicesInv /\ Bounds /\ service \in ServiceNames => CallsTyped
  <1> SUFFICES ASSUME ServicesInv, Bounds, service \in ServiceNames PROVE CallsTyped
    OBVIOUS
  <1> USE DEF CallsTyped, Awaits
  <1>2. SessionsInv \/ BookingsInv \/ ProposalsInv \/ ModerationInv \/ KycInv => CallsTyped
    BY DEF SessionsInv, BookingsInv, ProposalsInv, ModerationInv, KycInv
  <1>3. EmailInv \/ OptOutsInv \/ CohortInv \/ ForumInv => CallsTyped
    BY DEF EmailInv, OptOutsInv, CohortInv, ForumInv
  <1>4. RateInv => CallsTyped
    BY DEF RateInv, RateCall
  <1>5. NoticesInv => CallsTyped
    BY DEF NoticesInv, NoticeCall
  <1>6. AccountsInv => CallsTyped
    <2>1. \A c \in Calls : AccountCall(call[c]) => call[c].at \in Awaits
      BY DEF AccountCall
    <2>2. QED
      BY <2>1 DEF AccountsInv
  <1>7. CoursesInv => CallsTyped
    <2>1. \A c \in Calls : CourseCall(call[c]) => call[c].at \in Awaits
      BY DEF CourseCall
    <2>2. QED
      BY <2>1 DEF CoursesInv
  <1>8. OfflineInv => CallsTyped
    <2>1. \A c \in Calls : WriterInv(call[c]) => call[c].at \in Awaits
      BY DEF WriterInv
    <2>2. QED
      BY <2>1 DEF OfflineInv
  <1>9. BatchInv /\ BatchBounds => CallsTyped
    BY DEF BatchInv, BatchBounds
  <1>10. ShutdownInv /\ ShutdownBounds => CallsTyped
    BY DEF ShutdownInv, ShutdownBounds
  <1> HIDE DEF CallsTyped
  <1>11. FollowedInv
    BY DEF ServicesInv
  <1>12. QED
    BY <1>2, <1>3, <1>4, <1>5, <1>6, <1>7, <1>8, <1>9, <1>10, <1>11
    DEF FollowedInv, Bounds, ServiceNames

LEMMA BoundsStep == ServicesInv /\ BoundsInv /\ ServicesNext /\ ServicesInv' => BoundsInv'
  <1> SUFFICES ASSUME ServicesInv, BoundsInv, ServicesNext, ServicesInv' PROVE BoundsInv'
    OBVIOUS
  <1>0. FollowedInv /\ Bounds /\ service' = service
    BY DEF ServicesInv, BoundsInv, ServicesNext, Unfollowed
  <1>1. Bounds'
    <2>1. CASE service = "sessions" /\ SessionsNext
      BY <1>0, <2>1, SessionsBoundsStep DEF FollowedInv, Bounds
    <2>2. CASE service = "bookings" /\ BookingsNext
      BY <1>0, <2>2, BookingsBoundsStep DEF FollowedInv, Bounds
    <2>3. CASE service = "batch" /\ BatchNext
      BY <1>0, <2>3, BatchBoundsStep DEF FollowedInv, Bounds
    <2>4. CASE service = "shutdown" /\ ShutdownNext
      BY <1>0, <2>4, ShutdownBoundsStep DEF FollowedInv, Bounds
    <2>5. CASE service = "email" /\ EmailNext
      BY <1>0, <2>5, EmailBoundsStep DEF FollowedInv, Bounds
    <2>6. CASE service = "notices" /\ NoticesNext
      BY <1>0, <2>6, NoticesBoundsStep DEF FollowedInv, Bounds
    <2>7. CASE service = "courses" /\ CoursesNext
      BY <1>0, <2>7, CoursesBoundsStep DEF FollowedInv, Bounds
    <2>8. CASE service = "forum" /\ ForumNext
      BY <1>0, <2>8, ForumBoundsStep DEF FollowedInv, Bounds
    <2>9. CASE service = "offline" /\ OfflineNext
      BY <1>0, <2>9, OfflineBoundsStep DEF FollowedInv, Bounds
    <2>10. CASE service \in {"kyc", "proposals", "moderation", "optouts", "limits", "cohort",
                             "accounts"}
      BY <1>0, <2>10 DEF Bounds
    <2>11. QED
      BY <2>1, <2>2, <2>3, <2>4, <2>5, <2>6, <2>7, <2>8, <2>9, <2>10 DEF ServicesNext
  <1>2. service' \in ServiceNames
    BY <1>0 DEF ServicesNext, ServiceNames
  <1>3. QED
    BY <1>1, <1>2 DEF BoundsInv

LEMMA BoundsStutter == BoundsInv /\ UNCHANGED svcVars => BoundsInv'
  <1> SUFFICES ASSUME BoundsInv, UNCHANGED svcVars PROVE BoundsInv'
    OBVIOUS
  <1> USE DEF svcVars, BoundsInv, Bounds
  <1>1. (service \notin ServiceNames => CallsTyped)'
    BY DEF CallsTyped, CallShape
  <1>2. (service = "sessions" => SessionsBounds)' /\ (service = "bookings" => BookingsBounds)'
    BY DEF SessionsBounds, BookingsBounds
  <1>3. (service = "batch" => BatchBounds)' /\ (service = "shutdown" => ShutdownBounds)'
    BY DEF BatchBounds, BatchBound, ShutdownBounds
  <1>4. (service = "email" => EmailBounds)'
    <2>1. \A e : Sending(e)' = Sending(e)
      BY DEF Sending, At
    <2>2. QED
      BY <2>1 DEF EmailBounds
  <1>5. (service = "notices" => NoticesBounds)'
    <2>1. \A n : Marking(n)' = Marking(n)
      BY DEF Marking, At
    <2>2. QED
      BY <2>1 DEF NoticesBounds
  <1>6. /\ (service = "courses" => CoursesBounds)' /\ (service = "forum" => ForumBounds)'
        /\ (service = "offline" => OfflineBounds)'
    BY DEF CoursesBounds, ForumBounds, OfflineBounds
  <1>7. QED
    BY <1>1, <1>2, <1>3, <1>4, <1>5, <1>6

LEMMA BoundsHold == ServicesSpec => []BoundsInv
  <1>1. ServicesInv /\ BoundsInv /\ [ServicesNext]_svcVars /\ ServicesInv' => BoundsInv'
    BY BoundsStep, BoundsStutter
  <1>2. QED
    BY <1>1, BoundsInit, ServicesInvHolds, PTL DEF ServicesSpec

LEMMA NewUserIsTyped == AccountsInit => user \in UserRow /\ resets \in ResetsState /\ edits \in Numbers
  <1> SUFFICES ASSUME AccountsInit
               PROVE  user \in UserRow /\ resets \in ResetsState /\ edits \in Numbers
    OBVIOUS
  <1>1. 0 \in Numbers /\ edits \in Numbers /\ resets \in ResetsState
    BY AccountsAssumption DEF AccountsInit, Numbers, ResetsState
  <1>2. Registered \in UserRow
    BY <1>1 DEF UserRow, Registered
  <1>3. PICK codes \in SUBSET Codes : codes = Batch(0)
    BY <1>1 DEF Batch, Codes
  <1>4. ASSUME NEW row \in UserRow
        PROVE  [row EXCEPT !.isVerified = TRUE, !.verificationToken = None, !.mfaEnabled = TRUE,
                           !.mfaSecret = 0, !.mfaBackupCodes = codes] \in UserRow
    BY <1>1 DEF UserRow
  <1>5. Protected \in UserRow
    BY <1>2, <1>3, <1>4 DEF Protected
  <1>6. QED
    BY <1>1, <1>2, <1>5 DEF AccountsInit

(* Every row, counter and cache entry of the services stays of its type and   *)
(* within the bounds of the model, and every call waits at a step of its own. *)
THEOREM ServicesAreTyped == ServicesSpec => []ServicesTypeOK
  <1>1. ServicesInv /\ BoundsInv => ServicesTypeOK
    <2> SUFFICES ASSUME ServicesInv, BoundsInv PROVE ServicesTypeOK
      OBVIOUS
    <2>0. service \in Followed /\ FollowedInv /\ OthersInv /\ Bounds
      BY DEF ServicesInv, BoundsInv
    <2>1. RequestsTypeOK /\ \A c \in Calls : call[c].at \in Awaits
      <3>1. CallsTyped
        BY CallsAreTyped DEF BoundsInv
      <3>2. QED
        BY <3>1 DEF CallsTyped, RequestsTypeOK, CallShape, Fields, Idle
    <2>2. SessionsTypeOK
      <3>1. CASE service = "sessions"
        <4>1. SessionsShape /\ SessionsBounds
          BY <2>0, <3>1 DEF FollowedInv, SessionsInv, Bounds
        <4>2. /\ sessions.next \in 0 .. MaxTokens
              /\ \A t \in Tokens : sessions.exchanged[t] \in 0 .. MaxTokens
          BY <4>1, SessionsAssumption DEF SessionsShape, SessionsBounds
        <4>3. sessions.exchanged \in [Tokens -> 0 .. MaxTokens]
          BY <4>1, <4>2 DEF SessionsShape
        <4>4. QED
          BY <4>1, <4>2, <4>3 DEF SessionsShape, SessionsTypeOK
      <3>2. CASE service # "sessions"
        BY <2>0, <3>2, SessionsAssumption DEF OthersInv, SessionsInit, SessionsTypeOK
      <3>3. QED
        BY <3>1, <3>2
    <2>3. BookingsTypeOK
      <3>1. CASE service = "bookings"
        <4>1. bookings \in Booking /\ BookingsBounds
          BY <2>0, <3>1 DEF FollowedInv, BookingsInv, Bounds
        <4>2. QED
          BY <4>1 DEF Booking, BookingsBounds, BookingsTypeOK
      <3>2. CASE service # "bookings"
        BY <2>0, <3>2, BookingsAssumption DEF OthersInv, BookingsInit, BookingsTypeOK
      <3>3. QED
        BY <3>1, <3>2
    <2>4. KycTypeOK
      BY <2>0, KycAssumption DEF FollowedInv, KycInv, OthersInv, KycInit, KycTypeOK, Statuses
    <2>5. ProposalsTypeOK
      BY <2>0 DEF FollowedInv, ProposalsInv, RowInv, OthersInv, ProposalsInit, ProposalsTypeOK
    <2>6. ModerationTypeOK
      <3>1. CASE service = "moderation"
        BY <2>0, <3>1 DEF FollowedInv, ModerationInv
      <3>2. CASE service # "moderation"
        <4>1. ModerationInit
          BY <2>0, <3>2 DEF OthersInv
        <4>2. QED
          BY <4>1, ModerationAssumption DEF ModerationInit, ModerationTypeOK
      <3>3. QED
        BY <3>1, <3>2
    <2>7. BatchTypeOK
      <3> DEFINE Job == [row : {"none", "pending", "processing", "completed", "failed"},
                         export : BOOLEAN, total : 0 .. MaxItemsEach,
                         processed : 0 .. MaxItemsEach, failed : 0 .. MaxItemsEach,
                         job : {"none", "waiting", "active", "written", "completed", "failed"},
                         done : 0 .. MaxItemsEach, errors : 0 .. MaxItemsEach,
                         stalls : 0 .. 1, landing : SUBSET {"processing", "failed"}]
      <3>1. CASE service = "batch"
        <4>1. BatchInv /\ BatchBounds
          BY <2>0, <3>1 DEF FollowedInv, Bounds
        <4>2. ASSUME NEW b \in BatchIds PROVE batches[b] \in Job
          <5>1. batches[b] \in BatchRow /\ BatchBound(batches[b])
            BY <4>1 DEF BatchInv, WholeRow, BatchBounds
          <5>2. /\ {batches[b].total, batches[b].processed, batches[b].failed,
                    batches[b].done, batches[b].errors} \subseteq Nat
                /\ batches[b].stalls \in Nat
            BY <5>1 DEF BatchRow
          <5>3. /\ {batches[b].total, batches[b].processed, batches[b].failed,
                    batches[b].done, batches[b].errors} \subseteq 0 .. MaxItemsEach
                /\ batches[b].stalls \in 0 .. 1
            BY <5>1, <5>2, BatchAssumption DEF BatchBound
          <5> DEFINE Small == 0 .. MaxItemsEach
                     Bit   == 0 .. 1
          <5>4. /\ {batches[b].total, batches[b].processed, batches[b].failed,
                    batches[b].done, batches[b].errors} \subseteq Small
                /\ batches[b].stalls \in Bit
            BY <5>3
          <5> HIDE DEF Small, Bit
          <5>5. batches[b] \in
                  [row : {"none", "pending", "processing", "completed", "failed"},
                   export : BOOLEAN, total : Small, processed : Small, failed : Small,
                   job : {"none", "waiting", "active", "written", "completed", "failed"},
                   done : Small, errors : Small, stalls : Bit,
                   landing : SUBSET {"processing", "failed"}]
            BY <5>1, <5>4 DEF BatchRow
          <5>6. QED
            BY <5>5 DEF Small, Bit
        <4> HIDE DEF Job
        <4>3. batches \in [BatchIds -> Job]
          <5>1. batches = [b \in BatchIds |-> batches[b]]
            BY <2>0, <3>1 DEF FollowedInv, Bounds, BatchBounds
          <5>2. QED
            BY <4>2, <5>1
        <4>4. QED
          BY <4>3 DEF BatchTypeOK, Job
      <3>2. CASE service # "batch"
        <4>1. NoBatch \in Job /\ batches = [b \in BatchIds |-> NoBatch]
          BY <2>0, <3>2, BatchAssumption DEF OthersInv, BatchInit, NoBatch
        <4> HIDE DEF Job
        <4>2. batches \in [BatchIds -> Job]
          BY <4>1
        <4>3. QED
          BY <4>2 DEF BatchTypeOK, Job
      <3>3. QED
        BY <3>1, <3>2
    <2>8. ShutdownTypeOK
      <3>1. Cardinality(Calls) \in Nat /\ IsFiniteSet(Calls)
        BY RequestsAssumption, FS_CardinalityType
      <3>2. CASE service = "shutdown"
        <4>1. server \in ServerState /\ server.inFlightCount <= Cardinality(InFlight)
          BY <2>0, <3>2 DEF FollowedInv, ShutdownInv, DrainIsOrderly
        <4>2. Cardinality(InFlight) \in Nat /\ Cardinality(InFlight) <= Cardinality(Calls)
          <5>1. InFlight \subseteq Calls
            BY DEF InFlight
          <5>2. QED
            BY <3>1, <5>1, FS_Subset, FS_CardinalityType
        <4>3. server.inFlightCount \in 0 .. Cardinality(Calls)
          BY <3>1, <4>1, <4>2 DEF ServerState
        <4>4. QED
          BY <4>1, <4>3 DEF ServerState, ShutdownTypeOK
      <3>3. CASE service # "shutdown"
        <4>1. server \in ServerState /\ server.inFlightCount = 0
          <5>1. ShutdownInit
            BY <2>0, <3>3 DEF OthersInv
          <5>2. QED
            BY <5>1 DEF ShutdownInit, ServerState
        <4>2. QED
          BY <3>1, <4>1 DEF ServerState, ShutdownTypeOK
      <3>4. QED
        BY <3>2, <3>3
    <2>9. EmailTypeOK
      <3>1. CASE service = "email"
        <4>1. emails \in EmailState /\ EmailBounds
          BY <2>0, <3>1 DEF FollowedInv, EmailInv, Bounds
        <4>2. \A e \in Emails : /\ emails.delivered[e] \in 0 .. MaxDelivered
                                /\ emails.unsaved[e] \in 0 .. MaxDelivered
          BY <4>1, SendingIsFinite, EmailAssumption DEF EmailState, EmailBounds
        <4>3. QED
          BY <4>1, <4>2 DEF EmailState, EmailRow, EmailTypeOK
      <3>2. CASE service # "email"
        <4>1. /\ emails \in EmailState
              /\ \A e \in Emails : emails.delivered[e] = 0 /\ emails.unsaved[e] = 0
          <5>1. EmailInit
            BY <2>0, <3>2 DEF OthersInv
          <5>2. QED
            BY <5>1, EmailAssumption DEF EmailInit, EmailState, EmailRow
        <4>2. QED
          BY <4>1, EmailAssumption DEF EmailState, EmailRow, EmailTypeOK
      <3>3. QED
        BY <3>1, <3>2
    <2>10. OptOutsTypeOK
      <3>1. CASE service = "optouts"
        BY <2>0, <3>1 DEF FollowedInv, OptOutsInv
      <3>2. CASE service # "optouts"
        <4>1. OptOutsInit
          BY <2>0, <3>2 DEF OthersInv
        <4>2. QED
          BY <4>1 DEF OptOutsInit, OptOutsTypeOK
      <3>3. QED
        BY <3>1, <3>2
    <2>11. NoticesTypeOK
      <3>1. CASE service = "notices"
        <4>1. notices \in NoticesState /\ NoticesBounds
          BY <2>0, <3>1 DEF FollowedInv, NoticesInv, Bounds
        <4>2. \A n : Cardinality(Marking(n)) \in Nat
          <5>1. \A n : Marking(n) \subseteq Calls
            BY DEF Marking
          <5>2. QED
            BY <5>1, RequestsAssumption, FS_Subset, FS_CardinalityType
        <4>3. \A n \in Notices : /\ notices.shown[n] \in 0 .. MaxDelivered
                                 /\ notices.unrecorded[n] \in 0 .. MaxDelivered
          BY <4>1, <4>2, EmailAssumption DEF NoticesState, NoticesBounds
        <4>4. QED
          BY <4>1, <4>3 DEF NoticesState, NoticeStatus, NoticesTypeOK
      <3>2. CASE service # "notices"
        BY <2>0, <3>2, EmailAssumption, NoticesAssumption DEF OthersInv, NoticesInit, NoticesTypeOK
      <3>3. QED
        BY <3>1, <3>2
    <2>12. RateTypeOK
      <3>1. limits \in LimitsState
        BY <2>0 DEF FollowedInv, RateInv, OthersInv
      <3>2. members \in 0 .. MaxJoins
        BY <2>0, RateAssumption DEF FollowedInv, CohortInv, OthersInv
      <3>3. QED
        BY <3>1, <3>2 DEF LimitsState, Lists, RateTypeOK
    <2>13. AccountsTypeOK
      <3>1. user \in UserRow /\ resets \in ResetsState /\ edits \in Numbers
        BY <2>0, NewUserIsTyped DEF FollowedInv, AccountsInv, OthersInv
      <3>2. QED
        BY <3>1 DEF UserRow, ResetsState, AccountsTypeOK
    <2>14. CoursesTypeOK
      <3>1. CASE service = "courses"
        BY <2>0, <3>1 DEF FollowedInv, CoursesInv, CatalogState, Bounds, CoursesBounds, CoursesTypeOK
      <3>2. CASE service # "courses"
        <4>1. /\ course = None /\ catalog.indexed = FALSE /\ catalog.plans = 0
              /\ catalog.past = {} /\ catalog.versions = << >>
          BY <2>0, <3>2 DEF OthersInv, CoursesInit
        <4>2. QED
          <5>1. Len(catalog.versions) <= MaxVersions
            <6>1. Len(catalog.versions) = 0
              BY <4>1
            <6>2. QED
              BY <6>1, CoursesAssumption
          <5>2. course \in CourseRow \cup {None} /\ catalog.past \subseteq Plans
            BY <4>1
          <5>3. catalog.indexed \in BOOLEAN
            <6>1. catalog.indexed = FALSE
              BY <4>1
            <6>2. QED
              BY <6>1, Zenon
          <5>4. catalog.plans \in 0 .. MaxPlans
            <6>1. catalog.plans = 0
              BY <4>1
            <6>2. QED
              BY <6>1, CoursesAssumption
          <5>5. QED
            BY <5>1, <5>2, <5>3, <5>4, Zenon DEF CoursesTypeOK
      <3>3. QED
        BY <3>1, <3>2
    <2>15. ForumTypeOK
      <3>1. CASE service = "forum"
        BY <2>0, <3>1, CoursesAssumption
        DEF FollowedInv, ForumInv, ForumState, Bounds, ForumBounds, ForumTypeOK
      <3>2. CASE service # "forum"
        BY <2>0, <3>2, CoursesAssumption DEF OthersInv, ForumInit, ForumTypeOK
      <3>3. QED
        BY <3>1, <3>2
    <2>16. OfflineTypeOK
      <3>1. CASE service = "offline"
        <4>1. /\ writes \in WritesState /\ browser \in BrowserState /\ OfflineBounds
              /\ writes.queue \cup writes.queued \cup Settled \subseteq Written
          BY <2>0, <3>1 DEF FollowedInv, OfflineInv, Bounds
        <4>2. \A w \in Writes : writes.arrived[w] \in 0 .. MaxArrivals
          BY <4>1, OfflineAssumption DEF WritesState, OfflineBounds
        <4>3. QED
          BY <4>1, <4>2 DEF WritesState, BrowserState, Settled, OfflineTypeOK
      <3>2. CASE service # "offline"
        BY <2>0, <3>2, OfflineAssumption DEF OthersInv, OfflineInit, OfflineTypeOK
      <3>3. QED
        BY <3>1, <3>2
    <2>17. QED
      BY <2>0, <2>1, <2>2, <2>3, <2>4, <2>5, <2>6, <2>7, <2>8, <2>9, <2>10, <2>11, <2>12, <2>13,
         <2>14, <2>15, <2>16 DEF ServicesTypeOK
  <1>2. QED
    BY <1>1, ServicesInvHolds, BoundsHold, PTL
=============================================================================
