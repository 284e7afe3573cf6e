------------------------------ MODULE Sessions ------------------------------
(***************************************************************************)
(* Token pairs: a refresh token is exchanged for a new pair, a log-out     *)
(* that finds its refresh token revokes it and blacklists the access       *)
(* token, in the cache of the process first and in the database second,    *)
(* and a request is let in unless one of the two knows its access token.   *)
(* One number names a pair.  Passwords, MFA, the user row and the expiry   *)
(* of refresh tokens are left out: they only decide whether a login or a   *)
(* refresh goes on.                                                        *)
(***************************************************************************)
EXTENDS Requests

CONSTANT MaxTokens     \* bound on the pairs issued
ASSUME SessionsAssumption == MaxTokens \in Nat

VARIABLE sessions

Tokens == 0 .. MaxTokens - 1

SessionsInit ==
  sessions = [next |-> 0,
              revoked |-> {},        \* refresh tokens
              lapsed |-> {},         \* access tokens past their quarter of an hour
              cached |-> {},         \* blacklist entries in the cache
              blacklist |-> {},      \* rows of token_blacklist
              exchanged |-> [t \in Tokens |-> 0],  \* pairs a token was exchanged for
              answered |-> {},       \* refresh tokens whose log-out was answered
              closed |-> {},         \* access tokens one of these blacklisted
              intruded |-> {}]       \* those let in by a request made after that

Issued == 0 .. sessions.next - 1

issueTokenPair(s) == [s EXCEPT !.next = @ + 1]

login(c) ==
  /\ At(c, "idle")
  /\ sessions.next < MaxTokens
  /\ sessions' = issueTokenPair(sessions)
  /\ UNCHANGED reqVars

\* findOne({ tokenHash, revoked: false }).
Stored(t) == t \in Issued \ sessions.revoked

refresh(c, t) ==
  /\ Stored(t)
  /\ Reads(c, "rotate", t, Stored(t), None)
  /\ UNCHANGED sessions

refresh_rotate(c) ==
  /\ At(c, "rotate")
  /\ sessions' = [sessions EXCEPT !.revoked = @ \cup {call[c].id}]
  /\ Trusts(c, Stored(call[c].id))
  /\ Moves(c, "issue")

refresh_issue(c) ==
  /\ At(c, "issue")
  /\ sessions.next < MaxTokens
  /\ sessions' = [issueTokenPair(sessions) EXCEPT !.exchanged[call[c].id] = @ + 1]
  /\ Ends(c)
  /\ UNCHANGED raced

\* shown: the body holds the access token too.  The controller names no user, so
\* only a refresh token still stored leads to one, and to the blacklist: without
\* it the log-out is answered at once, and the access token goes on working.
logout(c, t, shown) ==
  /\ Stored(t)
  /\ Reads(c, "revoke", t, Stored(t), shown)
  /\ UNCHANGED sessions

logout_unknown(c, t) ==
  /\ At(c, "idle")
  /\ t \in Issued /\ ~Stored(t)
  /\ sessions' = [sessions EXCEPT !.answered = @ \cup {t}]
  /\ UNCHANGED reqVars

logout_revoke(c) ==
  /\ At(c, "revoke")
  /\ LET t == call[c].id IN
     IF call[c].arg
     THEN /\ sessions' = [sessions EXCEPT !.revoked = @ \cup {t}]
          /\ Moves(c, "cache")
     ELSE /\ sessions' = [sessions EXCEPT !.revoked = @ \cup {t},
                                          !.answered = @ \cup {t}]
          /\ Ends(c)
  /\ Trusts(c, Stored(call[c].id))

\* cacheManager.set, unless the token has lapsed already.
blacklistToken(c) ==
  /\ At(c, "cache")
  /\ sessions' = [sessions EXCEPT !.cached = @ \cup ({call[c].id} \ sessions.lapsed)]
  /\ Moves(c, "persist")
  /\ UNCHANGED raced

\* A mutant of blacklistToken_persist: the database entry is skipped.
blacklistToken_persist_CacheOnly(c) ==
  /\ At(c, "persist")
  /\ sessions' = [sessions EXCEPT !.answered = @ \cup {call[c].id},
                                  !.closed = @ \cup {call[c].id}]
  /\ Ends(c)
  /\ UNCHANGED raced

blacklistToken_persist(c) ==
  /\ At(c, "persist")
  /\ sessions' = [sessions EXCEPT !.blacklist = @ \cup {call[c].id},
                                  !.answered = @ \cup {call[c].id},
                                  !.closed = @ \cup {call[c].id}]
  /\ Ends(c)
  /\ UNCHANGED raced

\* A request that shows access token t; only a cached TRUE is ever an answer.
isTokenBlacklisted(c, t) ==
  /\ t \in Issued \ sessions.lapsed
  /\ t \notin sessions.cached
  /\ Reads(c, "lookup", t, t \in sessions.closed, None)
  /\ UNCHANGED sessions

isTokenBlacklisted_lookup(c) ==
  /\ At(c, "lookup")
  /\ LET t == call[c].id IN
     IF t \in sessions.blacklist
     THEN sessions' = [sessions EXCEPT !.cached = @ \cup ({t} \ sessions.lapsed)]
     ELSE sessions' = [sessions EXCEPT !.intruded =
                         IF call[c].seen /\ t \notin sessions.lapsed THEN @ \cup {t} ELSE @]
  /\ Ends(c)
  /\ UNCHANGED raced

\* A cache entry lives as long as the access token it is about.
AccessTokenLapses(t) ==
  /\ t \in Issued \ sessions.lapsed
  /\ sessions' = [sessions EXCEPT !.lapsed = @ \cup {t}, !.cached = @ \ {t}]
  /\ UNCHANGED reqVars

cleanupExpiredTokens ==
  /\ sessions.blacklist \cap sessions.lapsed # {}
  /\ sessions' = [sessions EXCEPT !.blacklist = @ \ sessions.lapsed]
  /\ UNCHANGED reqVars

\* The cache is the memory of the process.
Restart == Dies /\ sessions' = [sessions EXCEPT !.cached = {}]

SessionsNext ==
  \/ \E c \in Calls, t \in Tokens :
       \/ refresh(c, t) \/ logout_unknown(c, t) \/ isTokenBlacklisted(c, t)
       \/ \E shown \in BOOLEAN : logout(c, t, shown)
  \/ \E c \in Calls :
       \/ login(c) \/ refresh_rotate(c) \/ refresh_issue(c) \/ logout_revoke(c)
       \/ blacklistToken(c) \/ blacklistToken_persist(c)
       \/ isTokenBlacklisted_lookup(c)
       \/ Fails(c) /\ UNCHANGED sessions
  \/ \E t \in Tokens : AccessTokenLapses(t)
  \/ cleanupExpiredTokens
  \/ Restart

SessionsTypeOK ==
  sessions \in [next : 0 .. MaxTokens, revoked : SUBSET Tokens,
                lapsed : SUBSET Tokens, cached : SUBSET Tokens, blacklist : SUBSET Tokens,
                exchanged : [Tokens -> 0 .. MaxTokens], answered : SUBSET Tokens,
                closed : SUBSET Tokens, intruded : SUBSET Tokens]

(* A log-out that was answered leaves its refresh token revoked for good.   *)
(* One that came to blacklist its access token is final: no request that    *)
(* begins after the answer gets in with it, whatever restarts, cache misses *)
(* and clean-ups come between.  A log-out whose refresh token was revoked   *)
(* already is answered alike and blacklists nothing: nothing is said of its *)
(* access token, which lives until it lapses.                               *)
RevokingLogoutIsFinal ==
  /\ sessions.answered \subseteq sessions.revoked
  /\ sessions.intruded = {}

(* A token that was exchanged is revoked for good, in whatever order        *)
(* refreshes and log-outs of it overlap.                                    *)
ExchangedIsRevoked ==
  \A t \in Tokens : sessions.exchanged[t] > 0 => t \in sessions.revoked

(* Only calls that overlap exchange one token twice.                        *)
RotationIsSingleUse == ~raced => \A t \in Tokens : sessions.exchanged[t] <= 1
=============================================================================
