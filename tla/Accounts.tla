------------------------------ MODULE Accounts ------------------------------
(***************************************************************************)
(* The row of one user and the calls that change it: AccountService,       *)
(* AuthService (verification, password reset, MFA, backup codes),          *)
(* ExportService.deleteAccount.  UsersService.update reads the row, spreads *)
(* the changes over the copy and saves it whole: { ...user, ...data }.     *)
(* What a method decides on it has read before, in a query of its own.     *)
(*                                                                         *)
(* Everything a call makes new (a token, a password, a secret, a batch of  *)
(* codes) carries the number of the call.  Expiry of tokens is left out: a *)
(* lapsed token is one nobody presents.                                    *)
(***************************************************************************)
EXTENDS Requests

CONSTANTS
  MaxEdits,     \* bound on the calls
  MaxRecent,    \* reset tokens a user may have made within the hour
  CodesEach     \* backup codes in a batch

ASSUME AccountsAssumption == MaxEdits \in Nat /\ MaxRecent \in Nat /\ CodesEach \in Nat

VARIABLES
  user,      \* the row
  resets,    \* password_reset_tokens
  edits,     \* calls begun
  told       \* for the properties: what users were told, and what they have shown

accountVars == <<user, resets, edits, told>>

Numbers == 0 .. MaxEdits
Batch(n) == {n} \X (1 .. CodesEach)
Codes == Numbers \X (1 .. CodesEach)

\* After registration, and with the address verified and MFA set up.
Registered ==
  [pii |-> TRUE, password |-> 0, isVerified |-> FALSE, verificationToken |-> 0,
   isBanned |-> FALSE, mfaEnabled |-> FALSE, mfaSecret |-> None,
   mfaBackupCodes |-> {}]
Protected ==
  [Registered EXCEPT !.isVerified = TRUE, !.verificationToken = None,
                     !.mfaEnabled = TRUE, !.mfaSecret = 0, !.mfaBackupCodes = Batch(0)]

AccountsInit ==
  /\ user \in {Registered, Protected}
  /\ resets = [made |-> {}, used |-> {}]
  /\ edits = 0
  /\ told = [erased |-> FALSE,      \* the personal data are gone
             banned |-> FALSE,      \* the last decision
             password |-> 0,        \* the last one set
             verified |-> user.isVerified,
             proven |-> {0},        \* secrets for which a valid code was shown
             accepted |-> {},       \* backup codes a login went through with
             again |-> FALSE,       \* one of them twice
             applied |-> [t \in Numbers |-> 0],   \* passwords set by reset token t
             unspent |-> [t \in Numbers |-> 0]]   \* of these, where the token was not spent

Begins(c, step, seen, a) ==
  /\ edits < MaxEdits
  /\ edits' = edits + 1
  /\ Reads(c, step, edits + 1, seen, a)

\* usersService.update: the row is read (again) and is now `new` in the call's hands.
Updates(c, step, new) == Waits(c, step, call[c].id, user, new)

\* ---- decided and saved on one copy

Edits(c, new) == Begins(c, "save", user, new) /\ UNCHANGED <<user, resets, told>>

banUser(c, isBanned) == Edits(c, [user EXCEPT !.isBanned = isBanned])
deleteAccount(c) ==
  Edits(c, [user EXCEPT !.pii = FALSE, !.password = None, !.verificationToken = None,
                        !.mfaSecret = None, !.mfaBackupCodes = {}])

\* softDelete, changeRole, a linked wallet: columns that no call below reads.
changeColumn(c) == Edits(c, user)

\* The row read first serves for a name in the QR code.
generateMfaSecret(c) ==
  Edits(c, [user EXCEPT !.mfaSecret = edits + 1, !.mfaEnabled = FALSE])

save(c) ==
  LET seen == call[c].seen
      new == call[c].arg
  IN  /\ At(c, "save")
      /\ user' = new
      /\ told' = [told EXCEPT
           !.erased = @ \/ (seen.pii /\ ~new.pii),
           !.banned = IF new.isBanned # seen.isBanned THEN new.isBanned ELSE @,
           !.password = IF new.password # seen.password THEN new.password ELSE @,
           !.verified = @ \/ (new.isVerified /\ ~seen.isVerified)]
      /\ Trusts(c, user)
      /\ Ends(c)
      /\ UNCHANGED <<resets, edits>>

\* ---- decided on one copy, saved on another

\* A premise that held when the call read it, and its update of the row.
Checks(c, step, premise) == Begins(c, step, premise, None) /\ UNCHANGED <<user, resets, told>>
Applies(c, step, premise, new) ==
  /\ At(c, step)
  /\ Trusts(c, premise)
  /\ Updates(c, "save", new)
  /\ UNCHANGED accountVars

\* findByVerificationToken: the caller holds the token of the row.
verifyEmail(c) == user.verificationToken # None /\ Checks(c, "verify", user.verificationToken)
verifyEmail_update(c) ==
  Applies(c, "verify", user.verificationToken,
          [user EXCEPT !.isVerified = TRUE, !.verificationToken = None])

resendVerification(c) == ~user.isVerified /\ Checks(c, "resend", user.isVerified)
resendVerification_update(c) ==
  Applies(c, "resend", user.isVerified, [user EXCEPT !.verificationToken = call[c].id])

\* The code shown is one of the secret that was read.
verifyMfaSecret(c) ==
  /\ user.mfaSecret # None
  /\ Begins(c, "enable", user.mfaSecret, None)
  /\ told' = [told EXCEPT !.proven = @ \cup {user.mfaSecret}]
  /\ UNCHANGED <<user, resets>>
verifyMfaSecret_update(c) ==
  Applies(c, "enable", user.mfaSecret,
          [user EXCEPT !.mfaEnabled = TRUE, !.mfaBackupCodes = Batch(call[c].id)])

HasMfa == user.mfaEnabled /\ user.mfaSecret # None

disableMfa(c) == HasMfa /\ Checks(c, "disable", user.mfaSecret)
disableMfa_update(c) ==
  Applies(c, "disable", user.mfaSecret,
          [user EXCEPT !.mfaEnabled = FALSE, !.mfaSecret = None, !.mfaBackupCodes = {}])

regenerateBackupCodes(c) == HasMfa /\ Checks(c, "regenerate", user.mfaSecret)
regenerateBackupCodes_update(c) ==
  Applies(c, "regenerate", user.mfaSecret, [user EXCEPT !.mfaBackupCodes = Batch(call[c].id)])

\* A login that was asked for a code on an earlier copy; arg: the code.
useBackupCode(c, code) ==
  /\ code \in user.mfaBackupCodes
  /\ Begins(c, "code", user.mfaBackupCodes, code)
  /\ UNCHANGED <<user, resets, told>>

\* The codes left were computed from the first copy.
useBackupCode_update(c) ==
  /\ At(c, "code")
  /\ Trusts(c, user.mfaBackupCodes)
  /\ Waits(c, "save_code", call[c].arg, user,
           [user EXCEPT !.mfaBackupCodes = call[c].seen \ {call[c].arg}])
  /\ UNCHANGED accountVars

useBackupCode_save(c) ==
  LET code == call[c].id
  IN  /\ At(c, "save_code")
      /\ user' = call[c].arg
      /\ told' = [told EXCEPT !.accepted = @ \cup {code}, !.again = @ \/ code \in told.accepted]
      /\ Trusts(c, user)
      /\ Ends(c)
      /\ UNCHANGED <<resets, edits>>

\* ---- password reset

forgotPassword(c) ==
  /\ Cardinality(resets.made) < MaxRecent
  /\ Begins(c, "make_reset", resets.made, None)
  /\ UNCHANGED <<user, resets, told>>
forgotPassword_insert(c) ==
  /\ At(c, "make_reset")
  /\ resets' = [resets EXCEPT !.made = @ \cup {call[c].id}]
  /\ Trusts(c, resets.made)
  /\ Ends(c)
  /\ UNCHANGED <<user, edits, told>>

\* arg: the token; seen: was it used?  Then bcrypt.hash.
resetPassword(c, t) ==
  /\ t \in resets.made \ resets.used
  /\ Begins(c, "hash", FALSE, t)
  /\ UNCHANGED <<user, resets, told>>
resetPassword_update(c) ==
  LET t == call[c].arg
  IN  /\ At(c, "hash")
      /\ Trusts(c, t \in resets.used)
      /\ Waits(c, "save_password", t, user,
               [row |-> [user EXCEPT !.password = call[c].id], used |-> call[c].seen])
      /\ UNCHANGED accountVars
resetPassword_save(c) ==
  LET t == call[c].id
      new == call[c].arg.row
  IN  /\ At(c, "save_password")
      /\ user' = new
      /\ told' = [told EXCEPT !.password = new.password, !.applied[t] = @ + 1]
      /\ Trusts(c, user)
      /\ Waits(c, "spend", t, call[c].arg.used, None)
      /\ UNCHANGED <<resets, edits>>
resetPassword_spend(c) ==
  LET t == call[c].id
  IN  /\ At(c, "spend")
      /\ resets' = [resets EXCEPT !.used = @ \cup {t}]
      /\ Trusts(c, t \in resets.used)
      /\ Ends(c)
      /\ UNCHANGED <<user, edits, told>>

AccountFails(c) ==
  /\ Fails(c)
  /\ told' = IF At(c, "spend") THEN [told EXCEPT !.unspent[call[c].id] = @ + 1] ELSE told
  /\ UNCHANGED <<user, resets, edits>>

AccountsNext ==
  \E c \in Calls :
    \/ \E isBanned \in BOOLEAN : banUser(c, isBanned)
    \/ deleteAccount(c) \/ changeColumn(c) \/ generateMfaSecret(c) \/ save(c)
    \/ verifyEmail(c) \/ verifyEmail_update(c)
    \/ resendVerification(c) \/ resendVerification_update(c)
    \/ verifyMfaSecret(c) \/ verifyMfaSecret_update(c)
    \/ disableMfa(c) \/ disableMfa_update(c)
    \/ regenerateBackupCodes(c) \/ regenerateBackupCodes_update(c)
    \/ \E code \in Codes : useBackupCode(c, code)
    \/ useBackupCode_update(c) \/ useBackupCode_save(c)
    \/ forgotPassword(c) \/ forgotPassword_insert(c)
    \/ \E t \in Numbers : resetPassword(c, t)
    \/ resetPassword_update(c) \/ resetPassword_save(c) \/ resetPassword_spend(c)
    \/ AccountFails(c)

AccountsTypeOK ==
  /\ user \in [pii : BOOLEAN, password : Numbers \cup {None}, isVerified : BOOLEAN,
               verificationToken : Numbers \cup {None}, isBanned : BOOLEAN,
               mfaEnabled : BOOLEAN, mfaSecret : Numbers \cup {None},
               mfaBackupCodes : SUBSET Codes]
  /\ resets \in [made : SUBSET Numbers, used : SUBSET Numbers]
  /\ edits \in Numbers

Spending(t) == {c \in Calls : At(c, "spend") /\ call[c].id = t}

(* Unless calls race: personal data once erased stay erased, the last ban    *)
(* and the last password stand and a verified address stays verified; a      *)
(* backup code opens one login; a reset token sets one password, and one     *)
(* more for each time that a failure kept it from being spent; MFA is on     *)
(* only with a secret whose code was shown.                                  *)
AccountsAreKept ==
  ~raced =>
    /\ told.erased => ~user.pii
    /\ user.isBanned = told.banned
    /\ told.verified => user.isVerified
    /\ user.password = told.password
    /\ ~told.again /\ user.mfaBackupCodes \cap told.accepted = {}
    /\ Cardinality(resets.made) <= MaxRecent
    /\ \A t \in resets.made :
         told.applied[t] = told.unspent[t] + Cardinality(Spending(t))
                             + (IF t \in resets.used THEN 1 ELSE 0)
    /\ user.mfaEnabled /\ user.pii => user.mfaSecret \in told.proven
=============================================================================
