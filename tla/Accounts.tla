------------------------------ MODULE Accounts ------------------------------
(***************************************************************************)
(* Accounts of the dashboard (backend/internal/api, auth, store): sign-up,  *)
(* login and its lockout, refresh tokens that are replaced at every use,   *)
(* the reset and the change of a password, sign-in through a provider, the *)
(* deletion of an account, and the login of an administrator with a code   *)
(* of an authenticator.                                                    *)
(*                                                                         *)
(* There is one mail address, so at most one live account at a time, one   *)
(* identity at a provider and one administrator.  A request is a sequence  *)
(* of statements; other requests run between them.  A password is the      *)
(* number of the change that set it.                                       *)
(***************************************************************************)
EXTENDS Naturals, Sequences, FiniteSets

CONSTANTS
    Request,               \* requests under way
    LockoutThreshold,      \* failures before an account is locked
    AdminLockoutThreshold,
    LockoutDuration,
    RefreshTokenTTL, PasswordResetTTL,
    MaxAccounts, MaxTokens, MaxPasswords, MaxResets, MaxTime, \* bounds
    MaxAccountFaults              \* bound: failed statements and stopped processes

VARIABLES
    now,
    accounts,  \* users: sequence of rows; "wrong" is history: the wrong guesses
               \* answered since the last right one or the last tick
    link,      \* user_oauth_links: the account of the provider's identity, 0 without
    tokens,    \* refresh_tokens
    resets,    \* password_reset_tokens
    req,       \* request -> where it stands
    admin,     \* the administrator's row
    accepted,  \* history: window -> logins of the administrator it served
    faults

(* The thresholds count failures and a lock lasts, in a service that serves *)
(* finitely many requests at a time.                                        *)
ASSUME LockoutAssumption ==
    /\ LockoutThreshold \in Nat \ {0} /\ LockoutDuration \in Nat \ {0}
    /\ IsFiniteSet(Request)

(* Tokens are good for a while. *)
ASSUME TokenAssumption == RefreshTokenTTL \in Nat \ {0} /\ PasswordResetTTL \in Nat \ {0}

accountVars == <<now, accounts, link, tokens, resets, req, admin, accepted, faults>>

IdleRequest == [pc |-> "idle"]

AccountInit ==
    /\ now = 1
    /\ accounts = << >> /\ link = 0 /\ tokens = << >> /\ resets = << >>
    /\ req = [h \in Request |-> IdleRequest]
    /\ admin = [failed |-> 0, locked |-> 0, window |-> 0, mfa |-> TRUE]
    /\ accepted = [w \in 1..MaxTime |-> 0]
    /\ faults = 0

AccountFault == faults < MaxAccountFaults /\ faults' = faults + 1

Live == {a \in DOMAIN accounts : accounts[a].live}

At(h, pc) == req[h].pc = pc
Go(h, r) == req' = [req EXCEPT ![h] = r]
Answer(h) == Go(h, IdleRequest)

Customers == <<accounts, link, tokens, resets>>
Admins == <<admin, accepted>>

----------------------------------------------------------------------------
(* Sign-up and login. *)

CreateUser(password) ==
    Append(accounts, [live |-> TRUE, password |-> password, failed |-> 0, locked |-> 0, wrong |-> 0])

Issue(a, parent) == [pc |-> "issue", a |-> a, parent |-> parent]

handleSignup(h) ==
    /\ At(h, "idle")
    /\ Live = {} /\ Len(accounts) < MaxAccounts
    /\ accounts' = CreateUser(1)
    /\ Go(h, Issue(Len(accounts) + 1, 0))
    /\ UNCHANGED <<now, link, tokens, resets, faults, Admins>>

(* The row is read with its password ... *)
handleLogin(h, guess) ==
    /\ At(h, "idle")
    /\ \E a \in Live :
          Go(h, [pc |-> "lock", a |-> a, ok |-> accounts[a].password # 0 /\ guess = accounts[a].password])
    /\ UNCHANGED <<now, faults, Customers, Admins>>

(* Seeded fault: the lock is not looked at. *)
LockIgnored(row) == FALSE

IsUserLocked(row) == row.locked > now

(* ... the lock is read, and a lock that is over is taken away by a         *)
(* statement of its own; a lock that cannot be read holds nobody up ...     *)
checkLockout(h) ==
    LET row == accounts[req[h].a] IN
    /\ At(h, "lock")
    /\ \/ /\ IF IsUserLocked(row) THEN Answer(h)
             ELSE Go(h, [req[h] EXCEPT !.pc = IF row.locked # 0 THEN "unlock" ELSE "verify"])
          /\ UNCHANGED faults
       \/ AccountFault /\ Go(h, [req[h] EXCEPT !.pc = "verify"])
    /\ UNCHANGED <<now, Customers, Admins>>

Unlock(h) ==
    /\ At(h, "unlock")
    /\ \/ accounts' = [accounts EXCEPT ![req[h].a].failed = 0, ![req[h].a].locked = 0] /\ UNCHANGED faults
       \/ AccountFault /\ UNCHANGED accounts
    /\ Go(h, [req[h] EXCEPT !.pc = "verify"])
    /\ UNCHANGED <<now, link, tokens, resets, Admins>>

Failed(row, threshold) ==
    [row EXCEPT !.failed = @ + 1,
                !.locked = IF row.failed + 1 >= threshold THEN now + LockoutDuration ELSE @]

(* ... and the outcome is recorded, as well as it can be. *)
recordFailedLogin(h) ==
    /\ At(h, "verify") /\ ~req[h].ok
    /\ \/ /\ LET row == Failed(accounts[req[h].a], LockoutThreshold)
             IN  accounts' = [accounts EXCEPT ![req[h].a] = [row EXCEPT !.wrong = @ + 1]]
          /\ UNCHANGED faults
       \/ AccountFault /\ accounts' = [accounts EXCEPT ![req[h].a].wrong = @ + 1]
    /\ Answer(h)
    /\ UNCHANGED <<now, link, tokens, resets, Admins>>

recordSuccessfulLogin(h) ==
    /\ At(h, "verify") /\ req[h].ok
    /\ \/ /\ accounts' = [accounts EXCEPT ![req[h].a].failed = 0, ![req[h].a].locked = 0, ![req[h].a].wrong = 0]
          /\ UNCHANGED faults
       \/ AccountFault /\ accounts' = [accounts EXCEPT ![req[h].a].wrong = 0]
    /\ Go(h, Issue(req[h].a, 0))
    /\ UNCHANGED <<now, link, tokens, resets, Admins>>

----------------------------------------------------------------------------
(* Refresh tokens. *)

Alive(t) == ~tokens[t].revoked

CreateRefreshToken(a, login) ==
    Append(tokens, [of |-> a, login |-> login, heir |-> 0, revoked |-> FALSE, expires |-> now + RefreshTokenTTL])

(* Seeded fault: the parent is consumed whether or not it already was. *)
RotateAnyway(parent) == TRUE

ConsumeRefreshToken(parent) == Alive(parent)

(* The child is inserted and the parent consumed in one transaction, or     *)
(* neither.                                                                 *)
RotateRefreshToken(a, parent) ==
    IF ConsumeRefreshToken(parent)
    THEN [CreateRefreshToken(a, tokens[parent].login)
          EXCEPT ![parent].revoked = TRUE, ![parent].heir = Len(tokens) + 1]
    ELSE tokens

issueSession(h) ==
    /\ At(h, "issue")
    /\ Len(tokens) < MaxTokens
    /\ tokens' = IF req[h].parent = 0 THEN CreateRefreshToken(req[h].a, Len(tokens) + 1)
                 ELSE RotateRefreshToken(req[h].a, req[h].parent)
    /\ Answer(h)
    /\ UNCHANGED <<now, accounts, link, resets, faults, Admins>>

(* The tokens that come after a token. *)
Chain(t) ==
    LET up[i \in DOMAIN tokens] == i = t \/ \E j \in 1..(i - 1) : tokens[j].heir = i /\ up[j]
    IN  {i \in DOMAIN tokens : up[i]}

(* A statement that revokes works on the rows it saw when it began. *)
RevokeRefreshTokenFamily(t) == [pc |-> "revoke", rows |-> Chain(t), then |-> "idle", a |-> tokens[t].of]

RevokeRefreshTokensByUser(a, then) ==
    [pc |-> "revoke", rows |-> {t \in DOMAIN tokens : tokens[t].of = a /\ Alive(t)}, then |-> then, a |-> a]

handleRefresh(h, t) ==
    /\ At(h, "idle")
    /\ IF ~Alive(t) THEN Go(h, RevokeRefreshTokenFamily(t))
       ELSE IF tokens[t].expires < now \/ tokens[t].of \notin Live THEN Answer(h)
       ELSE Go(h, Issue(tokens[t].of, t))
    /\ UNCHANGED <<now, faults, Customers, Admins>>

handleLogout(h, t) ==
    /\ At(h, "idle")
    /\ Go(h, RevokeRefreshTokensByUser(tokens[t].of, "idle"))
    /\ UNCHANGED <<now, faults, Customers, Admins>>

Revoke(h) ==
    /\ At(h, "revoke")
    /\ \/ /\ tokens' = [t \in DOMAIN tokens |->
                          IF t \in req[h].rows THEN [tokens[t] EXCEPT !.revoked = TRUE] ELSE tokens[t]]
          /\ Go(h, IF req[h].then = "idle" THEN IdleRequest ELSE [pc |-> req[h].then, a |-> req[h].a])
          /\ UNCHANGED faults
       \/ AccountFault /\ Answer(h) /\ UNCHANGED tokens
    /\ UNCHANGED <<now, accounts, link, resets, Admins>>

----------------------------------------------------------------------------
(* Passwords. *)

dispatchPasswordReset ==
    /\ Len(resets) < MaxResets
    /\ \E a \in Live :
          /\ accounts[a].password # 0
          /\ resets' = Append(resets, [of |-> a, used |-> FALSE, set |-> 0,
                                       expires |-> now + PasswordResetTTL])
    /\ UNCHANGED <<now, accounts, link, tokens, req, faults, Admins>>

(* Seeded fault: a reset token is looked up and not consumed. *)
ConsumeNothing(r) == resets[r].expires > now

ConsumePasswordResetToken(r) == ~resets[r].used /\ resets[r].expires > now

(* The new password, the end of the sessions, the end of the lock. *)
handleResetPassword(h, r) ==
    /\ At(h, "idle")
    /\ ConsumePasswordResetToken(r)
    /\ resets' = [resets EXCEPT ![r].used = TRUE]
    /\ Go(h, [pc |-> "password", a |-> resets[r].of, r |-> r])
    /\ UNCHANGED <<now, accounts, link, tokens, faults, Admins>>

handleChangePassword(h, guess) ==
    /\ At(h, "idle")
    /\ \E a \in Live : /\ accounts[a].password # 0 /\ guess = accounts[a].password
                       /\ Go(h, [pc |-> "password", a |-> a, r |-> 0])
    /\ UNCHANGED <<now, faults, Customers, Admins>>

UpdateUserPassword(h) ==
    LET a == req[h].a
        r == req[h].r
    IN  /\ At(h, "password")
        /\ \/ /\ accounts[a].live /\ accounts[a].password < MaxPasswords
              /\ accounts' = [accounts EXCEPT ![a].password = @ + 1]
              /\ resets' = IF r = 0 THEN resets ELSE [resets EXCEPT ![r].set = @ + 1]
              /\ Go(h, RevokeRefreshTokensByUser(a, IF r = 0 THEN "idle" ELSE "reset"))
              /\ UNCHANGED faults
           \/ ~accounts[a].live /\ Answer(h) /\ UNCHANGED <<accounts, resets, faults>>
           \/ AccountFault /\ Answer(h) /\ UNCHANGED <<accounts, resets>>
        /\ UNCHANGED <<now, link, tokens, Admins>>

ResetUserFailedLogin(h) ==
    /\ At(h, "reset")
    /\ accounts' = [accounts EXCEPT ![req[h].a].failed = 0, ![req[h].a].locked = 0, ![req[h].a].wrong = 0]
    /\ Answer(h)
    /\ UNCHANGED <<now, link, tokens, resets, faults, Admins>>

----------------------------------------------------------------------------
(* Sign-in through a provider, and the end of an account. *)

(* The account of the identity, or the one with its address, or a new one. *)
findOrCreateOAuthUser(h) ==
    /\ At(h, "idle")
    /\ IF link \in Live THEN Go(h, Issue(link, 0)) /\ UNCHANGED accounts
       ELSE IF Live # {} THEN (\E a \in Live : Go(h, [pc |-> "link", a |-> a])) /\ UNCHANGED accounts
       ELSE /\ Len(accounts) < MaxAccounts
            /\ accounts' = CreateUser(0)
            /\ Go(h, [pc |-> "link", a |-> Len(accounts) + 1])
    /\ UNCHANGED <<now, link, tokens, resets, faults, Admins>>

LinkProvider(h) ==
    /\ At(h, "link")
    /\ IF link \in {0, req[h].a} THEN link' = req[h].a /\ Go(h, Issue(req[h].a, 0))
       ELSE Answer(h) /\ UNCHANGED link
    /\ UNCHANGED <<now, accounts, tokens, resets, faults, Admins>>

SoftDeleteUser(a) ==
    /\ a \in Live
    /\ accounts' = [accounts EXCEPT ![a].live = FALSE, ![a].password = 0]
    /\ link' = IF link = a THEN 0 ELSE link
    /\ tokens' = [t \in DOMAIN tokens |->
                    IF tokens[t].of = a THEN [tokens[t] EXCEPT !.revoked = TRUE] ELSE tokens[t]]
    /\ resets' = [r \in DOMAIN resets |->
                    IF resets[r].of = a THEN [resets[r] EXCEPT !.used = TRUE] ELSE resets[r]]
    /\ UNCHANGED <<now, req, faults, Admins>>

----------------------------------------------------------------------------
(* The administrator: the lock, the password, the code. *)

handleAdminLogin(h, ok) ==
    /\ At(h, "idle")
    /\ \/ /\ IF admin.locked > now THEN Answer(h)
             ELSE Go(h, [pc |-> "admin", ok |-> ok])
          /\ admin' = IF admin.locked \in 1..now THEN [admin EXCEPT !.failed = 0, !.locked = 0] ELSE admin
          /\ UNCHANGED faults
       \/ AccountFault /\ Go(h, [pc |-> "admin", ok |-> ok]) /\ UNCHANGED admin
    /\ UNCHANGED <<now, accepted, Customers>>

IncrementAdminFailedLogin(h) ==
    /\ At(h, "admin") /\ ~req[h].ok
    /\ admin' = Failed(admin, AdminLockoutThreshold)
    /\ Answer(h)
    /\ UNCHANGED <<now, faults, accepted, Customers>>

(* A code stands for the window it is checked in, which must be later than  *)
(* the last one; if that cannot be read, it is taken to be none.            *)
VerifyTOTP(h) ==
    /\ At(h, "admin") /\ req[h].ok /\ admin.mfa
    /\ \/ now > admin.window /\ UNCHANGED faults
       \/ AccountFault
    /\ Go(h, [pc |-> "window", w |-> now])
    /\ UNCHANGED <<now, Customers, Admins>>

TOTPReplayed(h) ==
    /\ At(h, "admin") /\ req[h].ok /\ admin.mfa
    /\ now <= admin.window
    /\ admin' = Failed(admin, AdminLockoutThreshold)
    /\ Answer(h)
    /\ UNCHANGED <<now, faults, accepted, Customers>>

(* Seeded fault: the window is written whatever the row holds. *)
WindowWritten(w) == TRUE

SetAdminTOTPLastWindow(w) == admin.window < w

AdminEnters(h) ==
    /\ At(h, "window")
    /\ IF SetAdminTOTPLastWindow(req[h].w)
       THEN /\ admin' = [admin EXCEPT !.window = req[h].w, !.failed = 0, !.locked = 0]
            /\ accepted' = [accepted EXCEPT ![req[h].w] = @ + 1]
       ELSE UNCHANGED Admins
    /\ Answer(h)
    /\ UNCHANGED <<now, faults, Customers>>

(* Without a secret the password is enough. *)
AdminEntersWithoutCode(h) ==
    /\ At(h, "admin") /\ req[h].ok /\ ~admin.mfa
    /\ admin' = [admin EXCEPT !.failed = 0, !.locked = 0]
    /\ Answer(h)
    /\ UNCHANGED <<now, faults, accepted, Customers>>

(* A new secret, or none, leaves the last window as it is. *)
SetAdminMFASecret(on) ==
    /\ admin.mfa # on
    /\ admin' = [admin EXCEPT !.mfa = on]
    /\ UNCHANGED <<now, faults, req, accepted, Customers>>

----------------------------------------------------------------------------
RequestStops(h) ==
    /\ ~At(h, "idle")
    /\ AccountFault
    /\ Answer(h)
    /\ UNCHANGED <<now, Customers, Admins>>

AccountTick ==
    /\ now < MaxTime /\ now' = now + 1
    /\ accounts' = [a \in DOMAIN accounts |-> [accounts[a] EXCEPT !.wrong = 0]]
    /\ UNCHANGED <<req, faults, link, tokens, resets, Admins>>

CommonNext == AccountTick \/ \E h \in Request : RequestStops(h)

SessionNext ==
    \E h \in Request :
       \/ handleSignup(h) \/ issueSession(h) \/ Revoke(h)
       \/ \E t \in DOMAIN tokens : handleRefresh(h, t) \/ handleLogout(h, t)

PasswordNext ==
    \/ \E h \in Request :
          \/ \E guess \in 0..MaxPasswords : handleLogin(h, guess) \/ handleChangePassword(h, guess)
          \/ checkLockout(h) \/ Unlock(h) \/ recordFailedLogin(h) \/ recordSuccessfulLogin(h)
          \/ \E r \in DOMAIN resets : handleResetPassword(h, r)
          \/ UpdateUserPassword(h) \/ ResetUserFailedLogin(h)
    \/ dispatchPasswordReset

IdentityNext ==
    \/ \E h \in Request : findOrCreateOAuthUser(h) \/ LinkProvider(h)
    \/ \E a \in DOMAIN accounts : SoftDeleteUser(a)

AdminNext ==
    \/ \E h \in Request :
          \/ \E ok \in BOOLEAN : handleAdminLogin(h, ok)
          \/ IncrementAdminFailedLogin(h) \/ VerifyTOTP(h) \/ TOTPReplayed(h) \/ AdminEnters(h)
          \/ AdminEntersWithoutCode(h)
    \/ \E on \in BOOLEAN : SetAdminMFASecret(on)

AccountNext == CommonNext \/ SessionNext \/ PasswordNext \/ IdentityNext \/ AdminNext

AccountSpec == AccountInit /\ [][AccountNext]_accountVars

----------------------------------------------------------------------------
(* Properties. *)

(* One login has at most one token that can be used, and a token one heir,  *)
(* however many requests present the same token at once.                    *)
OneTokenPerLogin ==
    \A i \in DOMAIN tokens, j \in DOMAIN tokens :
       i # j => /\ tokens[i].login = tokens[j].login => ~(Alive(i) /\ Alive(j))
                /\ tokens[i].heir # 0 => tokens[i].heir # tokens[j].heir

(* A reset token sets one password at most, although the handler may stop   *)
(* after it has consumed it.                                                *)
ResetSpentOnce == \A r \in DOMAIN resets : resets[r].set <= 1

(* The lock limits guessing.  Every request under way may hold on to an old *)
(* lock that it found over, take a newer one away with it and so start the  *)
(* threshold again, once; the others get a guess each time that is          *)
(* answered after the lock; and a statement that fails may cost one.        *)
GuessLimit ==
    Cardinality(Request) * LockoutThreshold + (Cardinality(Request) * (Cardinality(Request) - 1)) \div 2

(* Between two right guesses, no more wrong ones than that are answered in  *)
(* a unit of time.                                                          *)
LockoutHolds == \A a \in DOMAIN accounts : accounts[a].wrong <= GuessLimit + faults

(* "prevents two parallel logins from consuming the same window": a window  *)
(* of the authenticator serves one login of the administrator.              *)
WindowUsedOnce == \A w \in DOMAIN accepted : accepted[w] <= 1

(* Credentials are used up once and locks hold, whatever requests meet.     *)
AccountsKept == OneTokenPerLogin /\ ResetSpentOnce /\ LockoutHolds /\ WindowUsedOnce

=============================================================================
