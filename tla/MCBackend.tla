----------------------------- MODULE MCBackend -----------------------------
(***************************************************************************)
(* The backend's own business, one part at a time: billing (two            *)
(* checkouts; one checkout and a gift card; one checkout and its overage), *)
(* accounts (passwords; identities; the administrator) and notices (prices;*)
(* mails; quota alerts).  The parts touch different rows.                  *)
(***************************************************************************)
EXTENDS Billing, Accounts, Notices, TLC

CONSTANTS k1, k2
VARIABLE part

BackendInit ==
    /\ part \in {"plans", "gifts", "overage", "passwords", "identities", "admin",
                 "prices", "mails", "alerts"}
    /\ BillInit /\ AccountInit /\ NoticeInit
    /\ part \notin {"prices", "mails", "alerts"} => \A v \in Value : price <= v

OnlyBills == UNCHANGED <<accountVars, noticeVars, part>>
OnlyLogins == UNCHANGED <<billVars, noticeVars, part>>
OnlyMails == UNCHANGED <<billVars, accountVars, part>>

BackendNext ==
    \/ part = "plans" /\ PlanNext({k1, k2}) /\ OnlyBills
    \/ part = "gifts" /\ (PlanNext({k1}) \/ GiftNext) /\ OnlyBills
    \/ part = "overage" /\ (PlanNext({k1}) \/ OverageNext) /\ OnlyBills
    \/ /\ part = "passwords"
       /\ CommonNext \/ SessionNext \/ PasswordNext \/ \E a \in DOMAIN accounts : SoftDeleteUser(a)
       /\ Len(tokens') < MaxTokens /\ Len(accounts') < MaxAccounts   \* bounds: one less than the others'
       /\ OnlyLogins
    \/ part = "identities" /\ (CommonNext \/ SessionNext \/ IdentityNext) /\ OnlyLogins
    \/ part = "admin" /\ (CommonNext \/ AdminNext) /\ OnlyLogins
    \/ part = "prices" /\ PriceNext /\ OnlyMails
    \/ part = "mails" /\ (Create \/ Cancel \/ MailNext) /\ OnlyMails
    \/ part = "alerts" /\ AlertNext /\ OnlyMails

BackendSpec == BackendInit /\ [][BackendNext]_<<billVars, accountVars, noticeVars, part>>

(* Requests of one kind are interchangeable. *)
BackendSymmetry == Permutations(Handler) \cup Permutations(Request)
=============================================================================
