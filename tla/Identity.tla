------------------------------ MODULE Identity ------------------------------
(***************************************************************************)
(* Who may use the API: wallet logins (internal/walletlogin and the        *)
(* dashboard's auth handlers), the keys they and Keystone mint             *)
(* (internal/userauth, internal/openstackapi/keystone).  RateLimit is in   *)
(* front of the unauthenticated calls.                                     *)
(*                                                                         *)
(* A session, an API key and a Keystone token are all rows of api_keys.    *)
(* Signatures verify: a login attempt for an account is its owner's.       *)
(***************************************************************************)
EXTENDS OpenStackApi

CONSTANTS
  Users,        \* users.user_id values that can be minted
  Accounts,     \* wallet accounts
  Keys,         \* api_keys.key_id values that can be minted
  Challenges    \* user_login_challenges.challenge_id values

ASSUME IdentityAssumption == None \notin Users \cup Accounts \cup Challenges

VARIABLES
  user,         \* the users that exist
  wallet,       \* wallet_accounts: the user of an account
  key,          \* api_keys
  challenge,    \* user_login_challenges
  member        \* project_memberships, never removed

identityVars == <<user, wallet, key, challenge, member>>

-----------------------------------------------------------------------------
(* Keys.                                                                   *)

Usable(k) == key[k].born /\ key[k].state = "live"

\* A key to be minted for u; challenge and account are not columns: they
\* remember what a session was granted for.
Minting(u, project, expires, c, a) ==
  [op |-> "mint", user |-> u, project |-> project, expires |-> expires, challenge |-> c, account |-> a]

Mint(m) == \E k \in {j \in Keys : ~key[j].born} : key' =
  [key EXCEPT ![k] = [born |-> TRUE, state |-> "live", user |-> m.user, project |-> m.project,
                      expires |-> m.expires, challenge |-> m.challenge, account |-> m.account]]

createAPIKey(r) ==
  /\ request[r].op = "mint"
  /\ Mint(request[r])
  /\ Finish(r)
  /\ UNCHANGED <<user, wallet, challenge, member>>

\* POST api-keys: a long-lived key for whoever presents a usable one.
authIssueAPIKey(r, k) ==
  /\ Usable(k)
  /\ Begin(r, Minting(key[k].user, None, FALSE, None, None))
  /\ UNCHANGED identityVars

\* POST /v3/auth/tokens, by password or by token: the key is looked up ...
issueToken(r, k, scope) ==
  /\ Usable(k)
  /\ Begin(r, IF scope = None THEN Minting(key[k].user, None, TRUE, None, None)
              ELSE [op |-> "scope", user |-> key[k].user, project |-> scope])
  /\ UNCHANGED <<user, wallet, key, challenge, member>>

GetMembership(c, u) == <<c, u>> \in member

\* ... and the scope resolved in a later statement, before the key is minted.
resolveScope(r) ==
  /\ request[r].op = "scope"
  /\ IF GetMembership(request[r].project, request[r].user)
     THEN request' = [request EXCEPT ![r] = Minting(@.user, @.project, TRUE, None, None)]
     ELSE Finish(r)
  /\ UNCHANGED identityVars

\* GET /v3/auth/tokens, GET /api/v1/me and RequireToken: a presented key is
\* answered for, or refused alike whatever it lacks; nothing changes.
validateToken(k) == k \in Keys /\ UNCHANGED <<identityVars, request>>

\* DELETE /v3/auth/tokens, or the operator; an expired key may be revoked too.
RevokeAPIKey(k) ==
  /\ key[k].born /\ key[k].state # "revoked"
  /\ key' = [key EXCEPT ![k].state = "revoked"]
  /\ UNCHANGED <<user, wallet, challenge, member, request>>

KeyExpires(k) ==
  /\ Usable(k) /\ key[k].expires
  /\ key' = [key EXCEPT ![k].state = "expired"]
  /\ UNCHANGED <<user, wallet, challenge, member, request>>

-----------------------------------------------------------------------------
(* Wallet login.                                                           *)

NewChallenge ==
  /\ \E c \in Challenges : challenge[c] = "none" /\ challenge' = [challenge EXCEPT ![c] = "live"]
  /\ UNCHANGED <<user, wallet, key, member, request>>

ChallengeExpires(c) ==
  /\ challenge[c] = "live"
  /\ challenge' = [challenge EXCEPT ![c] = "expired"]
  /\ UNCHANGED <<user, wallet, key, member, request>>

\* The nonce is read and the signature over it verified ...
LiveChallengeNonce(r, c, a) ==
  /\ challenge[c] = "live"
  /\ Begin(r, [op |-> "consume", challenge |-> c, account |-> a])
  /\ UNCHANGED <<user, wallet, key, challenge, member>>

Consumable(c) == challenge[c] = "live"

\* ... then the challenge is consumed, if it still is live.
ConsumeChallenge(r) ==
  /\ request[r].op = "consume"
  /\ IF Consumable(request[r].challenge)
     THEN /\ challenge' = [challenge EXCEPT ![request[r].challenge] = "consumed"]
          /\ request' = [request EXCEPT ![r].op = "account"]
     ELSE Finish(r) /\ UNCHANGED challenge
  /\ UNCHANGED <<user, wallet, key, member>>

\* Mutant: no advisory lock.
AccountUnlockedAny(a) == TRUE
\* pg_advisory_xact_lock: no other login of a is between its look-up and its
\* commit.
AccountUnlocked(a) == \A r \in Requests : request[r].op = "create" => request[r].account # a

\* Under the lock the account is looked up ...
FindUser(r) ==
  /\ request[r].op = "account"
  /\ AccountUnlocked(request[r].account)
  /\ request' = [request EXCEPT ![r] =
       IF wallet[@.account] = None THEN [@ EXCEPT !.op = "create"]
       ELSE Minting(wallet[@.account], None, TRUE, @.challenge, @.account)]
  /\ UNCHANGED identityVars

\* ... and linked to a new user if it was never seen.  The primary key of
\* wallet_accounts rolls a second link back.
CreateUserForAccount(r) ==
  /\ request[r].op = "create"
  /\ LET a == request[r].account IN
     IF wallet[a] = None
     THEN \E u \in Users \ user :
            /\ user' = user \cup {u}
            /\ wallet' = [wallet EXCEPT ![a] = u]
            /\ request' = [request EXCEPT ![r] = Minting(u, None, TRUE, @.challenge, a)]
     ELSE Finish(r) /\ UNCHANGED <<user, wallet>>
  /\ UNCHANGED <<key, challenge, member>>
-----------------------------------------------------------------------------
\* controlplane-admin: create-user, issue-key, and add-member.
CreateUser == \E u \in Users \ user :
  /\ user' = user \cup {u}
  /\ UNCHANGED <<wallet, key, challenge, member, request>>

CreateAPIKey(u) == u \in user /\ Mint(Minting(u, None, FALSE, None, None))
  /\ UNCHANGED <<user, wallet, challenge, member, request>>

AddMembership(c, u) ==
  /\ u \in user /\ <<c, u>> \notin member
  /\ member' = member \cup {<<c, u>>}
  /\ UNCHANGED <<user, wallet, key, challenge, request>>

\* The process ends, and with it the requests in flight.
AbandonRequests ==
  /\ \E r \in Requests : request[r] # Idle
  /\ request' = [r \in Requests |-> Idle]
  /\ UNCHANGED identityVars

IdentityInit ==
  /\ user = {}
  /\ wallet = [a \in Accounts |-> None]
  /\ key = [k \in Keys |-> [born |-> FALSE]]
  /\ challenge = [c \in Challenges |-> "none"]
  /\ member = {}

LoginStep(r) == ConsumeChallenge(r) \/ FindUser(r) \/ CreateUserForAccount(r) \/ resolveScope(r) \/ createAPIKey(r)

IdentityNext ==
  /\ \/ NewChallenge
     \/ \E r \in Requests :
          \/ LoginStep(r)
          \/ \E k \in Keys : authIssueAPIKey(r, k)
          \/ \E k \in Keys, scope \in Scopes : issueToken(r, k, scope)
          \/ \E c \in Challenges, a \in Accounts : LiveChallengeNonce(r, c, a)
     \/ \E k \in Keys : RevokeAPIKey(k) \/ KeyExpires(k) \/ validateToken(k)
     \/ \E c \in Challenges : ChallengeExpires(c)
     \/ \E u \in Users : CreateAPIKey(u) \/ \E c \in Projects : AddMembership(c, u)
     \/ CreateUser \/ AbandonRequests
  /\ foreign' = {}
-----------------------------------------------------------------------------
\* Keys, links and memberships refer to users that exist (createAPIKey,
\* FindOrCreateUserByAccount, AddMembership).
IdentityTypeOK ==
  /\ user \subseteq Users
  /\ wallet \in [Accounts -> user \cup {None}]
  /\ \A k \in Keys : key[k].born =>
       /\ key[k].user \in user /\ key[k].project \in Scopes
       /\ key[k].state \in {"live", "revoked", "expired"}
  /\ member \subseteq Projects \X user

\* A signed challenge is worth one session, for the user its signer's account
\* is linked to: however often and however concurrently the same signature is
\* sent, and with other logins in between (Login reads the challenge, verifies
\* and only then consumes it).
OneSessionPerChallenge == \A k \in Keys : key[k].born /\ key[k].challenge # None =>
  /\ key[k].user = wallet[key[k].account]
  /\ \A j \in Keys \ {k} : key[j].born => key[j].challenge # key[k].challenge

\* Of two concurrent first logins of one account only one finds it unlinked:
\* the other is never rolled back by the primary key after its challenge has
\* been consumed (the advisory lock of FindOrCreateUserByAccount).
FirstLoginIsAlone == \A r \in Requests :
  request[r].op = "create" => wallet[request[r].account] = None

\* A token scoped to a project belongs to a member of it, though membership is
\* checked two statements before the token is minted, and a token may be traded
\* for one of another scope (issueToken, resolveScope).
ScopedKeysAreMembers == \A k \in Keys :
  key[k].born /\ key[k].project # None => <<key[k].project, key[k].user>> \in member
=============================================================================
