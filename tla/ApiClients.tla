----------------------------- MODULE ApiClients -----------------------------
(***************************************************************************)
(* The machines that book by the API: a client trades its secret for a     *)
(* token that is good for an hour, the platform revokes clients and        *)
(* suspends companies, and every request reads the client's row again.     *)
(***************************************************************************)
EXTENDS Naturals

CONSTANTS Companies, Clients,
          MaxTokens,   \* bound: tokens a client holds
          Nothing      \* no request yet

VARIABLES
  owner,    \* ApiClient.company, never changed
  client,   \* ApiClient.status
  status,   \* Company.status
  tokens,   \* tokens of each client that have not expired
  served    \* the request just served: its client, and its company's status

vars == <<owner, client, status, tokens, served>>

Init ==
  /\ owner \in [Clients -> Companies]
  /\ client = [k \in Clients |-> "active"]
  /\ status = [c \in Companies |-> "active"]
  /\ tokens = [k \in Clients |-> 0]
  /\ served = Nothing

\* api_clients of the console: "revoke", or back.
SetClient(k, to) ==
  /\ client' = [client EXCEPT ![k] = to]
  /\ served' = Nothing
  /\ UNCHANGED <<owner, status, tokens>>

\* companies of the console, suspend and activate of CompanyAdmin.
SetCompany(c, to) ==
  /\ status' = [status EXCEPT ![c] = to]
  /\ served' = Nothing
  /\ UNCHANGED <<owner, client, tokens>>

\* ApiClientService.issue_token, to the client that has the secret.
IssueToken(k) ==
  /\ client[k] = "active" /\ tokens[k] < MaxTokens
  /\ tokens' = [tokens EXCEPT ![k] = @ + 1]
  /\ served' = Nothing
  /\ UNCHANGED <<owner, client, status>>

\* set_exp: an hour later.
Expire(k) ==
  /\ tokens[k] > 0
  /\ tokens' = [tokens EXCEPT ![k] = @ - 1]
  /\ served' = Nothing
  /\ UNCHANGED <<owner, client, status>>

\* JWTMultiPrincipalAuthentication.get_user and CompanyScopedMixin.
Serve(k) ==
  /\ tokens[k] > 0 /\ client[k] = "active"
  /\ served' = [client |-> k, scope |-> owner[k], company |-> status[owner[k]]]
  /\ UNCHANGED <<owner, client, status, tokens>>

Next ==
  \/ \E k \in Clients : IssueToken(k) \/ Expire(k) \/ Serve(k)
  \/ \E k \in Clients, to \in {"active", "inactive"} : SetClient(k, to)
  \/ \E c \in Companies, to \in {"active", "suspended"} : SetCompany(c, to)

Spec == Init /\ [][Next]_vars

\* CompanyAdmin.suspend, "Suspend (API and drivers stop working)": a company that is
\* suspended is served nothing.
SuspendedIsServedNothing == served # Nothing => served.company = "active"
=============================================================================
