----------------------------- MODULE MCFederation -----------------------------
(***************************************************************************)
(* Identity shared with other parties, each side on its own small          *)
(* instance: applications granted access, sign-in with a provider, a       *)
(* tenant's single sign-on, and a tenant's directory.  They share no state *)
(* here, so a behaviour follows one of them.                               *)
(***************************************************************************)
EXTENDS OAuthGrants, OAuthSignIn, SingleSignOn, ScimDirectory, TLC

\* Every side has the same requests, so permuting them permutes all sides at once.
CONSTANT Requests

VARIABLE part

vars == <<part, grantVars, oauthVars, ssoVars, scimVars>>

Part(name) == part = name /\ part' = name

\* A change of users and a change of members meet only in who is there, so the
\* directory is followed twice: its users' changes, and its group's.
NoneAt(steps) == \A p \in ScimRequests : scimRequest'[p].at \notin steps

\* Grants are followed twice as well: one tenant's with several scopes and codes,
\* and one scope's with a tenant and without, of one code.
OneTenant ==
  /\ \A k \in OAuthClients \X {""} : approved'[k] = {}
  /\ \A p \in GrantRequests : grantRequest'[p].at = "record" => grantRequest'[p].id = 1
OneScope ==
  /\ \A k \in OAuthClients \X Tenants : approved'[k] \subseteq {"r"}
  /\ \A x, y \in AuthCodes : authCodes'[x].at = "unused" \/ authCodes'[y].at = "unused" \/ x = y

Init ==
  /\ part \in {"scopes", "tenants", "providers", "sso", "people", "group"}
  /\ GrantInit /\ OAuthInit /\ SsoInit /\ ScimInit

Next ==
  \/ Part("scopes") /\ GrantNext /\ OneTenant /\ UNCHANGED <<oauthVars, ssoVars, scimVars>>
  \/ Part("tenants") /\ GrantNext /\ OneScope /\ UNCHANGED <<oauthVars, ssoVars, scimVars>>
  \/ Part("providers") /\ OAuthNext /\ UNCHANGED <<grantVars, ssoVars, scimVars>>
  \/ Part("sso") /\ SsoNext /\ UNCHANGED <<grantVars, oauthVars, scimVars>>
  \/ Part("people") /\ ScimNext /\ UNCHANGED inGroup /\ NoneAt(GroupSteps) /\ UNCHANGED <<grantVars, oauthVars, ssoVars>>
  \/ Part("group") /\ ScimNext /\ NoneAt(UserSteps) /\ UNCHANGED <<grantVars, oauthVars, ssoVars>>

Spec == Init /\ [][Next]_vars

Sym == Permutations(Requests)

-------------------------------------------------------------------------------
\* Ann's provider confirmed the second of her addresses, a second account of hers
\* has another, and Bob claims her address without proof on either side.
Listed(address, verified, primary) == [address |-> address, verified |-> verified, primary |-> primary]
KnownProviderAccounts ==
  {[who |-> "ann", tied |-> FALSE, emails |-> <<Listed("b", FALSE, TRUE), Listed("a", TRUE, FALSE)>>],
   [who |-> "ann", tied |-> TRUE, emails |-> <<Listed("b", TRUE, TRUE)>>],
   [who |-> "bob", tied |-> TRUE, emails |-> <<Listed("a", FALSE, TRUE)>>]}
KnownLocals == {[who |-> "ann", email |-> "a", verified |-> TRUE, by |-> ""],
                [who |-> "bob", email |-> "b", verified |-> FALSE, by |-> ""]}

\* Each tenant controls the domain named like its connection; Ann has an account.
Mailbox(name, domain) == [name |-> name, domain |-> domain]
OwnDomains == [c \in Connections |-> c]
AssertedEmails == {Mailbox("ann", "corp"), Mailbox("eve", "evil")}
KnownMembers == {[id |-> "ann", email |-> Mailbox("ann", "corp"), verified |-> TRUE]}

\* An addition; a removal, an addition and its removal; and a removal undone,
\* which the direct path and the in-order one answer differently.
Op(op, u) == [op |-> op, ids |-> {u}]
SentBodies == {<<Op("add", "u")>>, <<Op("remove", "v"), Op("add", "u"), Op("remove", "u")>>, <<Op("remove", "v"), Op("add", "v")>>}
===============================================================================
