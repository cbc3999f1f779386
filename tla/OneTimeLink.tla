----------------------------- MODULE OneTimeLink -----------------------------
(***************************************************************************)
(* What the backend promises about one-time links, whatever handlers       *)
(* consume them and however they interleave.  A link is issued once, for   *)
(* one purpose.  A request that finds it open takes it, marks it in a      *)
(* later step, and from then on acts for the purpose that the link was     *)
(* issued for.  Several requests may take a link before one of them marks  *)
(* it; none takes it afterwards, nor when its time is over.                *)
(* AuthService and OrgMembership implement this.                           *)
(***************************************************************************)
CONSTANTS Links, Purposes,
          Reqs,      \* who may consume links
          None

VARIABLES link,      \* status and purpose, per link
          claim      \* what a request holds: a link that it took or spent

vars == <<link, claim>>

Unissued == [status |-> "free", purpose |-> None]
NoClaim  == [stage |-> "none", link |-> None, purpose |-> None]

Init ==
  /\ link  = [l \in Links |-> Unissued]
  /\ claim = [r \in Reqs |-> NoClaim]

Issue ==
  /\ \E l \in Links, p \in Purposes :
       /\ link[l].status = "free"
       /\ link' = [link EXCEPT ![l] = [status |-> "open", purpose |-> p]]
  /\ UNCHANGED claim

Take(r) ==
  /\ claim[r].stage = "none"
  /\ \E l \in Links :
       /\ link[l].status = "open"
       /\ claim' = [claim EXCEPT ![r] = [stage |-> "taken", link |-> l,
                                         purpose |-> link[l].purpose]]
  /\ UNCHANGED link

\* The link may have been marked by another request since, or be over.
Spend(r) ==
  /\ claim[r].stage = "taken"
  /\ link'  = [link EXCEPT ![claim[r].link].status = "spent"]
  /\ claim' = [claim EXCEPT ![r].stage = "spent"]

GiveUp(r) ==
  /\ claim' = [claim EXCEPT ![r] = NoClaim]
  /\ UNCHANGED link

Expire ==
  /\ \E l \in Links :
       /\ link[l].status = "open"
       /\ link' = [link EXCEPT ![l].status = "expired"]
  /\ UNCHANGED claim

Next == Issue \/ Expire \/ \E r \in Reqs : Take(r) \/ Spend(r) \/ GiveUp(r)

Spec == Init /\ [][Next]_vars
=============================================================================
