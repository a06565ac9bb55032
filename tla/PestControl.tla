----------------------------- MODULE PestControl -----------------------------
(***************************************************************************)
(* The actors of pest control (src/rust/p11-pest-control/src): a           *)
(* SiteVisitor per connection, the Controller that all visits go through,  *)
(* and an AuthorityServer per site, which advises the site's authority to  *)
(* conserve or cull species by requests on a connection of its own.        *)
(*                                                                         *)
(* The authority is a server elsewhere, modelled from the packets the      *)
(* actor exchanges with it.  The connection may be lost at any request: it *)
(* is nobody's to know then whether the request was carried out.  What the *)
(* actor waits between its attempts to connect is left out.                *)
(***************************************************************************)
EXTENDS Naturals, Sequences, FiniteSets

CONSTANTS
    Visitors,      \* the connections of site visitors
    Sites,
    Species,
    Counts,        \* the numbers of animals seen, and the ends of target ranges
    Reports,       \* the populations that visitors report
    MaxRetry,      \* MAX_RETRY
    Capacity,      \* the capacity of the channel to the Controller
    MaxVisits,     \* bound on the visits
    MaxLosses      \* bound, for each site, on connections lost and actors that gave up

ASSUME CountsAssumption == Counts \subseteq Nat /\ 0 \in Counts
ASSUME ReportsAssumption == Reports \subseteq SUBSET (Species \X Counts)
ASSUME BoundsAssumption == {MaxRetry, Capacity, MaxVisits, MaxLosses} \subseteq Nat

VARIABLES
    target,             \* what the authority of each site wants
    visitor,            \* the state of each SiteVisitor
    site_visits,        \* the channel to the Controller
    authority_servers,  \* the sites for which the Controller has an actor
    actor,              \* the AuthorityServer of each site
    authority,          \* the policies advised at each site
    created,            \* the policies created so far at each site
    latest,             \* the last visit of each site that was sent to the Controller
    visits,             \* the number of visits
    losses              \* of each site: connections lost, and actors that gave up

vars == <<target, visitor, site_visits, authority_servers, actor, authority, created,
          latest, visits, losses>>

-----------------------------------------------------------------------------
(* State *)

Actions == {"conserve", "cull"}
NoAction == "none"

\* The populations of a visit: pairs of a species and a count.
Populations == SUBSET (Species \X Counts)

\* The targets of a site: a range for some of the species.
Targets == UNION {[species -> [min : Counts, max : Counts]] : species \in SUBSET Species}

\* What an actor knows of a species for which it has no policy, and of all at first.
NoPolicy == [id |-> 0, action |-> NoAction]
NoPolicies == [species \in Species |-> NoPolicy]

Policy == [id : Nat, species : Species, action : Actions]

\* The policies that an actor knows of, one for a species or none.
Policies == [Species -> [id : Nat, action : Actions \cup {NoAction}]]

States == {"none", "first", "connecting", "adjusting", "deleting", "creating", "next", "done"}

Actor == [state : States, inbox : Seq(Populations), populations : Populations,
          todo : SUBSET Species, policies : Policies, species : Species \cup {"none"},
          action : Actions \cup {NoAction}, id : Nat, retry : Nat]

\* An actor just made, which waits for its first visit.
NewActor == [state |-> "first", inbox |-> <<>>, populations |-> {}, todo |-> {},
             policies |-> NoPolicies, species |-> "none", action |-> NoAction, id |-> 0,
             retry |-> 0]

\* The values of the variables.
TypeOK ==
    /\ target \in [Sites -> Targets]
    /\ visitor \in [Visitors -> {"none", "hello", "visits", "done"}]
    /\ site_visits \in Seq([site : Sites, populations : Populations])
    /\ authority_servers \subseteq Sites
    /\ actor \in [Sites -> Actor]
    /\ authority \in [Sites -> SUBSET Policy]
    /\ created \in [Sites -> Nat] /\ losses \in [Sites -> Nat]
    /\ latest \in [Sites -> Populations] /\ visits \in Nat

Init ==
    /\ target \in [Sites -> Targets]
    /\ visitor = [v \in Visitors |-> "none"]
    /\ site_visits = <<>>
    /\ authority_servers = {}
    /\ actor = [s \in Sites |-> [NewActor EXCEPT !.state = "none"]]
    /\ authority = [s \in Sites |-> {}]
    /\ created = [s \in Sites |-> 0]
    /\ latest = [s \in Sites |-> {}]
    /\ visits = 0
    /\ losses = [s \in Sites |-> 0]

-----------------------------------------------------------------------------
(* The site visitors *)

toActors == <<target, authority_servers, actor, authority, created, losses>>

Accept(v) ==
    /\ visitor[v] = "none"
    /\ visitor' = [visitor EXCEPT ![v] = "hello"]
    /\ UNCHANGED <<toActors, site_visits, latest, visits>>

\* handle_hello: the hello of the visitor is right.
Hello(v) ==
    /\ visitor[v] = "hello"
    /\ visitor' = [visitor EXCEPT ![v] = "visits"]
    /\ UNCHANGED <<toActors, site_visits, latest, visits>>

\* The connection ends or fails, or a packet is not what the visitor should send.
VisitorEnds(v) ==
    /\ visitor[v] \in {"hello", "visits"}
    /\ visitor' = [visitor EXCEPT ![v] = "done"]
    /\ UNCHANGED <<toActors, site_visits, latest, visits>>

Conflict(populations) == \E p, q \in populations : p[1] = q[1] /\ p[2] # q[2]

\* handle_visits: a visit with two counts for a species is an error, any other
\* goes to the Controller once its channel has room.
Visit(v, s, populations) ==
    /\ visitor[v] = "visits"
    /\ visits < MaxVisits
    /\ visits' = visits + 1
    /\ IF Conflict(populations)
       THEN /\ visitor' = [visitor EXCEPT ![v] = "done"]
            /\ UNCHANGED <<site_visits, latest>>
       ELSE /\ Len(site_visits) < Capacity
            /\ site_visits' = Append(site_visits, [site |-> s, populations |-> populations])
            /\ latest' = [latest EXCEPT ![s] = populations]
            /\ UNCHANGED visitor
    /\ UNCHANGED toActors

-----------------------------------------------------------------------------
(* The Controller *)

\* run: the visit goes to the actor of its site, which is spawned if there is
\* none.  If it has ended the visit is dropped, and so is the entry.
Control ==
    /\ site_visits # <<>>
    /\ site_visits' = Tail(site_visits)
    /\ LET s == Head(site_visits).site
           populations == Head(site_visits).populations
       IN IF s \notin authority_servers
          THEN /\ authority_servers' = authority_servers \cup {s}
               /\ actor' = [actor EXCEPT ![s] = [NewActor EXCEPT !.inbox = <<populations>>]]
          ELSE IF actor[s].state = "done"
          THEN /\ authority_servers' = authority_servers \ {s}
               /\ UNCHANGED actor
          ELSE /\ actor' = [actor EXCEPT ![s].inbox = Append(@, populations)]
               /\ UNCHANGED authority_servers
    /\ UNCHANGED <<target, visitor, authority, created, latest, visits, losses>>

-----------------------------------------------------------------------------
(* The actor of a site *)

notActor == <<target, visitor, site_visits, authority_servers, latest, visits>>

\* What is to be advised about a species that the authority cares for.  A
\* species that was not seen counts zero.
Wanted(s, populations, species) ==
    LET range == target[s][species]
        seen  == {n \in Counts : <<species, n>> \in populations}
        count == IF seen = {} THEN 0 ELSE CHOOSE n \in seen : TRUE
    IN IF count < range.min THEN "conserve"
       ELSE IF count > range.max THEN "cull"
       ELSE NoAction

\* A bug: the populations of the visit before are kept.
ReceiveOnly(s) ==
    /\ actor[s].state \in {"first", "next"}
    /\ actor[s].inbox # <<>>
    /\ actor' = [actor EXCEPT
          ![s].state = IF @ = "first" THEN "connecting" ELSE "adjusting",
          ![s].inbox = Tail(@),
          ![s].populations = IF actor[s].state = "first" THEN Head(actor[s].inbox) ELSE @,
          ![s].todo = DOMAIN target[s]]
    /\ UNCHANGED <<notActor, authority, created, losses>>

\* run receives the populations of a visit.
Receive(s) ==
    /\ actor[s].state \in {"first", "next"}
    /\ actor[s].inbox # <<>>
    /\ actor' = [actor EXCEPT
          ![s].state = IF @ = "first" THEN "connecting" ELSE "adjusting",
          ![s].inbox = Tail(@),
          ![s].populations = Head(actor[s].inbox),
          ![s].todo = DOMAIN target[s]]
    /\ UNCHANGED <<notActor, authority, created, losses>>

\* connect: the actor says hello, dials the authority and is told its targets.
\* Then the populations are adjusted, those of a round that failed once more.
Connect(s) ==
    /\ actor[s].state = "connecting"
    /\ actor' = [actor EXCEPT ![s].state = "adjusting", ![s].retry = 0,
                              ![s].todo = DOMAIN target[s]]
    /\ UNCHANGED <<notActor, authority, created, losses>>

\* An attempt to connect fails; after so many the actor ends, with what it knows.
ConnectFails(s) ==
    /\ actor[s].state = "connecting"
    /\ IF actor[s].retry < MaxRetry
       THEN /\ actor' = [actor EXCEPT ![s].retry = @ + 1]
            /\ UNCHANGED losses
       ELSE /\ losses[s] < MaxLosses
            /\ losses' = [losses EXCEPT ![s] = @ + 1]
            /\ actor' = [actor EXCEPT ![s] = [NewActor EXCEPT !.state = "done"]]
    /\ UNCHANGED <<notActor, authority, created>>

Without(policies, species) == [policies EXCEPT ![species] = NoPolicy]

\* The species that adjust_policies comes to next: those that were seen first.
Upcoming(s) ==
    LET seen == {sp \in actor[s].todo : \E n \in Counts : <<sp, n>> \in actor[s].populations}
    IN IF seen = {} THEN actor[s].todo ELSE seen

\* A bug: the policy is forgotten only when its deletion is answered, and so it
\* is asked for again after the answer was lost.
AdjustKeeps(s, species) ==
    LET a      == actor[s]
        wanted == Wanted(s, a.populations, species)
        has    == a.policies[species].action
    IN /\ a.state = "adjusting"
       /\ species \in Upcoming(s)
       /\ actor' = [actor EXCEPT ![s] =
            IF has = wanted THEN [a EXCEPT !.todo = a.todo \ {species}]
            ELSE IF has = NoAction
            THEN [a EXCEPT !.state = "creating", !.species = species, !.action = wanted]
            ELSE [a EXCEPT !.state = "deleting", !.species = species, !.action = wanted,
                           !.id = a.policies[species].id]]
       /\ UNCHANGED <<notActor, authority, created, losses>>

\* A bug: another action is asked for without the one there is being deleted.
AdjustAdds(s, species) ==
    LET a      == actor[s]
        wanted == Wanted(s, a.populations, species)
        has    == a.policies[species].action
    IN /\ a.state = "adjusting"
       /\ species \in Upcoming(s)
       /\ actor' = [actor EXCEPT ![s] =
            IF has = wanted THEN [a EXCEPT !.todo = a.todo \ {species}]
            ELSE IF wanted # NoAction
            THEN [a EXCEPT !.state = "creating", !.species = species, !.action = wanted]
            ELSE [a EXCEPT !.state = "deleting", !.species = species, !.action = wanted,
                           !.id = a.policies[species].id, !.policies = Without(a.policies, species)]]
       /\ UNCHANGED <<notActor, authority, created, losses>>

\* adjust_policies comes to a species: it is as wanted, or delete_policy forgets
\* the policy it has and asks to delete it, or add_policy asks for a new one.
Adjust(s, species) ==
    LET a      == actor[s]
        wanted == Wanted(s, a.populations, species)
        has    == a.policies[species].action
    IN /\ a.state = "adjusting"
       /\ species \in Upcoming(s)
       /\ actor' = [actor EXCEPT ![s] =
            IF has = wanted THEN [a EXCEPT !.todo = a.todo \ {species}]
            ELSE IF has = NoAction
            THEN [a EXCEPT !.state = "creating", !.species = species, !.action = wanted]
            ELSE [a EXCEPT !.state = "deleting", !.species = species, !.action = wanted,
                           !.id = a.policies[species].id, !.policies = Without(a.policies, species)]]
       /\ UNCHANGED <<notActor, authority, created, losses>>

\* A bug: the connection is left after every round.
AdjustedReconnects(s) ==
    /\ actor[s].state = "adjusting"
    /\ actor[s].todo = {}
    /\ actor' = [actor EXCEPT ![s].state = "connecting"]
    /\ UNCHANGED <<notActor, authority, created, losses>>

Adjusted(s) ==
    /\ actor[s].state = "adjusting"
    /\ actor[s].todo = {}
    /\ actor' = [actor EXCEPT ![s].state = "next"]
    /\ UNCHANGED <<notActor, authority, created, losses>>

Delete(policies, id) == {p \in policies : p.id # id}

\* The authority deletes the policy, and its answer arrives.
Deleted(s) ==
    LET a == actor[s] IN
    /\ a.state = "deleting"
    /\ authority' = [authority EXCEPT ![s] = Delete(@, a.id)]
    /\ actor' = [actor EXCEPT ![s] =
          IF a.action = NoAction
          THEN [a EXCEPT !.state = "adjusting", !.todo = a.todo \ {a.species}, !.id = 0]
          ELSE [a EXCEPT !.state = "creating", !.id = 0]]
    /\ UNCHANGED <<notActor, created, losses>>

\* The authority creates the policy under an id it never used.
Create(s) ==
    /\ created' = [created EXCEPT ![s] = @ + 1]
    /\ authority' = [authority EXCEPT ![s] = @ \cup {[id |-> created[s] + 1,
                        species |-> actor[s].species, action |-> actor[s].action]}]

\* And its answer, with the id, arrives.
Created(s) ==
    /\ actor[s].state = "creating"
    /\ Create(s)
    /\ LET a == actor[s] IN
       actor' = [actor EXCEPT ![s].state = "adjusting", ![s].todo = @ \ {a.species},
                   ![s].policies[a.species] = [id |-> created[s] + 1, action |-> a.action]]
    /\ UNCHANGED <<notActor, losses>>

\* The connection is lost with a request under way, or the answer is not what it
\* should be: the request was carried out, or not, and the actor connects again.
Lose(s) ==
    /\ actor[s].state \in {"deleting", "creating"}
    /\ losses[s] < MaxLosses
    /\ losses' = [losses EXCEPT ![s] = @ + 1]
    /\ \/ UNCHANGED <<authority, created>>
       \/ /\ actor[s].state = "deleting"
          /\ authority' = [authority EXCEPT ![s] = Delete(@, actor[s].id)]
          /\ UNCHANGED created
       \/ actor[s].state = "creating" /\ Create(s)
    /\ actor' = [actor EXCEPT ![s].state = "connecting", ![s].id = 0]
    /\ UNCHANGED notActor

-----------------------------------------------------------------------------
Act(s) ==
    \/ Receive(s)
    \/ Connect(s)
    \/ \E species \in Species : Adjust(s, species)
    \/ Adjusted(s)
    \/ Deleted(s)
    \/ Created(s)

Next ==
    \/ \E v \in Visitors :
          \/ Accept(v)
          \/ Hello(v)
          \/ VisitorEnds(v)
          \/ \E s \in Sites, populations \in Reports : Visit(v, s, populations)
    \/ Control
    \/ \E s \in Sites : Act(s) \/ ConnectFails(s) \/ Lose(s)

\* The Controller and the actors run, and the authority answers.
Spec == Init /\ [][Next]_vars /\ WF_vars(Control) /\ \A s \in Sites : WF_vars(Act(s))

-----------------------------------------------------------------------------
(* Properties *)

\* Nothing is under way for the site, and no connection of it was ever lost.
Idle(s) ==
    /\ actor[s].state = "next"
    /\ actor[s].inbox = <<>>
    /\ \A n \in DOMAIN site_visits : site_visits[n].site # s

\* The policies advised at a site are what the last visit calls for, one for
\* each species that is out of range and no other.
IsSettled(s) ==
    /\ {<<p.species, p.action>> : p \in authority[s]} =
           {<<sp, Wanted(s, latest[s], sp)>> : sp \in
               {t \in DOMAIN target[s] : Wanted(s, latest[s], t) # NoAction}}
    /\ \A p, q \in authority[s] : p.species = q.species => p = q

\* As long as no connection is lost, the actors settle as they should, however
\* many visitors report on a site and however their visits fall into the rounds.
Settles == \A s \in Sites : Idle(s) /\ losses[s] = 0 => IsSettled(s)

\* As long as no connection is lost, there are never two policies for a species,
\* not even while they are being replaced.
OneAtATime ==
    \A s \in Sites : losses[s] = 0 =>
        \A p, q \in authority[s] : p.species = q.species => p = q

\* Whatever is lost and however often the actor reconnects, a policy it thinks is
\* advised is: it never asks to delete one that is gone.
KnownPoliciesExist ==
    \A s \in Sites :
        /\ \A sp \in Species : actor[s].policies[sp] # NoPolicy =>
              [id |-> actor[s].policies[sp].id, species |-> sp,
               action |-> actor[s].policies[sp].action] \in authority[s]
        /\ actor[s].state = "deleting" => \E p \in authority[s] : p.id = actor[s].id

\* A site has one actor: none is spawned while another works for it.
OneActorASite ==
    \A s \in Sites : s \notin authority_servers => actor[s].state \in {"none", "done"}

\* Unless a connection is lost, the actor of a site always comes to rest.
ComesToRest ==
    \A s \in Sites : actor[s].state \in {"first", "connecting", "adjusting", "deleting", "creating"}
        ~> Idle(s) \/ losses[s] > 0

\* The settled state is said to be right, and to hold at most one policy for a
\* species, whatever happens to the connections.
AlwaysSettles ==
    \A s \in Sites : Idle(s) /\ authority_servers = Sites => IsSettled(s)

=============================================================================
