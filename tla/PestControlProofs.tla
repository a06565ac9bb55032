------------------------- MODULE PestControlProofs --------------------------
(***************************************************************************)
(* Proofs about PestControl, for any visitors, sites, species and visits,  *)
(* and for any number of connections lost: what an actor believes to be    *)
(* advised at its site is, a site has one actor, and as long as no         *)
(* connection of a site is lost its species have one policy at a time and  *)
(* a site at rest is advised what its last visit calls for.                *)
(***************************************************************************)
EXTENDS PestControl, SequenceTheorems, TLAPS

\* What holds of a site: its actor a, the policies auth that are advised there, the
\* number made of policies created, that of connections lost, and the sites
\* for which the Controller has an actor.
SiteInv(a, auth, made, lost, site, servers) ==
    \* An id is that of one policy, and was given out.
    /\ \A p, q \in auth : p.id = q.id => p = q
    /\ \A p \in auth : p.id <= made
    \* What is known is there.
    /\ \A sp \in Species : a.policies[sp] # NoPolicy =>
          [id |-> a.policies[sp].id, species |-> sp, action |-> a.policies[sp].action] \in auth
    \* A request is about a species for which no policy is known.
    /\ a.state \in {"deleting", "creating"} =>
          a.species \in Species /\ a.policies[a.species] = NoPolicy
    /\ a.state = "creating" => a.action \in Actions
    /\ a.state = "deleting" => \E p \in auth : p.id = a.id /\ p.species = a.species
    \* Unless a connection was lost, what is there is known, or being deleted.
    /\ lost = 0 => \A p \in auth : \/ a.policies[p.species] # NoPolicy
                                      /\ a.policies[p.species].id = p.id
                                   \/ a.state = "deleting" /\ a.id = p.id
    /\ a.state \in {"none", "first"} => a.policies = NoPolicies
    /\ a.state = "done" => lost > 0
    /\ site \notin servers => a.state \in {"none", "done"}

Inv ==
    /\ TypeOK
    /\ \A s \in Sites :
          SiteInv(actor[s], authority[s], created[s], losses[s], s, authority_servers)

-----------------------------------------------------------------------------
(* One site *)

\* A policy that is known has an action, and NoPolicy has none.
LEMMA KnownAction ==
    ASSUME NEW a \in Actor, NEW sp \in Species,
           NEW auth \in SUBSET Policy, NEW made, NEW lost, NEW site, NEW servers,
           SiteInv(a, auth, made, lost, site, servers)
    PROVE  /\ a.policies[sp] # NoPolicy <=> a.policies[sp].action # NoAction
           /\ a.policies[sp].id \in Nat
<1>1. a.policies[sp] \in [id : Nat, action : Actions \cup {NoAction}]
  BY DEF Actor, Policies
<1>2. ASSUME a.policies[sp] # NoPolicy PROVE a.policies[sp].action # NoAction
  <2>1. [id |-> a.policies[sp].id, species |-> sp, action |-> a.policies[sp].action] \in Policy
    BY <1>2 DEF SiteInv
  <2>2. a.policies[sp].action \in Actions
    BY <2>1 DEF Policy
  <2> QED
    BY <2>2 DEF Actions, NoAction
<1> QED
  BY <1>1, <1>2 DEF NoPolicy

\* Nothing of the site changes but what the actor does not know it by.
LEMMA SameSite ==
    ASSUME NEW a \in Actor, NEW b \in Actor, NEW auth \in SUBSET Policy,
           NEW made \in Nat, NEW lost \in Nat, NEW site, NEW servers,
           SiteInv(a, auth, made, lost, site, servers),
           b.state = a.state, b.policies = a.policies, b.species = a.species,
           b.action = a.action, b.id = a.id
    PROVE  SiteInv(b, auth, made, lost, site, servers)
BY DEF SiteInv

\* Which other sites have an actor does not matter.
LEMMA SameServers ==
    ASSUME NEW a, NEW auth, NEW made, NEW lost, NEW site, NEW servers, NEW others,
           SiteInv(a, auth, made, lost, site, servers), site \in others <=> site \in servers
    PROVE  SiteInv(a, auth, made, lost, site, others)
BY DEF SiteInv

\* The actor goes on without a request under way.  If one was, it was lost.
LEMMA GoesOn ==
    ASSUME NEW a \in Actor, NEW b \in Actor, NEW auth \in SUBSET Policy,
           NEW made \in Nat, NEW lost \in Nat, NEW now \in Nat, NEW site, NEW servers,
           SiteInv(a, auth, made, lost, site, servers),
           b.policies = a.policies, b.state \in {"connecting", "adjusting", "next"},
           a.state \notin {"none", "done"}, now >= lost, a.state = "deleting" => now > 0
    PROVE  SiteInv(b, auth, made, now, site, servers)
BY DEF SiteInv

\* A new actor knows nothing.  Where there was one before, a connection was lost.
LEMMA BeginsAnew ==
    ASSUME NEW a \in Actor, NEW b \in Actor, NEW auth \in SUBSET Policy,
           NEW made \in Nat, NEW lost \in Nat, NEW now \in Nat, NEW site, NEW servers,
           SiteInv(a, auth, made, lost, site, servers), b.policies = NoPolicies,
           NEW others, site \in others,
           \/ now > 0 /\ b.state \in {"first", "done"}
           \/ now = lost /\ a.state = "none" /\ b.state = "first"
    PROVE  SiteInv(b, auth, made, now, site, others)
<1>1. \A sp \in Species : NoPolicies[sp] = NoPolicy
  BY DEF NoPolicies
<1> QED
  BY <1>1 DEF SiteInv

\* The actor forgets a policy, and asks to delete it.
LEMMA AsksToDelete ==
    ASSUME NEW a \in Actor, NEW b \in Actor, NEW auth \in SUBSET Policy,
           NEW made \in Nat, NEW lost \in Nat, NEW site, NEW servers,
           SiteInv(a, auth, made, lost, site, servers), a.state = "adjusting",
           NEW sp \in Species, a.policies[sp] # NoPolicy,
           b.state = "deleting", b.species = sp, b.id = a.policies[sp].id,
           b.policies = Without(a.policies, sp)
    PROVE  SiteInv(b, auth, made, lost, site, servers)
<1>1. /\ b.policies[sp] = NoPolicy
      /\ \A t \in Species : t # sp => b.policies[t] = a.policies[t]
  BY DEF Without, Actor, Policies
<1>2. \E p \in auth : p.id = b.id /\ p.species = b.species
  BY DEF SiteInv
<1>3. ASSUME lost = 0, NEW p \in auth
      PROVE  \/ b.policies[p.species] # NoPolicy /\ b.policies[p.species].id = p.id
             \/ b.state = "deleting" /\ b.id = p.id
  <2>1. p.species \in Species
    BY DEF Policy
  <2>2. a.policies[p.species] # NoPolicy /\ a.policies[p.species].id = p.id
    BY <1>3 DEF SiteInv
  <2> QED
    BY <1>1, <2>1, <2>2
<1> QED
  BY <1>1, <1>2, <1>3 DEF SiteInv

\* The actor asks for a policy where it knows of none.
LEMMA AsksToCreate ==
    ASSUME NEW a \in Actor, NEW b \in Actor, NEW auth \in SUBSET Policy,
           NEW made \in Nat, NEW lost \in Nat, NEW site, NEW servers,
           SiteInv(a, auth, made, lost, site, servers), a.state = "adjusting",
           b.state = "creating", b.species \in Species, a.policies[b.species] = NoPolicy,
           b.action \in Actions, b.policies = a.policies
    PROVE  SiteInv(b, auth, made, lost, site, servers)
BY DEF SiteInv

\* The policy to delete is not one that is known.
LEMMA OthersStay ==
    ASSUME NEW a \in Actor, NEW auth \in SUBSET Policy,
           NEW made \in Nat, NEW lost \in Nat, NEW site, NEW servers,
           SiteInv(a, auth, made, lost, site, servers), a.state = "deleting",
           NEW sp \in Species, a.policies[sp] # NoPolicy
    PROVE  a.policies[sp].id # a.id
<1>1. PICK p \in auth : p.id = a.id /\ p.species = a.species
  BY DEF SiteInv
<1>2. a.policies[a.species] = NoPolicy
  BY DEF SiteInv
<1> DEFINE known == [id |-> a.policies[sp].id, species |-> sp, action |-> a.policies[sp].action]
<1>3. known \in auth /\ known.id = a.policies[sp].id /\ known.species = sp
  BY DEF SiteInv
<1>4. sp # a.species
  BY <1>2
<1>5. known # p
  BY <1>1, <1>3, <1>4
<1> HIDE DEF known
<1> QED
  BY <1>1, <1>3, <1>5 DEF SiteInv

\* The policy is deleted: the actor hears of it, or the connection is lost.
LEMMA IsDeleted ==
    ASSUME NEW a \in Actor, NEW b \in Actor, NEW auth \in SUBSET Policy,
           NEW made \in Nat, NEW lost \in Nat, NEW now \in Nat, NEW site, NEW servers,
           SiteInv(a, auth, made, lost, site, servers), a.state = "deleting", now >= lost,
           b.policies = a.policies, b.species = a.species,
           b.state \in {"connecting", "adjusting", "creating"},
           b.state = "creating" => b.action \in Actions
    PROVE  SiteInv(b, Delete(auth, a.id), made, now, site, servers)
<1>1. ASSUME NEW sp \in Species, b.policies[sp] # NoPolicy
      PROVE  [id |-> b.policies[sp].id, species |-> sp, action |-> b.policies[sp].action]
                \in Delete(auth, a.id)
  <2>1. a.policies[sp].id # a.id
    BY <1>1, OthersStay
  <2>2. [id |-> a.policies[sp].id, species |-> sp, action |-> a.policies[sp].action] \in auth
    BY <1>1 DEF SiteInv
  <2> QED
    BY <2>1, <2>2 DEF Delete
<1>2. Delete(auth, a.id) \subseteq auth /\ \A p \in Delete(auth, a.id) : p.id # a.id
  BY DEF Delete
<1>3. ASSUME now = 0, NEW p \in Delete(auth, a.id)
      PROVE  b.policies[p.species] # NoPolicy /\ b.policies[p.species].id = p.id
  BY <1>2, <1>3 DEF SiteInv
<1>4. site \in servers
  BY DEF SiteInv
<1>5. b.state = "creating" => b.species \in Species /\ b.policies[b.species] = NoPolicy
  BY DEF SiteInv
<1>6. /\ \A p, q \in Delete(auth, a.id) : p.id = q.id => p = q
      /\ \A p \in Delete(auth, a.id) : p.id <= made
  BY <1>2 DEF SiteInv
<1> QED
  BY <1>1, <1>3, <1>4, <1>5, <1>6 DEF SiteInv

\* The policy is created: the actor hears of it, or the connection is lost.
LEMMA IsCreated ==
    ASSUME NEW a \in Actor, NEW b \in Actor, NEW auth \in SUBSET Policy,
           NEW made \in Nat, NEW lost \in Nat, NEW now \in Nat, NEW site, NEW servers,
           SiteInv(a, auth, made, lost, site, servers), a.state = "creating", now >= lost,
           b.state \in {"connecting", "adjusting"},
           \/ /\ b.policies = [a.policies EXCEPT ![a.species] =
                                  [id |-> made + 1, action |-> a.action]]
           \/ b.policies = a.policies /\ now > 0
    PROVE  SiteInv(b, auth \cup {[id |-> made + 1, species |-> a.species, action |-> a.action]},
                   made + 1, now, site, servers)
<1> DEFINE new == [id |-> made + 1, species |-> a.species, action |-> a.action]
           more == auth \cup {new}
<1>1. a.species \in Species /\ a.action \in Actions /\ a.policies[a.species] = NoPolicy
  BY DEF SiteInv
<1>2. \A p \in auth : p.id \in Nat /\ p.id <= made /\ p.species \in Species
  BY DEF SiteInv, Policy
<1>3. new.id = made + 1 /\ new.species = a.species /\ new.action = a.action
  OBVIOUS
<1>4. /\ \A p, q \in more : p.id = q.id => p = q
      /\ \A p \in more : p.id <= made + 1
  <2>1. \A p, q \in auth : p.id = q.id => p = q
    BY DEF SiteInv
  <2>2. \A p \in auth : p.id # new.id
    BY <1>2, <1>3
  <2> HIDE DEF new
  <2> QED
    BY <1>2, <1>3, <2>1, <2>2
<1>5. \A sp \in Species : sp # a.species => b.policies[sp] = a.policies[sp]
  BY DEF Actor, Policies
<1>6. \/ b.policies[a.species] = [id |-> made + 1, action |-> a.action]
      \/ b.policies[a.species] = NoPolicy /\ now > 0
  BY <1>1 DEF Actor, Policies
<1>7. ASSUME NEW sp \in Species, b.policies[sp] # NoPolicy
      PROVE  [id |-> b.policies[sp].id, species |-> sp, action |-> b.policies[sp].action] \in more
  <2>1. CASE sp = a.species
    BY <1>6, <1>7, <2>1
  <2>2. CASE sp # a.species
    <3>1. b.policies[sp] = a.policies[sp]
      BY <1>5, <2>2
    <3> QED
      BY <1>7, <3>1 DEF SiteInv
  <2> QED
    BY <2>1, <2>2
<1>8. ASSUME now = 0, NEW p \in more
      PROVE  b.policies[p.species] # NoPolicy /\ b.policies[p.species].id = p.id
  <2>1. CASE p = new
    <3>1. b.policies[a.species] = [id |-> made + 1, action |-> a.action]
      BY <1>6, <1>8
    <3> QED
      BY <1>3, <2>1, <3>1 DEF NoPolicy
  <2>2. CASE p \in auth
    <3>1. a.policies[p.species] # NoPolicy /\ a.policies[p.species].id = p.id
      BY <1>8, <2>2 DEF SiteInv
    <3>2. p.species # a.species /\ p.species \in Species
      BY <1>1, <1>2, <2>2, <3>1
    <3> QED
      BY <1>5, <3>1, <3>2
  <2> QED
    BY <2>1, <2>2
<1>9. site \in servers
  BY DEF SiteInv
<1> HIDE DEF more
<1>10. SiteInv(b, more, made + 1, now, site, servers)
  BY <1>4, <1>7, <1>8, <1>9 DEF SiteInv
<1> QED
  BY <1>10 DEF more

-----------------------------------------------------------------------------
(* The steps *)

\* A step at one site.
LEMMA SiteStep ==
    ASSUME Inv, NEW s \in Sites, NEW b \in Actor, NEW auth \in SUBSET Policy,
           NEW made \in Nat, NEW lost \in Nat,
           actor' = [actor EXCEPT ![s] = b], authority' = [authority EXCEPT ![s] = auth],
           created' = [created EXCEPT ![s] = made], losses' = [losses EXCEPT ![s] = lost],
           UNCHANGED notActor,
           SiteInv(b, auth, made, lost, s, authority_servers)
    PROVE  Inv'
<1>1. TypeOK'
  BY DEF Inv, TypeOK, notActor
<1>2. ASSUME NEW t \in Sites
      PROVE  SiteInv(actor'[t], authority'[t], created'[t], losses'[t], t, authority_servers')
  <2>1. CASE t = s
    BY <2>1 DEF Inv, TypeOK, notActor
  <2>2. CASE t # s
    <3>1. /\ actor'[t] = actor[t] /\ authority'[t] = authority[t]
          /\ created'[t] = created[t] /\ losses'[t] = losses[t]
          /\ authority_servers' = authority_servers
      BY <2>2 DEF Inv, TypeOK, notActor
    <3> QED
      BY <3>1 DEF Inv
  <2> QED
    BY <2>1, <2>2
<1> QED
  BY <1>1, <1>2 DEF Inv

\* A step of the actor of a site alone.
LEMMA ActorStep ==
    ASSUME Inv, NEW s \in Sites, NEW b \in Actor, actor' = [actor EXCEPT ![s] = b],
           UNCHANGED <<notActor, authority, created, losses>>,
           SiteInv(b, authority[s], created[s], losses[s], s, authority_servers)
    PROVE  Inv'
<1>1. TypeOK'
  BY DEF Inv, TypeOK, notActor
<1>2. ASSUME NEW t \in Sites
      PROVE  SiteInv(actor'[t], authority'[t], created'[t], losses'[t], t, authority_servers')
  <2>1. UNCHANGED <<authority, created, losses, authority_servers>>
    BY DEF notActor
  <2>2. CASE t = s
    <3>1. actor'[t] = b
      BY <2>2 DEF Inv, TypeOK
    <3> QED
      BY <2>1, <2>2, <3>1
  <2>3. CASE t # s
    <3>1. actor'[t] = actor[t]
      BY <2>3 DEF Inv, TypeOK
    <3> QED
      BY <2>1, <3>1 DEF Inv
  <2> QED
    BY <2>2, <2>3
<1> QED
  BY <1>1, <1>2 DEF Inv

\* What is at a site has its type.
LEMMA SiteTypes ==
    ASSUME Inv, NEW s \in Sites
    PROVE  /\ actor[s] \in Actor /\ authority[s] \in SUBSET Policy
           /\ created[s] \in Nat /\ losses[s] \in Nat
           /\ SiteInv(actor[s], authority[s], created[s], losses[s], s, authority_servers)
           /\ authority = [authority EXCEPT ![s] = authority[s]]
           /\ created = [created EXCEPT ![s] = created[s]]
           /\ losses = [losses EXCEPT ![s] = losses[s]]
BY DEF Inv, TypeOK

\* The species of the targets of a site.
LEMMA TargetSpecies ==
    ASSUME Inv, NEW s \in Sites
    PROVE  DOMAIN target[s] \subseteq Species
<1>1. target[s] \in Targets
  BY DEF Inv, TypeOK
<1> QED
  BY <1>1 DEF Targets

\* Only the actor of a site moves, and no request is or gets under way.
LEMMA GoingOnKeeps ==
    ASSUME Inv, NEW s \in Sites, NEW b \in Actor, actor' = [actor EXCEPT ![s] = b],
           UNCHANGED <<notActor, authority, created, losses>>,
           b.policies = actor[s].policies, b.state \in {"connecting", "adjusting", "next"},
           actor[s].state \notin {"none", "done", "deleting"}
    PROVE  Inv'
<1> DEFINE a == actor[s]  auth == authority[s]
           made == created[s]  lost == losses[s]
<1>1. SiteInv(b, auth, made, lost, s, authority_servers)
  <2>1. lost >= lost
    BY SiteTypes
  <2> QED
    BY <2>1, SiteTypes, GoesOn
<1> QED
  BY <1>1, ActorStep

LEMMA ReceiveKeeps ==
    ASSUME Inv, NEW s \in Sites, Receive(s)
    PROVE  Inv'
<1> DEFINE b == [actor[s] EXCEPT
          !.state = IF @ = "first" THEN "connecting" ELSE "adjusting",
          !.inbox = Tail(@),
          !.populations = Head(actor[s].inbox),
          !.todo = DOMAIN target[s]]
<1>1. actor[s] \in Actor /\ actor[s].inbox \in Seq(Populations)
  BY SiteTypes DEF Actor
<1>2. Tail(actor[s].inbox) \in Seq(Populations) /\ Head(actor[s].inbox) \in Populations
  BY <1>1, HeadTailProperties DEF Receive
<1>3. b \in Actor
  BY <1>1, <1>2, TargetSpecies DEF Actor, States
<1>4. b.policies = actor[s].policies /\ b.state \in {"connecting", "adjusting", "next"}
  BY <1>1 DEF Actor
<1>5. actor' = [actor EXCEPT ![s] = b] /\ actor[s].state \notin {"none", "done", "deleting"}
  BY DEF Receive
<1> HIDE DEF b
<1> QED
  BY <1>3, <1>4, <1>5, GoingOnKeeps DEF Receive

LEMMA ConnectKeeps ==
    ASSUME Inv, NEW s \in Sites, Connect(s)
    PROVE  Inv'
<1> DEFINE b == [actor[s] EXCEPT !.state = "adjusting", !.retry = 0, !.todo = DOMAIN target[s]]
<1>1. actor[s] \in Actor
  BY SiteTypes
<1>2. b \in Actor /\ b.policies = actor[s].policies /\ b.state = "adjusting"
  BY <1>1, TargetSpecies DEF Actor, States
<1>3. actor' = [actor EXCEPT ![s] = b] /\ actor[s].state \notin {"none", "done", "deleting"}
  BY DEF Connect
<1> HIDE DEF b
<1> QED
  BY <1>2, <1>3, GoingOnKeeps DEF Connect

LEMMA ConnectFailsKeeps ==
    ASSUME Inv, NEW s \in Sites, ConnectFails(s)
    PROVE  Inv'
<1>1. actor[s] \in Actor
  BY SiteTypes
<1>2. CASE actor[s].retry < MaxRetry
  <2> DEFINE b == [actor[s] EXCEPT !.retry = @ + 1]
  <2>1. b \in Actor /\ b.policies = actor[s].policies /\ b.state = "connecting"
    BY <1>1 DEF Actor, ConnectFails
  <2>2. actor' = [actor EXCEPT ![s] = b] /\ actor[s].state \notin {"none", "done", "deleting"}
    BY <1>2 DEF ConnectFails
  <2> HIDE DEF b
  <2> QED
    BY <1>2, <2>1, <2>2, GoingOnKeeps DEF ConnectFails
<1>3. CASE ~ actor[s].retry < MaxRetry
  <2> DEFINE b == [NewActor EXCEPT !.state = "done"]
             lost == losses[s] + 1
             auth == authority[s]
             made == created[s]
  <2>1. b \in Actor /\ b.policies = NoPolicies /\ b.state = "done"
    BY EmptySeq DEF NewActor, Actor, States, Populations, Policies, NoPolicies, NoPolicy, NoAction
  <2>2. /\ actor' = [actor EXCEPT ![s] = b] /\ losses' = [losses EXCEPT ![s] = lost]
        /\ authority' = [authority EXCEPT ![s] = auth]
        /\ created' = [created EXCEPT ![s] = made]
        /\ UNCHANGED notActor
    BY <1>3, SiteTypes DEF ConnectFails
  <2>3. lost \in Nat /\ lost > 0
    BY SiteTypes
  <2>4. s \in authority_servers
    BY SiteTypes DEF SiteInv, ConnectFails
  <2> HIDE DEF b
  <2>5. SiteInv(b, auth, made, lost, s, authority_servers)
    BY <2>1, <2>3, <2>4, SiteTypes, BeginsAnew
  <2> QED
    BY <2>1, <2>2, <2>3, <2>5, SiteTypes, SiteStep
<1> QED
  BY <1>2, <1>3

LEMMA AdjustingKeeps ==
    ASSUME Inv, NEW s \in Sites, NEW species \in Species, Adjust(s, species)
    PROVE  Inv'
<1> DEFINE a == actor[s]
           wanted == Wanted(s, a.populations, species)
           has == a.policies[species].action
           auth == authority[s]
           made == created[s]
           lost == losses[s]
<1>1. a \in Actor /\ wanted \in Actions \cup {NoAction} /\ a.state = "adjusting"
  BY SiteTypes DEF Wanted, Actions, Adjust
<1>2. /\ has # NoAction <=> a.policies[species] # NoPolicy
      /\ a.policies[species].id \in Nat
  BY <1>1, SiteTypes, KnownAction
<1> DEFINE skip == [a EXCEPT !.todo = @ \ {species}]
           create == [a EXCEPT !.state = "creating", !.species = species, !.action = wanted]
           delete == [a EXCEPT !.state = "deleting", !.species = species, !.action = wanted,
                               !.id = a.policies[species].id, !.policies = Without(@, species)]
<1>6. /\ actor' = [actor EXCEPT ![s] = IF has = wanted THEN skip
                                     ELSE IF has = NoAction THEN create ELSE delete]
      /\ UNCHANGED <<notActor, authority, created, losses>>
  BY DEF Adjust
<1>3. CASE has = wanted
  <2> DEFINE b == skip
  <2>1. b \in Actor /\ b.policies = a.policies /\ b.state = "adjusting"
    BY <1>1 DEF Actor
  <2>2. actor' = [actor EXCEPT ![s] = b]
    BY <1>3, <1>6
  <2> HIDE DEF b, skip
  <2> QED
    BY <1>1, <1>6, <2>1, <2>2, GoingOnKeeps
<1>4. CASE has # wanted /\ has = NoAction
  <2> DEFINE b == create
  <2>1. wanted \in Actions
    BY <1>1, <1>4
  <2>2. /\ b \in Actor /\ b.policies = a.policies /\ b.state = "creating"
        /\ b.species = species /\ b.action = wanted
    BY <1>1 DEF Actor, States
  <2>3. actor' = [actor EXCEPT ![s] = b]
    BY <1>4, <1>6
  <2> HIDE DEF b, create, wanted
  <2>4. SiteInv(b, auth, made, lost, s, authority_servers)
    BY <1>1, <1>2, <1>4, <2>1, <2>2, SiteTypes, AsksToCreate
  <2> QED
    BY <1>6, <2>2, <2>3, <2>4, ActorStep
<1>5. CASE has # wanted /\ has # NoAction
  <2> DEFINE b == delete
  <2>1. Without(a.policies, species) \in Policies
    BY <1>1 DEF Without, Actor, Policies, NoPolicy
  <2>2. /\ b \in Actor /\ b.policies = Without(a.policies, species) /\ b.state = "deleting"
        /\ b.species = species /\ b.id = a.policies[species].id
    BY <1>1, <1>2, <2>1 DEF Actor, States
  <2>3. actor' = [actor EXCEPT ![s] = b]
    BY <1>5, <1>6
  <2> HIDE DEF b, delete, wanted
  <2>4. SiteInv(b, auth, made, lost, s, authority_servers)
    BY <1>1, <1>2, <1>5, <2>2, SiteTypes, AsksToDelete
  <2> QED
    BY <1>6, <2>2, <2>3, <2>4, ActorStep
<1> QED
  BY <1>3, <1>4, <1>5

LEMMA AdjustedKeeps ==
    ASSUME Inv, NEW s \in Sites, Adjusted(s)
    PROVE  Inv'
<1> DEFINE b == [actor[s] EXCEPT !.state = "next"]
<1>1. actor[s] \in Actor
  BY SiteTypes
<1>2. b \in Actor /\ b.policies = actor[s].policies /\ b.state = "next"
  BY <1>1 DEF Actor, States
<1>3. actor' = [actor EXCEPT ![s] = b] /\ actor[s].state \notin {"none", "done", "deleting"}
  BY DEF Adjusted
<1> HIDE DEF b
<1> QED
  BY <1>2, <1>3, GoingOnKeeps DEF Adjusted

\* The actor goes on after its policy was deleted.
LEMMA DeletionKeeps ==
    ASSUME Inv, NEW s \in Sites, NEW b \in Actor, NEW lost \in Nat,
           actor[s].state = "deleting", lost >= losses[s],
           actor' = [actor EXCEPT ![s] = b], losses' = [losses EXCEPT ![s] = lost],
           authority' = [authority EXCEPT ![s] = Delete(@, actor[s].id)],
           UNCHANGED <<notActor, created>>,
           b.policies = actor[s].policies, b.species = actor[s].species,
           b.state \in {"connecting", "adjusting", "creating"},
           b.state = "creating" => b.action \in Actions
    PROVE  Inv'
<1> DEFINE auth == Delete(authority[s], actor[s].id)
           made == created[s]
<1>1. SiteInv(b, auth, made, lost, s, authority_servers)
  BY SiteTypes, IsDeleted
<1>2. auth \in SUBSET Policy
  BY SiteTypes DEF Delete
<1>3. authority' = [authority EXCEPT ![s] = auth] /\ created' = [created EXCEPT ![s] = made]
  BY SiteTypes
<1>4. made \in Nat
  BY SiteTypes
<1> HIDE DEF auth, made
<1> QED
  BY <1>1, <1>2, <1>3, <1>4, SiteStep

LEMMA DeletedKeeps ==
    ASSUME Inv, NEW s \in Sites, Deleted(s)
    PROVE  Inv'
<1> DEFINE a == actor[s]
           b == IF a.action = NoAction
                THEN [a EXCEPT !.state = "adjusting", !.todo = @ \ {a.species}, !.id = 0]
                ELSE [a EXCEPT !.state = "creating", !.id = 0]
           lost == losses[s]
<1>1. a \in Actor
  BY SiteTypes
<1>2. a.action \in Actions \cup {NoAction}
  BY <1>1 DEF Actor
<1>3. /\ b \in Actor /\ b.policies = a.policies /\ b.species = a.species
      /\ b.state \in {"connecting", "adjusting", "creating"}
      /\ b.state = "creating" => b.action \in Actions
  <2>1. CASE a.action = NoAction
    BY <1>1, <2>1 DEF Actor, States
  <2>2. CASE a.action # NoAction
    BY <1>1, <1>2, <2>2 DEF Actor, States
  <2> QED
    BY <2>1, <2>2
<1>4. actor' = [actor EXCEPT ![s] = b] /\ losses' = [losses EXCEPT ![s] = lost]
  <2>1. actor' = [actor EXCEPT ![s] = b]
    BY DEF Deleted
  <2>2. losses' = losses
    BY DEF Deleted
  <2> QED
    BY <2>1, <2>2, SiteTypes
<1>5. lost \in Nat /\ lost >= losses[s]
  BY SiteTypes
<1> HIDE DEF b
<1> QED
  BY <1>3, <1>4, <1>5, DeletionKeeps DEF Deleted

\* The actor goes on after its policy was created.
LEMMA CreationKeeps ==
    ASSUME Inv, NEW s \in Sites, NEW b \in Actor, NEW lost \in Nat,
           actor[s].state = "creating", lost >= losses[s],
           actor' = [actor EXCEPT ![s] = b], losses' = [losses EXCEPT ![s] = lost],
           Create(s), UNCHANGED notActor,
           b.state \in {"connecting", "adjusting"},
           \/ /\ b.policies = [actor[s].policies EXCEPT ![actor[s].species] =
                                  [id |-> created[s] + 1, action |-> actor[s].action]]
           \/ b.policies = actor[s].policies /\ lost > 0
    PROVE  Inv'
<1> DEFINE new == [id |-> created[s] + 1, species |-> actor[s].species,
                   action |-> actor[s].action]
           auth == authority[s] \cup {new}
           made == created[s] + 1
<1>1. SiteInv(b, auth, made, lost, s, authority_servers)
  BY SiteTypes, IsCreated
<1>2. actor[s].species \in Species /\ actor[s].action \in Actions
  BY SiteTypes DEF SiteInv
<1>3. new \in Policy /\ made \in Nat
  BY <1>2, SiteTypes DEF Policy
<1>4. authority' = [authority EXCEPT ![s] = auth] /\ created' = [created EXCEPT ![s] = made]
  BY DEF Create
<1> HIDE DEF new, made
<1>5. auth \in SUBSET Policy
  BY <1>3, SiteTypes
<1> HIDE DEF auth
<1> QED
  BY <1>1, <1>3, <1>4, <1>5, SiteStep

LEMMA CreatedKeeps ==
    ASSUME Inv, NEW s \in Sites, Created(s)
    PROVE  Inv'
<1> DEFINE a == actor[s]
           policies == [a.policies EXCEPT ![a.species] =
                           [id |-> created[s] + 1, action |-> a.action]]
           b == [a EXCEPT !.state = "adjusting", !.todo = @ \ {a.species},
                          !.policies = policies]
           lost == losses[s]
<1>1. a \in Actor /\ created[s] \in Nat /\ a.state = "creating"
  BY SiteTypes DEF Created
<1>2. a.species \in Species /\ a.action \in Actions
  BY <1>1, SiteTypes DEF SiteInv
<1>3. policies \in Policies
  BY <1>1, <1>2 DEF Actor, Policies
<1>4. b \in Actor /\ b.policies = policies /\ b.state = "adjusting"
  BY <1>1, <1>3 DEF Actor, States
<1>5. actor' = [actor EXCEPT ![s] = b]
  BY <1>1 DEF Created, Actor
<1>6. losses' = [losses EXCEPT ![s] = lost] /\ lost \in Nat /\ lost >= losses[s]
  BY SiteTypes DEF Created
<1> HIDE DEF b
<1> QED
  BY <1>1, <1>4, <1>5, <1>6, CreationKeeps DEF Created

LEMMA LoseKeeps ==
    ASSUME Inv, NEW s \in Sites, Lose(s)
    PROVE  Inv'
<1> DEFINE a == actor[s]
           b == [a EXCEPT !.state = "connecting", !.id = 0]
           lost == losses[s] + 1
           auth == authority[s]
           made == created[s]
<1>1. a \in Actor /\ losses[s] \in Nat
  BY SiteTypes
<1>2. b \in Actor /\ b.policies = a.policies /\ b.species = a.species /\ b.state = "connecting"
  BY <1>1 DEF Actor, States
<1>3. /\ actor' = [actor EXCEPT ![s] = b] /\ losses' = [losses EXCEPT ![s] = lost]
      /\ UNCHANGED notActor
      /\ a.state \in {"deleting", "creating"}
  BY DEF Lose
<1>4. lost \in Nat /\ lost >= losses[s] /\ lost > 0
  BY <1>1
<1> HIDE DEF b, lost
<1>5. CASE UNCHANGED <<authority, created>>
  <2>1. SiteInv(b, auth, made, lost, s, authority_servers)
    BY <1>1, <1>2, <1>3, <1>4, SiteTypes, GoesOn
  <2>2. authority' = [authority EXCEPT ![s] = auth] /\ created' = [created EXCEPT ![s] = made]
    BY <1>5, SiteTypes
  <2> QED
    BY <1>2, <1>3, <1>4, <2>1, <2>2, SiteTypes, SiteStep
<1>6. CASE a.state = "deleting" /\ UNCHANGED created
           /\ authority' = [authority EXCEPT ![s] = Delete(@, actor[s].id)]
  BY <1>2, <1>3, <1>4, <1>6, DeletionKeeps
<1>7. CASE a.state = "creating" /\ Create(s)
  BY <1>2, <1>3, <1>4, <1>7, CreationKeeps
<1> QED
  BY <1>5, <1>6, <1>7 DEF Lose

\* The Controller passes a visit on, or makes a new actor for it.
LEMMA ControlKeeps ==
    ASSUME Inv, Control
    PROVE  Inv'
<1> DEFINE s == Head(site_visits).site
           populations == Head(site_visits).populations
           visit == [site : Sites, populations : Populations]
<1>1. /\ site_visits \in Seq(visit) /\ site_visits # <<>>
      /\ site_visits' = Tail(site_visits)
      /\ UNCHANGED <<target, visitor, authority, created, latest, visits, losses>>
  BY DEF Inv, TypeOK, Control
<1>2. Head(site_visits) \in visit /\ site_visits' \in Seq(visit)
  <2> HIDE DEF visit
  <2> QED
    BY <1>1, HeadTailProperties
<1>3. s \in Sites /\ populations \in Populations
  BY <1>2
<1>4. ASSUME NEW b \in Actor, NEW servers \in SUBSET Sites,
             actor' = [actor EXCEPT ![s] = b], authority_servers' = servers,
             \A t \in Sites \ {s} : t \in servers <=> t \in authority_servers,
             SiteInv(b, authority[s], created[s], losses[s], s, servers)
      PROVE  Inv'
  <2>1. TypeOK'
    BY <1>1, <1>2, <1>3, <1>4 DEF Inv, TypeOK
  <2>2. ASSUME NEW t \in Sites
        PROVE  SiteInv(actor'[t], authority'[t], created'[t], losses'[t],
                       t, authority_servers')
    <3>1. CASE t = s
      <4>1. actor'[t] = b
        BY <1>3, <1>4, <3>1 DEF Inv, TypeOK
      <4> QED
        BY <1>1, <1>4, <3>1, <4>1
    <3>2. CASE t # s
      <4>1. actor'[t] = actor[t] /\ (t \in authority_servers' <=> t \in authority_servers)
        BY <1>4, <3>2 DEF Inv, TypeOK
      <4> QED
        BY <1>1, <4>1, SameServers DEF Inv
    <3> QED
      BY <3>1, <3>2
  <2> QED
    BY <2>1, <2>2 DEF Inv
<1> HIDE DEF s, populations
<1>5. actor[s] \in Actor /\ actor = [actor EXCEPT ![s] = actor[s]] /\ authority_servers \subseteq Sites
  BY <1>3 DEF Inv, TypeOK
<1>6. CASE s \notin authority_servers
  <2> DEFINE b == [NewActor EXCEPT !.inbox = <<populations>>]
  <2>1. <<populations>> \in Seq(Populations)
    BY <1>3
  <2>2. b \in Actor /\ b.policies = NoPolicies /\ b.state = "first"
    BY <2>1 DEF NewActor, Actor, States, Populations, Policies, NoPolicies, NoPolicy, NoAction
  <2>3. /\ actor' = [actor EXCEPT ![s] = b]
        /\ authority_servers' = authority_servers \cup {s}
    BY <1>6 DEF Control, s, populations
  <2> HIDE DEF b
  <2>4. actor[s].state = "none" \/ losses[s] > 0
    BY <1>3, <1>6, SiteTypes DEF SiteInv
  <2>5. SiteInv(b, authority[s], created[s], losses[s], s, authority_servers \cup {s})
    BY <1>3, <2>2, <2>4, SiteTypes, BeginsAnew
  <2>6. authority_servers \cup {s} \in SUBSET Sites
    BY <1>3, <1>5
  <2> QED
    BY <1>3, <1>4, <2>2, <2>3, <2>5, <2>6
<1>7. CASE s \in authority_servers /\ actor[s].state = "done"
  <2>1. UNCHANGED actor /\ authority_servers' = authority_servers \ {s}
    BY <1>7 DEF Control, s
  <2>2. SiteInv(actor[s], authority[s], created[s], losses[s], s, authority_servers \ {s})
    BY <1>3, <1>7, SiteTypes DEF SiteInv
  <2> QED
    BY <1>4, <1>5, <2>1, <2>2
<1>8. CASE s \in authority_servers /\ actor[s].state # "done"
  <2> DEFINE b == [actor[s] EXCEPT !.inbox = Append(@, populations)]
  <2>1. Append(actor[s].inbox, populations) \in Seq(Populations)
    BY <1>3, <1>5, AppendProperties DEF Actor
  <2>2. /\ b \in Actor /\ b.state = actor[s].state /\ b.policies = actor[s].policies
        /\ b.species = actor[s].species /\ b.action = actor[s].action /\ b.id = actor[s].id
    BY <1>5, <2>1 DEF Actor
  <2>3. actor' = [actor EXCEPT ![s] = b] /\ UNCHANGED authority_servers
    BY <1>8 DEF Control, s, populations
  <2> HIDE DEF b
  <2>4. SiteInv(b, authority[s], created[s], losses[s], s, authority_servers)
    BY <1>3, <2>2, SiteTypes, SameSite
  <2> QED
    BY <1>4, <1>5, <2>2, <2>3, <2>4
<1> QED
  BY <1>6, <1>7, <1>8

\* A visitor does not touch the actors.
LEMMA VisitorKeeps ==
    ASSUME Inv, UNCHANGED toActors,
           visitor' \in [Visitors -> {"none", "hello", "visits", "done"}],
           site_visits' \in Seq([site : Sites, populations : Populations]),
           latest' \in [Sites -> Populations], visits' \in Nat
    PROVE  Inv'
BY DEF Inv, TypeOK, toActors

LEMMA VisitKeeps ==
    ASSUME Inv, NEW v \in Visitors, NEW s \in Sites, NEW populations \in Reports,
           Visit(v, s, populations)
    PROVE  Inv'
<1> DEFINE visit == [site : Sites, populations : Populations]
           report == [site |-> s, populations |-> populations]
<1>1. populations \in Populations
  BY ReportsAssumption DEF Populations
<1>2. /\ visits' \in Nat /\ UNCHANGED toActors
      /\ visitor \in [Visitors -> {"none", "hello", "visits", "done"}]
      /\ latest \in [Sites -> Populations]
  BY DEF Visit, Inv, TypeOK
<1>3. report \in visit /\ site_visits \in Seq(visit)
  BY <1>1 DEF Inv, TypeOK
<1>4. Append(site_visits, report) \in Seq(visit)
  <2> HIDE DEF visit, report
  <2> QED
    BY <1>3, AppendProperties
<1>5. CASE Conflict(populations)
  BY <1>2, <1>3, <1>5, VisitorKeeps DEF Visit
<1>6. CASE ~ Conflict(populations)
  <2>1. /\ site_visits' = Append(site_visits, report) /\ UNCHANGED visitor
        /\ latest' = [latest EXCEPT ![s] = populations]
    BY <1>6 DEF Visit
  <2> QED
    BY <1>1, <1>2, <1>4, <2>1, VisitorKeeps
<1> QED
  BY <1>5, <1>6

-----------------------------------------------------------------------------
LEMMA StepKeeps ==
    ASSUME Inv, [Next]_vars
    PROVE  Inv'
<1>1. ASSUME NEW v \in Visitors, Accept(v) \/ Hello(v) \/ VisitorEnds(v) PROVE Inv'
  <2>1. /\ UNCHANGED <<toActors, site_visits, latest, visits>>
        /\ visitor' \in [Visitors -> {"none", "hello", "visits", "done"}]
    BY <1>1 DEF Accept, Hello, VisitorEnds, Inv, TypeOK
  <2> QED
    BY <2>1, VisitorKeeps DEF Inv, TypeOK
<1>2. ASSUME NEW v \in Visitors, NEW s \in Sites, NEW populations \in Reports,
             Visit(v, s, populations)
      PROVE  Inv'
  BY <1>2, VisitKeeps
<1>3. CASE Control
  BY <1>3, ControlKeeps
<1>4. ASSUME NEW s \in Sites, Receive(s) PROVE Inv'
  BY <1>4, ReceiveKeeps
<1>5. ASSUME NEW s \in Sites, Connect(s) PROVE Inv'
  BY <1>5, ConnectKeeps
<1>6. ASSUME NEW s \in Sites, NEW species \in Species, Adjust(s, species) PROVE Inv'
  BY <1>6, AdjustingKeeps
<1>7. ASSUME NEW s \in Sites, Adjusted(s) PROVE Inv'
  BY <1>7, AdjustedKeeps
<1>8. ASSUME NEW s \in Sites, Deleted(s) PROVE Inv'
  BY <1>8, DeletedKeeps
<1>9. ASSUME NEW s \in Sites, Created(s) PROVE Inv'
  BY <1>9, CreatedKeeps
<1>10. ASSUME NEW s \in Sites, ConnectFails(s) PROVE Inv'
  BY <1>10, ConnectFailsKeeps
<1>11. ASSUME NEW s \in Sites, Lose(s) PROVE Inv'
  BY <1>11, LoseKeeps
<1>12. CASE UNCHANGED vars
  <2>1. UNCHANGED toActors /\ UNCHANGED <<visitor, site_visits, latest, visits>>
    BY <1>12 DEF vars, toActors
  <2> QED
    BY <2>1, VisitorKeeps DEF Inv, TypeOK
<1> QED
  BY <1>1, <1>2, <1>3, <1>4, <1>5, <1>6, <1>7, <1>8, <1>9, <1>10, <1>11, <1>12
     DEF Next, Act

LEMMA Begins ==
    ASSUME Init
    PROVE  Inv
<1> DEFINE a == [NewActor EXCEPT !.state = "none"]
<1>1. /\ a \in Actor /\ a.policies = NoPolicies /\ a.state = "none"
  BY EmptySeq DEF NewActor, Actor, States, Populations, Policies, NoPolicies, NoPolicy, NoAction
<1>2. \A s \in Sites : actor[s] = a /\ authority[s] = {} /\ created[s] = 0 /\ losses[s] = 0
  BY DEF Init
<1>3. site_visits \in Seq([site : Sites, populations : Populations])
  BY EmptySeq DEF Init
<1>4. actor \in [Sites -> Actor]
  BY <1>1 DEF Init
<1>5. TypeOK
  BY <1>3, <1>4 DEF Init, TypeOK, Populations
<1> HIDE DEF a
<1>6. \A sp \in Species : NoPolicies[sp] = NoPolicy
  BY DEF NoPolicies
<1>7. \A s \in Sites : SiteInv(a, {}, 0, 0, s, authority_servers)
  BY <1>1, <1>6 DEF SiteInv
<1> QED
  BY <1>2, <1>5, <1>7 DEF Inv

\* The invariant: the types, and of each site what is known, asked and there.
THEOREM Invariance == Spec => []Inv
BY Begins, StepKeeps, PTL DEF Spec

\* The variables have values of their types.
THEOREM TypeCorrect == Spec => []TypeOK
<1>1. Inv => TypeOK
  BY DEF Inv
<1> QED
  BY <1>1, Invariance, PTL

\* Whatever connections are lost, before a request is carried out or after, an actor
\* thinks advised only what is, and asks to delete only what is there
\* (authority_server.rs, delete_policy, which forgets the policy before it asks).
THEOREM PoliciesAreThere == Spec => []KnownPoliciesExist
<1>1. Inv => KnownPoliciesExist
  BY DEF Inv, SiteInv, KnownPoliciesExist
<1> QED
  BY <1>1, Invariance, PTL

\* As long as no connection of a site is lost there are never two policies for a
\* species, not even between the deletion of one and the creation of another
\* (authority_server.rs, adjust_policies).
THEOREM SinglePolicies == Spec => []OneAtATime
<1>1. ASSUME Inv, NEW s \in Sites, losses[s] = 0,
             NEW p \in authority[s], NEW q \in authority[s], p.species = q.species
      PROVE  p = q
  <2> DEFINE a == actor[s]
  <2>1. /\ \A x, y \in authority[s] : x.id = y.id => x = y
        /\ \A x \in {p, q} : \/ a.policies[x.species] # NoPolicy
                                /\ a.policies[x.species].id = x.id
                             \/ a.state = "deleting" /\ a.id = x.id
        /\ a.state = "deleting" =>
              /\ a.policies[a.species] = NoPolicy
              /\ \E x \in authority[s] : x.id = a.id /\ x.species = a.species
    BY <1>1 DEF Inv, SiteInv
  <2>2. \A x \in authority[s] : a.state = "deleting" /\ a.id = x.id => x.species = a.species
    BY <2>1
  <2>3. p.id = q.id
    BY <1>1, <2>1, <2>2
  <2> QED
    BY <2>1, <2>3
<1>2. Inv => OneAtATime
  BY <1>1 DEF OneAtATime
<1> QED
  BY <1>2, Invariance, PTL

\* The Controller makes an actor for a site only when none works for it
\* (controller.rs, run).
THEOREM SingleActors == Spec => []OneActorASite
<1>1. Inv => OneActorASite
  BY DEF Inv, SiteInv, OneActorASite
<1> QED
  BY <1>1, Invariance, PTL

-----------------------------------------------------------------------------
(* Rounds *)

\* What is to be advised about a species with targets tgt, by what was seen of it.
Advice(tgt, populations, species) ==
    LET range == tgt[species]
        seen  == {n \in Counts : <<species, n>> \in populations}
        count == IF seen = {} THEN 0 ELSE CHOOSE n \in seen : TRUE
    IN IF count < range.min THEN "conserve"
       ELSE IF count > range.max THEN "cull"
       ELSE NoAction

\* A round of an actor a: what is no longer to do is advised as its populations
\* call for, the request under way is for what they call for, and nothing is
\* advised about a species that is no target.
Round(a, tgt) ==
    /\ \A sp \in Species : sp \notin DOMAIN tgt => a.policies[sp] = NoPolicy
    /\ a.state \in {"adjusting", "deleting", "creating", "next"} =>
          \A sp \in DOMAIN tgt : a.state = "next" \/ sp \notin a.todo =>
              a.policies[sp].action = Advice(tgt, a.populations, sp)
    /\ a.state \in {"adjusting", "deleting", "creating"} => a.todo \subseteq DOMAIN tgt
    /\ a.state \in {"deleting", "creating"} =>
          a.species \in a.todo /\ a.action = Advice(tgt, a.populations, a.species)

\* No visit of the site is in the channel q.
NoneIn(q, site) == \A n \in DOMAIN q : q[n].site # site

\* No visit is overtaken: the last one of those in the channel q, else of those in
\* the inbox of the actor a, else the one it works on, is the last that was sent.
Current(q, a, last, site) ==
    /\ \A n \in DOMAIN q :
          q[n].site = site /\ (\A m \in DOMAIN q : m > n => q[m].site # site)
             => q[n].populations = last
    /\ NoneIn(q, site) /\ a.inbox # <<>> => a.inbox[Len(a.inbox)] = last
    /\ NoneIn(q, site) /\ a.inbox = <<>> /\ a.state \notin {"none", "first"}
          => a.populations = last

Rounds == \A s \in Sites : Round(actor[s], target[s])

UpToDate == \A s \in Sites : losses[s] = 0 => Current(site_visits, actor[s], latest[s], s)

LEMMA WantedIsAdvice ==
    ASSUME NEW s \in Sites, NEW populations, NEW sp
    PROVE  Wanted(s, populations, sp) = Advice(target[s], populations, sp)
BY DEF Wanted, Advice

\* A step of the actor of a site alone, whatever becomes of the policies there.
LEMMA SiteRound ==
    ASSUME Inv, Rounds, UpToDate, NEW s \in Sites, NEW b,
           actor' = [actor EXCEPT ![s] = b], UNCHANGED notActor,
           \A t \in Sites : losses'[t] = 0 => losses[t] = 0,
           Round(b, target[s]),
           losses'[s] = 0 /\ Current(site_visits, actor[s], latest[s], s)
              => Current(site_visits, b, latest[s], s)
    PROVE  Rounds' /\ UpToDate'
<1>1. UNCHANGED <<target, site_visits, latest>>
  BY DEF notActor
<1>2. \A t \in Sites : actor'[t] = IF t = s THEN b ELSE actor[t]
  BY DEF Inv, TypeOK
<1>3. ASSUME NEW t \in Sites PROVE Round(actor'[t], target'[t])
  BY <1>1, <1>2 DEF Rounds
<1>4. ASSUME NEW t \in Sites, losses'[t] = 0
      PROVE  Current(site_visits', actor'[t], latest'[t], t)
  <2>1. Current(site_visits, actor[t], latest[t], t)
    BY <1>4 DEF UpToDate
  <2>2. actor'[t] = IF t = s THEN b ELSE actor[t]
    BY <1>2
  <2> QED
    BY <1>1, <1>4, <2>1, <2>2
<1> QED
  BY <1>3, <1>4 DEF Rounds, UpToDate

\* Nothing changes of what the actor has received.
LEMMA SameVisits ==
    ASSUME NEW q, NEW a, NEW b, NEW last, NEW site, Current(q, a, last, site),
           a.inbox = b.inbox, a.populations = b.populations,
           b.state \in {"none", "first"} \/ a.state \notin {"none", "first"}
    PROVE  Current(q, b, last, site)
BY DEF Current

LEMMA ReceiveRound ==
    ASSUME Inv, Rounds, UpToDate, NEW s \in Sites, Receive(s)
    PROVE  Rounds' /\ UpToDate'
<1> DEFINE a == actor[s]
           b == [actor[s] EXCEPT
          !.state = IF @ = "first" THEN "connecting" ELSE "adjusting",
          !.inbox = Tail(@),
          !.populations = Head(actor[s].inbox),
          !.todo = DOMAIN target[s]]
<1>1. a \in Actor /\ a.inbox \in Seq(Populations) /\ a.inbox # <<>>
  BY SiteTypes DEF Actor, Receive
<1>2. /\ b.policies = a.policies /\ b.state \in {"connecting", "adjusting"}
      /\ b.inbox = Tail(a.inbox) /\ b.populations = Head(a.inbox) /\ b.todo = DOMAIN target[s]
  BY <1>1 DEF Actor
<1>3. actor' = [actor EXCEPT ![s] = b] /\ UNCHANGED <<notActor, losses>>
  BY DEF Receive
<1>4. Round(a, target[s])
  BY DEF Rounds
<1>5. /\ Tail(a.inbox) \in Seq(Populations)
      /\ Len(a.inbox) \in Nat /\ Len(a.inbox) > 0
      /\ Len(Tail(a.inbox)) = Len(a.inbox) - 1
      /\ \A n \in 1 .. Len(Tail(a.inbox)) : Tail(a.inbox)[n] = a.inbox[n + 1]
  BY <1>1, HeadTailProperties, LenProperties, EmptySeq
<1>6. Head(a.inbox) = a.inbox[1]
  BY <1>1, HeadTailProperties
<1>7. Tail(a.inbox) = <<>> => Len(a.inbox) = 1
  <2>1. Tail(a.inbox) = <<>> => Len(Tail(a.inbox)) = 0
    BY EmptySeq
  <2> QED
    BY <1>5, <2>1
<1>8. Tail(a.inbox) # <<>> => Tail(a.inbox)[Len(Tail(a.inbox))] = a.inbox[Len(a.inbox)]
  <2>1. Tail(a.inbox) # <<>> => Len(Tail(a.inbox)) \in 1 .. Len(Tail(a.inbox))
    BY <1>5, EmptySeq
  <2> QED
    BY <1>5, <2>1
<1> HIDE DEF b
<1>9. Round(b, target[s])
  BY <1>2, <1>4 DEF Round
<1>10. ASSUME Current(site_visits, a, latest[s], s) PROVE Current(site_visits, b, latest[s], s)
  <2>1. ASSUME NoneIn(site_visits, s) PROVE a.inbox[Len(a.inbox)] = latest[s]
    BY <1>1, <1>10, <2>1 DEF Current
  <2> QED
    BY <1>2, <1>6, <1>7, <1>8, <1>10, <2>1 DEF Current
<1> QED
  BY <1>3, <1>9, <1>10, SiteRound

LEMMA ConnectRound ==
    ASSUME Inv, Rounds, UpToDate, NEW s \in Sites, Connect(s)
    PROVE  Rounds' /\ UpToDate'
<1> DEFINE a == actor[s]
           b == [actor[s] EXCEPT !.state = "adjusting", !.retry = 0, !.todo = DOMAIN target[s]]
<1>1. a \in Actor /\ a.state = "connecting"
  BY SiteTypes DEF Connect
<1>2. /\ b.policies = a.policies /\ b.state = "adjusting" /\ b.inbox = a.inbox
      /\ b.populations = a.populations /\ b.todo = DOMAIN target[s]
  BY <1>1 DEF Actor
<1>3. actor' = [actor EXCEPT ![s] = b] /\ UNCHANGED <<notActor, losses>>
  BY DEF Connect
<1> HIDE DEF b
<1>4. Round(b, target[s])
  BY <1>2 DEF Rounds, Round
<1>5. Current(site_visits, a, latest[s], s) => Current(site_visits, b, latest[s], s)
  BY <1>1, <1>2, SameVisits
<1> QED
  BY <1>3, <1>4, <1>5, SiteRound

LEMMA ConnectFailsRound ==
    ASSUME Inv, Rounds, UpToDate, NEW s \in Sites, ConnectFails(s)
    PROVE  Rounds' /\ UpToDate'
<1> DEFINE a == actor[s]
<1>1. a \in Actor /\ a.state = "connecting"
  BY SiteTypes DEF ConnectFails
<1>2. CASE a.retry < MaxRetry
  <2> DEFINE b == [actor[s] EXCEPT !.retry = @ + 1]
  <2>1. /\ b.policies = a.policies /\ b.state = "connecting" /\ b.inbox = a.inbox
        /\ b.populations = a.populations
    BY <1>1 DEF Actor
  <2>2. actor' = [actor EXCEPT ![s] = b] /\ UNCHANGED <<notActor, losses>>
    BY <1>2 DEF ConnectFails
  <2> HIDE DEF b
  <2>3. Round(b, target[s])
    BY <2>1 DEF Rounds, Round
  <2>4. Current(site_visits, a, latest[s], s) => Current(site_visits, b, latest[s], s)
    BY <1>1, <2>1, SameVisits
  <2> QED
    BY <2>2, <2>3, <2>4, SiteRound
<1>3. CASE ~ a.retry < MaxRetry
  <2> DEFINE b == [NewActor EXCEPT !.state = "done"]
  <2>1. b.policies = NoPolicies /\ b.state = "done"
    BY DEF NewActor
  <2>2. /\ actor' = [actor EXCEPT ![s] = b] /\ UNCHANGED notActor
        /\ losses' = [losses EXCEPT ![s] = @ + 1]
    BY <1>3 DEF ConnectFails
  <2>3. losses'[s] # 0 /\ \A t \in Sites : losses'[t] = 0 => losses[t] = 0
    BY <2>2 DEF Inv, TypeOK
  <2> HIDE DEF b
  <2>4. \A sp \in Species : NoPolicies[sp] = NoPolicy
    BY DEF NoPolicies
  <2>5. Round(b, target[s])
    BY <2>1, <2>4 DEF Round
  <2> QED
    BY <2>2, <2>3, <2>5, SiteRound
<1> QED
  BY <1>2, <1>3

LEMMA AdjustRound ==
    ASSUME Inv, Rounds, UpToDate, NEW s \in Sites, NEW species \in Species, Adjust(s, species)
    PROVE  Rounds' /\ UpToDate'
<1> DEFINE a == actor[s]
           wanted == Wanted(s, a.populations, species)
           has == a.policies[species].action
           skip == [a EXCEPT !.todo = @ \ {species}]
           create == [a EXCEPT !.state = "creating", !.species = species, !.action = wanted]
           delete == [a EXCEPT !.state = "deleting", !.species = species, !.action = wanted,
                               !.id = a.policies[species].id, !.policies = Without(@, species)]
<1>1. a \in Actor /\ a.state = "adjusting" /\ species \in a.todo
  BY SiteTypes DEF Adjust, Upcoming
<1>2. /\ actor' = [actor EXCEPT ![s] = IF has = wanted THEN skip
                                     ELSE IF has = NoAction THEN create ELSE delete]
      /\ UNCHANGED <<notActor, losses>>
  BY DEF Adjust
<1>3. Round(a, target[s]) /\ wanted = Advice(target[s], a.populations, species)
  BY WantedIsAdvice DEF Rounds
<1>4. species \in DOMAIN target[s] /\ a.todo \subseteq DOMAIN target[s]
  BY <1>1, <1>3 DEF Round
<1>5. CASE has = wanted
  <2> DEFINE b == skip
  <2>1. /\ b.policies = a.policies /\ b.state = "adjusting" /\ b.inbox = a.inbox
        /\ b.populations = a.populations /\ b.todo = a.todo \ {species}
    BY <1>1 DEF Actor
  <2>2. actor' = [actor EXCEPT ![s] = b]
    BY <1>2, <1>5
  <2> HIDE DEF b, skip, wanted
  <2>3. Round(b, target[s])
    BY <1>1, <1>3, <1>4, <1>5, <2>1 DEF Round
  <2>4. Current(site_visits, a, latest[s], s) => Current(site_visits, b, latest[s], s)
    BY <1>1, <2>1, SameVisits
  <2> QED
    BY <1>2, <2>2, <2>3, <2>4, SiteRound
<1>6. CASE has # wanted /\ has = NoAction
  <2> DEFINE b == create
  <2>1. /\ b.policies = a.policies /\ b.state = "creating" /\ b.inbox = a.inbox
        /\ b.populations = a.populations /\ b.todo = a.todo
        /\ b.species = species /\ b.action = wanted
    BY <1>1 DEF Actor
  <2>2. actor' = [actor EXCEPT ![s] = b]
    BY <1>2, <1>6
  <2> HIDE DEF b, create, wanted
  <2>3. Round(b, target[s])
    BY <1>1, <1>3, <1>4, <2>1 DEF Round
  <2>4. Current(site_visits, a, latest[s], s) => Current(site_visits, b, latest[s], s)
    BY <1>1, <2>1, SameVisits
  <2> QED
    BY <1>2, <2>2, <2>3, <2>4, SiteRound
<1>7. CASE has # wanted /\ has # NoAction
  <2> DEFINE b == delete
  <2>1. /\ b.policies = Without(a.policies, species) /\ b.state = "deleting"
        /\ b.inbox = a.inbox
        /\ b.populations = a.populations /\ b.todo = a.todo
        /\ b.species = species /\ b.action = wanted
    BY <1>1 DEF Actor
  <2>2. actor' = [actor EXCEPT ![s] = b]
    BY <1>2, <1>7
  <2>3. /\ \A t \in Species : b.policies[t] = IF t = species THEN NoPolicy ELSE a.policies[t]
    BY <1>1, <2>1 DEF Without, Actor, Policies
  <2>5. DOMAIN target[s] \subseteq Species
    BY TargetSpecies
  <2> HIDE DEF b, delete, wanted
  <2>4. Round(b, target[s])
    BY <1>1, <1>3, <1>4, <2>1, <2>3, <2>5 DEF Round
  <2>6. Current(site_visits, a, latest[s], s) => Current(site_visits, b, latest[s], s)
    BY <1>1, <2>1, SameVisits
  <2> QED
    BY <1>2, <2>2, <2>4, <2>6, SiteRound
<1> QED
  BY <1>5, <1>6, <1>7

LEMMA AdjustedRound ==
    ASSUME Inv, Rounds, UpToDate, NEW s \in Sites, Adjusted(s)
    PROVE  Rounds' /\ UpToDate'
<1> DEFINE a == actor[s]
           b == [actor[s] EXCEPT !.state = "next"]
<1>1. a \in Actor /\ a.state = "adjusting" /\ a.todo = {}
  BY SiteTypes DEF Adjusted
<1>2. /\ b.policies = a.policies /\ b.state = "next" /\ b.inbox = a.inbox
      /\ b.populations = a.populations
  BY <1>1 DEF Actor
<1>3. actor' = [actor EXCEPT ![s] = b] /\ UNCHANGED <<notActor, losses>>
  BY DEF Adjusted
<1> HIDE DEF b
<1>4. Round(b, target[s])
  BY <1>1, <1>2 DEF Rounds, Round
<1>5. Current(site_visits, a, latest[s], s) => Current(site_visits, b, latest[s], s)
  BY <1>1, <1>2, SameVisits
<1> QED
  BY <1>3, <1>4, <1>5, SiteRound

LEMMA DeletedRound ==
    ASSUME Inv, Rounds, UpToDate, NEW s \in Sites, Deleted(s)
    PROVE  Rounds' /\ UpToDate'
<1> DEFINE a == actor[s]
           adjusting == [a EXCEPT !.state = "adjusting", !.todo = @ \ {a.species}, !.id = 0]
           creating == [a EXCEPT !.state = "creating", !.id = 0]
           b == IF a.action = NoAction THEN adjusting ELSE creating
<1>1. a \in Actor /\ a.state = "deleting"
  BY SiteTypes DEF Deleted
<1>2. Round(a, target[s]) /\ a.species \in Species /\ a.policies[a.species].action = NoAction
  BY <1>1, SiteTypes DEF Rounds, SiteInv, NoPolicy
<1>3. actor' = [actor EXCEPT ![s] = b] /\ UNCHANGED <<notActor, losses>>
  BY DEF Deleted
<1>4. /\ b.policies = a.policies /\ b.inbox = a.inbox /\ b.populations = a.populations
      /\ \/ b.state = "adjusting" /\ b.todo = a.todo \ {a.species} /\ a.action = NoAction
         \/ /\ b.state = "creating" /\ b.todo = a.todo
            /\ b.species = a.species /\ b.action = a.action
  <2>1. CASE a.action = NoAction
    BY <1>1, <2>1 DEF Actor
  <2>2. CASE a.action # NoAction
    BY <1>1, <2>2 DEF Actor
  <2> QED
    BY <2>1, <2>2
<1> HIDE DEF b
<1>5. Round(b, target[s])
  BY <1>1, <1>2, <1>4 DEF Round
<1>6. Current(site_visits, a, latest[s], s) => Current(site_visits, b, latest[s], s)
  BY <1>1, <1>4, SameVisits
<1> QED
  BY <1>3, <1>5, <1>6, SiteRound

LEMMA CreatedRound ==
    ASSUME Inv, Rounds, UpToDate, NEW s \in Sites, Created(s)
    PROVE  Rounds' /\ UpToDate'
<1> DEFINE a == actor[s]
           new == [id |-> created[s] + 1, action |-> a.action]
           b == [a EXCEPT !.state = "adjusting", !.todo = @ \ {a.species},
                          !.policies = [a.policies EXCEPT ![a.species] = new]]
<1>1. a \in Actor /\ a.state = "creating"
  BY SiteTypes DEF Created
<1>2. Round(a, target[s]) /\ a.species \in Species
  BY <1>1, SiteTypes DEF Rounds, SiteInv
<1>3. actor' = [actor EXCEPT ![s] = b] /\ UNCHANGED <<notActor, losses>>
  BY <1>1 DEF Created, Actor
<1>4. /\ b.state = "adjusting" /\ b.todo = a.todo \ {a.species}
      /\ b.inbox = a.inbox /\ b.populations = a.populations
      /\ b.policies = [a.policies EXCEPT ![a.species] = new]
  BY <1>1 DEF Actor
<1>5. \A t \in Species : b.policies[t] = IF t = a.species THEN new ELSE a.policies[t]
  BY <1>1, <1>4 DEF Actor, Policies
<1>6. new.action = a.action
  OBVIOUS
<1>7. DOMAIN target[s] \subseteq Species
  BY TargetSpecies
<1> HIDE DEF b, new
<1>8. Round(b, target[s])
  BY <1>1, <1>2, <1>4, <1>5, <1>6, <1>7 DEF Round
<1>9. Current(site_visits, a, latest[s], s) => Current(site_visits, b, latest[s], s)
  BY <1>1, <1>4, SameVisits
<1> QED
  BY <1>3, <1>8, <1>9, SiteRound

LEMMA LoseRound ==
    ASSUME Inv, Rounds, UpToDate, NEW s \in Sites, Lose(s)
    PROVE  Rounds' /\ UpToDate'
<1> DEFINE a == actor[s]
           b == [a EXCEPT !.state = "connecting", !.id = 0]
<1>1. a \in Actor
  BY SiteTypes
<1>2. b.policies = a.policies /\ b.state = "connecting"
  BY <1>1 DEF Actor
<1>3. /\ actor' = [actor EXCEPT ![s] = b] /\ UNCHANGED notActor
      /\ losses' = [losses EXCEPT ![s] = @ + 1]
  BY DEF Lose
<1>4. losses'[s] # 0 /\ \A t \in Sites : losses'[t] = 0 => losses[t] = 0
  BY <1>3 DEF Inv, TypeOK
<1> HIDE DEF b
<1>5. Round(b, target[s])
  BY <1>2 DEF Rounds, Round
<1> QED
  BY <1>3, <1>4, <1>5, SiteRound

\* A visitor sends nothing.
LEMMA VisitorRound ==
    ASSUME Rounds, UpToDate, UNCHANGED <<toActors, site_visits, latest>>
    PROVE  Rounds' /\ UpToDate'
BY DEF Rounds, UpToDate, toActors

\* A visit of the site is now the last in the channel, one of another site is not
\* noticed.
LEMMA IsSent ==
    ASSUME NEW q \in Seq([site : Sites, populations : Populations]),
           NEW visit \in [site : Sites, populations : Populations],
           NEW a, NEW last, NEW site \in Sites, Current(q, a, last, site)
    PROVE  Current(Append(q, visit), a, IF visit.site = site THEN visit.populations ELSE last, site)
<1> DEFINE r == Append(q, visit)
           now == IF visit.site = site THEN visit.populations ELSE last
           len == Len(q)
<1>1. len \in Nat /\ DOMAIN q = 1 .. len
  BY LenProperties
<1>2. DOMAIN r = 1 .. len + 1 /\ r[len + 1] = visit /\ \A n \in 1 .. len : r[n] = q[n]
  <2>1. r \in Seq([site : Sites, populations : Populations]) /\ Len(r) = len + 1
        /\ r[len + 1] = visit /\ \A n \in 1 .. len : r[n] = q[n]
    BY AppendProperties
  <2> QED
    BY <2>1, LenProperties
<1> HIDE DEF r, len
<1>3. ASSUME NEW n \in DOMAIN r, r[n].site = site, \A m \in DOMAIN r : m > n => r[m].site # site
      PROVE  r[n].populations = now
  <2>1. CASE n = len + 1
    BY <1>2, <1>3, <2>1
  <2>2. CASE n # len + 1
    <3>1. n \in 1 .. len
      BY <1>1, <1>2, <2>2
    <3>2. len + 1 \in DOMAIN r /\ len + 1 > n
      BY <1>1, <1>2, <3>1
    <3>3. visit.site # site
      BY <1>2, <1>3, <3>2
    <3>4. q[n].site = site /\ \A m \in DOMAIN q : m > n => q[m].site # site
      BY <1>1, <1>2, <1>3, <3>1
    <3>5. q[n].populations = last
      BY <1>1, <3>1, <3>4 DEF Current
    <3> QED
      BY <1>2, <3>1, <3>3, <3>5
  <2> QED
    BY <2>1, <2>2
<1>4. NoneIn(r, site) => visit.site # site /\ NoneIn(q, site)
  <2>1. len + 1 \in DOMAIN r /\ \A n \in DOMAIN q : n \in DOMAIN r /\ r[n] = q[n]
    BY <1>1, <1>2
  <2> QED
    BY <1>2, <2>1 DEF NoneIn
<1> QED
  BY <1>3, <1>4 DEF Current, r

LEMMA VisitRound ==
    ASSUME Inv, Rounds, UpToDate, NEW v \in Visitors, NEW s \in Sites,
           NEW populations \in Reports, Visit(v, s, populations)
    PROVE  Rounds' /\ UpToDate'
<1> DEFINE visit == [site |-> s, populations |-> populations]
<1>1. UNCHANGED toActors
  BY DEF Visit
<1>2. CASE Conflict(populations)
  BY <1>1, <1>2, VisitorRound DEF Visit
<1>3. CASE ~ Conflict(populations)
  <2>1. /\ site_visits' = Append(site_visits, visit)
        /\ latest' = [latest EXCEPT ![s] = populations]
    BY <1>3 DEF Visit
  <2>2. /\ visit \in [site : Sites, populations : Populations]
        /\ site_visits \in Seq([site : Sites, populations : Populations])
        /\ visit.site = s /\ visit.populations = populations
    BY ReportsAssumption DEF Populations, Inv, TypeOK
  <2>3. \A t \in Sites : latest'[t] = IF visit.site = t THEN visit.populations ELSE latest[t]
    BY <2>1, <2>2 DEF Inv, TypeOK
  <2>4. UNCHANGED <<target, actor, losses>>
    BY <1>1 DEF toActors
  <2> HIDE DEF visit
  <2>5. ASSUME NEW t \in Sites, losses'[t] = 0
        PROVE  Current(site_visits', actor'[t], latest'[t], t)
    <3>1. Current(site_visits, actor[t], latest[t], t)
      BY <2>4, <2>5 DEF UpToDate
    <3>2. latest'[t] = IF visit.site = t THEN visit.populations ELSE latest[t]
      BY <2>3
    <3> QED
      BY <2>1, <2>2, <2>4, <3>1, <3>2, IsSent
  <2>6. Rounds'
    BY <2>4 DEF Rounds
  <2> QED
    BY <2>5, <2>6 DEF UpToDate
<1> QED
  BY <1>2, <1>3

\* The first visit of the channel reaches the inbox of its site's actor: it is the
\* last one if no other of the site is behind it.
LEMMA IsPassedOn ==
    ASSUME NEW q \in Seq([site : Sites, populations : Populations]), q # <<>>,
           NEW a, NEW b, NEW last, NEW site \in Sites, Current(q, a, last, site),
           IF Head(q).site = site
           THEN b.inbox # <<>> /\ b.inbox[Len(b.inbox)] = Head(q).populations
           ELSE b = a
    PROVE  Current(Tail(q), b, last, site)
<1> DEFINE r == Tail(q)
           len == Len(q)
<1>1. /\ len \in Nat /\ len > 0 /\ DOMAIN q = 1 .. len /\ Head(q) = q[1]
      /\ DOMAIN r = 1 .. len - 1 /\ \A n \in 1 .. len - 1 : r[n] = q[n + 1]
  BY HeadTailProperties, LenProperties, EmptySeq
<1> HIDE DEF r, len
<1>2. ASSUME NEW n \in DOMAIN r, r[n].site = site, \A m \in DOMAIN r : m > n => r[m].site # site
      PROVE  r[n].populations = last
  <2>1. n + 1 \in DOMAIN q /\ q[n + 1] = r[n]
    BY <1>1
  <2>2. ASSUME NEW m \in DOMAIN q, m > n + 1 PROVE q[m].site # site
    <3>1. m - 1 \in DOMAIN r /\ m - 1 > n /\ r[m - 1] = q[m]
      BY <1>1, <2>2
    <3> QED
      BY <1>2, <3>1
  <2>3. q[n + 1].site = site
    BY <1>2, <2>1
  <2>4. q[n + 1].populations = last
    BY <2>1, <2>2, <2>3 DEF Current
  <2> QED
    BY <2>1, <2>4
<1>3. ASSUME NoneIn(r, site) PROVE \A m \in DOMAIN q : m > 1 => q[m].site # site
  <2>1. ASSUME NEW m \in DOMAIN q, m > 1 PROVE q[m].site # site
    <3>1. m - 1 \in DOMAIN r /\ r[m - 1] = q[m]
      BY <1>1, <2>1
    <3> QED
      BY <1>3, <3>1 DEF NoneIn
  <2> QED
    BY <2>1
<1>4. CASE Head(q).site = site
  <2>1. ASSUME NoneIn(r, site) PROVE b.inbox[Len(b.inbox)] = last
    <3>1. 1 \in DOMAIN q /\ q[1].site = site
      BY <1>1, <1>4
    <3>2. q[1].populations = last
      BY <1>3, <2>1, <3>1 DEF Current
    <3> QED
      BY <1>1, <1>4, <3>2
  <2> QED
    BY <1>2, <1>4, <2>1 DEF Current, r
<1>5. CASE Head(q).site # site
  <2>1. ASSUME NoneIn(r, site) PROVE NoneIn(q, site)
    <3>1. \A m \in DOMAIN q : m = 1 \/ m > 1
      BY <1>1
    <3> QED
      BY <1>1, <1>3, <1>5, <2>1, <3>1 DEF NoneIn
  <2> QED
    BY <1>2, <1>5, <2>1 DEF Current, r
<1> QED
  BY <1>4, <1>5

LEMMA ControlRound ==
    ASSUME Inv, Rounds, UpToDate, Control
    PROVE  Rounds' /\ UpToDate'
<1> DEFINE visit == [site : Sites, populations : Populations]
           s == Head(site_visits).site
           populations == Head(site_visits).populations
<1>1. /\ site_visits \in Seq(visit) /\ site_visits # <<>>
      /\ site_visits' = Tail(site_visits)
      /\ UNCHANGED <<target, authority, latest, losses>>
  BY DEF Inv, TypeOK, Control
<1>2. Head(site_visits) \in visit
  <2> HIDE DEF visit
  <2> QED
    BY <1>1, HeadTailProperties
<1>3. s \in Sites /\ populations \in Populations
  BY <1>2
\* What becomes of the actor of the site.
<1>4. ASSUME NEW b, actor' = [actor EXCEPT ![s] = b], Round(b, target[s]),
             losses[s] = 0 => b.inbox # <<>> /\ b.inbox[Len(b.inbox)] = populations
      PROVE  Rounds' /\ UpToDate'
  <2>1. \A t \in Sites : actor'[t] = IF t = s THEN b ELSE actor[t]
    BY <1>4 DEF Inv, TypeOK
  <2>2. Rounds'
    <3> HIDE DEF s
    <3>1. ASSUME NEW t \in Sites PROVE Round(actor'[t], target[t])
      BY <1>4, <2>1 DEF Rounds
    <3> QED
      BY <1>1, <3>1 DEF Rounds
  <2>3. ASSUME NEW t \in Sites, losses[t] = 0
        PROVE  Current(Tail(site_visits), actor'[t], latest[t], t)
    <3>1. Current(site_visits, actor[t], latest[t], t)
      BY <2>3 DEF UpToDate
    <3>2. CASE t = s
      <4>1. actor'[t] = b
        BY <2>1, <3>2
      <4>2. b.inbox # <<>> /\ b.inbox[Len(b.inbox)] = populations
        BY <1>4, <2>3, <3>2
      <4> QED
        BY <1>1, <3>1, <3>2, <4>1, <4>2, IsPassedOn
    <3>3. CASE t # s
      <4>1. actor'[t] = actor[t]
        BY <2>1, <3>3
      <4> QED
        BY <1>1, <3>1, <3>3, <4>1, IsPassedOn
    <3> QED
      BY <3>2, <3>3
  <2> QED
    BY <1>1, <2>2, <2>3 DEF UpToDate
<1> HIDE DEF s, populations
<1>5. /\ actor[s] \in Actor /\ actor = [actor EXCEPT ![s] = actor[s]]
      /\ Round(actor[s], target[s])
  BY <1>3 DEF Inv, TypeOK, Rounds
<1>6. CASE s \notin authority_servers
  <2> DEFINE b == [NewActor EXCEPT !.inbox = <<populations>>]
  <2>1. /\ b.policies = NoPolicies /\ b.state = "first" /\ b.inbox = <<populations>>
        /\ b.inbox # <<>> /\ b.inbox[Len(b.inbox)] = populations
    BY DEF NewActor
  <2>2. actor' = [actor EXCEPT ![s] = b]
    BY <1>6 DEF Control, s, populations
  <2> HIDE DEF b
  <2>3. Round(b, target[s])
    BY <2>1 DEF Round, NoPolicies
  <2> QED
    BY <1>4, <2>1, <2>2, <2>3
<1>7. CASE s \in authority_servers /\ actor[s].state = "done"
  <2>1. UNCHANGED actor
    BY <1>7 DEF Control, s
  <2>2. losses[s] # 0
    BY <1>3, <1>7, SiteTypes DEF SiteInv
  <2> QED
    BY <1>4, <1>5, <2>1, <2>2
<1>8. CASE s \in authority_servers /\ actor[s].state # "done"
  <2> DEFINE a == actor[s]
             b == [actor[s] EXCEPT !.inbox = Append(@, populations)]
  <2>1. a.inbox \in Seq(Populations)
    BY <1>5 DEF Actor
  <2>2. /\ Append(a.inbox, populations) # <<>>
        /\ Append(a.inbox, populations)[Len(Append(a.inbox, populations))] = populations
    BY <1>3, <2>1, AppendProperties, LenProperties
  <2>3. /\ b.state = a.state /\ b.policies = a.policies /\ b.todo = a.todo
        /\ b.species = a.species /\ b.action = a.action /\ b.populations = a.populations
        /\ b.inbox = Append(a.inbox, populations)
    BY <1>5 DEF Actor
  <2>4. actor' = [actor EXCEPT ![s] = b]
    BY <1>8 DEF Control, s, populations
  <2> HIDE DEF b
  <2>5. Round(b, target[s])
    BY <1>5, <2>3 DEF Round
  <2> QED
    BY <1>4, <2>2, <2>3, <2>4, <2>5
<1> QED
  BY <1>6, <1>7, <1>8

LEMMA RoundsGoOn ==
    ASSUME Inv, Rounds, UpToDate, [Next]_vars
    PROVE  Rounds' /\ UpToDate'
<1>1. ASSUME NEW v \in Visitors, Accept(v) \/ Hello(v) \/ VisitorEnds(v)
      PROVE  Rounds' /\ UpToDate'
  <2>1. UNCHANGED <<toActors, site_visits, latest>>
    BY <1>1 DEF Accept, Hello, VisitorEnds
  <2> QED
    BY <2>1, VisitorRound
<1>2. ASSUME NEW v \in Visitors, NEW s \in Sites, NEW populations \in Reports,
             Visit(v, s, populations)
      PROVE  Rounds' /\ UpToDate'
  BY <1>2, VisitRound
<1>3. CASE Control
  BY <1>3, ControlRound
<1>4. ASSUME NEW s \in Sites, Receive(s) PROVE Rounds' /\ UpToDate'
  BY <1>4, ReceiveRound
<1>5. ASSUME NEW s \in Sites, Connect(s) PROVE Rounds' /\ UpToDate'
  BY <1>5, ConnectRound
<1>6. ASSUME NEW s \in Sites, NEW species \in Species, Adjust(s, species)
      PROVE  Rounds' /\ UpToDate'
  BY <1>6, AdjustRound
<1>7. ASSUME NEW s \in Sites, Adjusted(s) PROVE Rounds' /\ UpToDate'
  BY <1>7, AdjustedRound
<1>8. ASSUME NEW s \in Sites, Deleted(s) PROVE Rounds' /\ UpToDate'
  BY <1>8, DeletedRound
<1>9. ASSUME NEW s \in Sites, Created(s) PROVE Rounds' /\ UpToDate'
  BY <1>9, CreatedRound
<1>10. ASSUME NEW s \in Sites, ConnectFails(s) PROVE Rounds' /\ UpToDate'
  BY <1>10, ConnectFailsRound
<1>11. ASSUME NEW s \in Sites, Lose(s) PROVE Rounds' /\ UpToDate'
  BY <1>11, LoseRound
<1>12. CASE UNCHANGED vars
  <2>1. UNCHANGED toActors /\ UNCHANGED <<site_visits, latest>>
    BY <1>12 DEF vars, toActors
  <2> QED
    BY <2>1, VisitorRound
<1> QED
  BY <1>1, <1>2, <1>3, <1>4, <1>5, <1>6, <1>7, <1>8, <1>9, <1>10, <1>11, <1>12
     DEF Next, Act

LEMMA RoundsBegin ==
    ASSUME Init
    PROVE  Rounds /\ UpToDate
<1> DEFINE a == [NewActor EXCEPT !.state = "none"]
<1>1. a.policies = NoPolicies /\ a.state = "none" /\ a.inbox = <<>>
  BY DEF NewActor
<1>2. \A s \in Sites : actor[s] = a
  BY DEF Init
<1>3. site_visits = <<>>
  BY DEF Init
<1> HIDE DEF a
<1>4. \A s \in Sites : Round(a, target[s])
  BY <1>1 DEF Round, NoPolicies
<1>5. \A s \in Sites : Current(<<>>, a, latest[s], s)
  BY <1>1 DEF Current
<1> QED
  BY <1>2, <1>3, <1>4, <1>5 DEF Rounds, UpToDate

\* A site at rest of which no connection was lost is advised what its last visit
\* calls for: what the actor knows of is what the round left, and it is there.
LEMMA RestIsSettled ==
    ASSUME Inv, OneAtATime, Rounds, UpToDate, NEW s \in Sites, Idle(s), losses[s] = 0
    PROVE  IsSettled(s)
<1> DEFINE a == actor[s]
           auth == authority[s]
           wants(sp) == Wanted(s, latest[s], sp)
<1>1. a \in Actor /\ a.state = "next" /\ auth \in SUBSET Policy /\ DOMAIN target[s] \subseteq Species
  BY SiteTypes, TargetSpecies DEF Idle
<1>2. a.populations = latest[s]
  <2>1. Current(site_visits, a, latest[s], s) /\ NoneIn(site_visits, s) /\ a.inbox = <<>>
    BY DEF UpToDate, Idle, NoneIn
  <2> QED
    BY <1>1, <2>1 DEF Current
<1>3. Round(a, target[s])
  BY DEF Rounds
<1>4. \A sp \in Species : /\ sp \notin DOMAIN target[s] => a.policies[sp] = NoPolicy
                          /\ sp \in DOMAIN target[s] => a.policies[sp].action = wants(sp)
  BY <1>1, <1>2, <1>3, WantedIsAdvice DEF Round
<1>5. \A sp \in Species : a.policies[sp] # NoPolicy <=> a.policies[sp].action # NoAction
  BY <1>1, SiteTypes, KnownAction
<1>6. ASSUME NEW p \in auth
      PROVE  /\ p.species \in DOMAIN target[s] /\ wants(p.species) # NoAction
             /\ p.action = wants(p.species)
  <2>1. p.species \in Species
    BY <1>1 DEF Policy
  <2>2. a.policies[p.species] # NoPolicy /\ a.policies[p.species].id = p.id
    BY <1>1, <1>6, SiteTypes DEF SiteInv
  <2> DEFINE known == [id |-> a.policies[p.species].id, species |-> p.species,
                       action |-> a.policies[p.species].action]
  <2>3. known \in auth /\ known.id = p.id /\ known.action = a.policies[p.species].action
    BY <2>1, <2>2, SiteTypes DEF SiteInv
  <2> HIDE DEF known
  <2>4. known = p
    BY <2>3, SiteTypes DEF SiteInv
  <2> QED
    BY <1>4, <1>5, <2>1, <2>2, <2>3, <2>4
<1>7. ASSUME NEW sp \in DOMAIN target[s], wants(sp) # NoAction
      PROVE  \E p \in auth : p.species = sp /\ p.action = wants(sp)
  <2>1. sp \in Species
    BY <1>1
  <2> DEFINE known == [id |-> a.policies[sp].id, species |-> sp, action |-> a.policies[sp].action]
  <2>2. known \in auth
    BY <1>4, <1>5, <1>7, <2>1, SiteTypes DEF SiteInv
  <2>3. known.species = sp /\ known.action = wants(sp)
    BY <1>4, <2>1
  <2> HIDE DEF known
  <2> QED
    BY <2>2, <2>3
<1>8. \A p, q \in auth : p.species = q.species => p = q
  BY DEF OneAtATime
<1>9. {<<p.species, p.action>> : p \in auth} =
         {<<sp, wants(sp)>> : sp \in {t \in DOMAIN target[s] : wants(t) # NoAction}}
  <2> HIDE DEF wants
  <2> QED
    BY <1>6, <1>7
<1> QED
  BY <1>8, <1>9 DEF IsSettled

\* As long as no connection of a site is lost, the actor advises what the last visit
\* calls for, whatever visits came while it was busy with an earlier one
\* (authority_server.rs, run and adjust_policies; controller.rs, run).
THEOREM SettlesAsCalledFor == Spec => []Settles
<1>1. Init => Rounds /\ UpToDate
  BY RoundsBegin
<1>2. Inv /\ Rounds /\ UpToDate /\ [Next]_vars => Rounds' /\ UpToDate'
  BY RoundsGoOn
<1>3. Inv /\ OneAtATime /\ Rounds /\ UpToDate => Settles
  BY RestIsSettled DEF Settles
<1> QED
  BY <1>1, <1>2, <1>3, Invariance, SinglePolicies, PTL DEF Spec

=============================================================================
