---------------------------- MODULE PortalContracts ----------------------------
(***************************************************************************)
(* What the transactions of a deployment do to the contracts of one chain. *)
(* A chain is a function from addresses to contracts; the address of the   *)
(* n-th contract of a name that was deployed is <<name, n>>.  A contract   *)
(* is a proxy and its storage, or a contract of its own; its slots are the *)
(* settings and mappings that were written.                                *)
(*                                                                         *)
(* All transactions are sent by one account, the Deployer, who may give    *)
(* the contracts to a new owner in the end.                                *)
(***************************************************************************)
EXTENDS Naturals, Sequences, FiniteSets

\* The token types, in the order in which the scripts go through them.
TypeList == <<"ERC20", "ERC721", "MintableERC721", "ERC1155", "Ether">>
TokenType == {TypeList[i] : i \in DOMAIN TypeList}

\* Names of contracts.
RootManager       == <<"RootChainManager", "code">>
RootManagerProxy  == <<"RootChainManager", "proxy">>
ChildManager      == <<"ChildChainManager", "code">>
ChildManagerProxy == <<"ChildChainManager", "proxy">>
StateSender       == <<"DummyStateSender", "code">>
Predicate(t)      == <<t, "predicate">>
PredicateProxy(t) == <<t, "predicateProxy">>
RootToken(t)      == <<t, "rootToken">>
ChildToken(t)     == <<t, "childToken">>

Proxies == {RootManagerProxy, ChildManagerProxy} \cup {PredicateProxy(t) : t \in TokenType}

\* Addresses that no script deploys.
External(who)   == << <<"external", who>>, 0>>
None            == External("zero")
Deployer        == External("deployer")
NewOwner        == External("newOwner")
EtherAddress    == External("ether")
PlasmaRootChain == External("plasmaRootChain")
StateReceiver   == External("stateReceiver")

-----------------------------------------------------------------------------
\* A function with one value set, and with all those of another.
Put(f, x, v) == [y \in DOMAIN f \cup {x} |-> IF y = x THEN v ELSE f[y]]

Over(new, old) ==
  [y \in DOMAIN new \cup DOMAIN old |-> IF y \in DOMAIN new THEN new[y] ELSE old[y]]

Slot(contract, key) ==
  IF key \in DOMAIN contract.slots THEN contract.slots[key] ELSE None

Written(contract, key, value) == [contract EXCEPT !.slots = Put(@, key, value)]

Has(contract, role) == <<role, Deployer>> \in contract.roles

\* The roles that initialize gives to its argument.
InitialRoles(name) ==
  {<<role, Deployer>> : role \in
     CASE name = RootManagerProxy  -> {"DEFAULT_ADMIN", "MAPPER"}
       [] name = ChildManagerProxy -> {"DEFAULT_ADMIN", "MAPPER", "STATE_SYNCER"}
       [] OTHER                    -> {"DEFAULT_ADMIN", "MANAGER"}}

\* The roles that the constructor gives.  The last argument of a child token's
\* is the manager that may deposit.
ConstructorRoles(name, args) ==
  CASE name = RootToken("MintableERC721") ->
         {<<"DEFAULT_ADMIN", Deployer>>, <<"PREDICATE", Deployer>>}
    [] name \in {ChildToken(t) : t \in TokenType} ->
         {<<"DEFAULT_ADMIN", Deployer>>, <<"DEPOSITOR", args[1]>>}
    [] OTHER -> {}

\* A new contract.  Every proxy is constructed with no implementation.
Constructed(name, args) ==
  [proxyOwner |-> IF name \in Proxies THEN Deployer ELSE None,
   impl |-> None, inited |-> FALSE, roles |-> ConstructorRoles(name, args), slots |-> << >>]

NextAddress(chain, name) == <<name, Cardinality({a \in DOMAIN chain : a[1] = name}) + 1>>

-----------------------------------------------------------------------------
\* The root manager's _mapToken with the check of mapToken before it: the pair
\* must be new, its type registered, and there must be a sender for the sync.
RootMaps(contract, r, c, t) ==
  /\ Slot(contract, <<"rootToChildToken", r>>) = None
  /\ Slot(contract, <<"childToRootToken", c>>) = None
  /\ Slot(contract, <<"typeToPredicate", t>>) # None
  /\ Slot(contract, <<"stateSender">>) # None

RootMapped(contract, r, c, t) ==
  Written(Written(Written(contract, <<"rootToChildToken", r>>, c),
                  <<"childToRootToken", c>>, r),
          <<"tokenToType", r>>, t)

\* A plausible bug, not the code: it makes the check of the root manager.
ChildMapsNewOnly(contract, r, c) ==
  /\ Slot(contract, <<"rootToChildToken", r>>) = None
  /\ Slot(contract, <<"childToRootToken", c>>) = None

\* The child manager's mapToken does not look whether either is mapped.
ChildMaps(contract, r, c) == TRUE

\* The child manager's _mapToken: old partners are cleaned up first.
ChildMapped(contract, r, c) ==
  LET oldChild == Slot(contract, <<"rootToChildToken", r>>)
      oldRoot  == Slot(contract, <<"childToRootToken", c>>)
      cleaned  == Written(Written(contract, <<"rootToChildToken", oldRoot>>, None),
                          <<"childToRootToken", oldChild>>, None)
  IN  Written(Written(cleaned, <<"rootToChildToken", r>>, c), <<"childToRootToken", c>>, r)

\* Whether a call of the deployer goes through, and what it leaves.
Passes(contract, method, args) ==
  CASE method = "updateAndCall"     ->
         contract.proxyOwner = Deployer /\ args[1] # None /\ ~contract.inited
    [] method = "transferProxyOwnership" -> contract.proxyOwner = Deployer
    [] method \in {"grantRole", "revokeRole"} -> Has(contract, "DEFAULT_ADMIN")
    [] method = "setStateSender"    -> Has(contract, "DEFAULT_ADMIN")
    [] method = "setChildChainManagerAddress" ->
         Has(contract, "DEFAULT_ADMIN") /\ args[1] # None
    [] method = "setCheckpointManager" -> Has(contract, "DEFAULT_ADMIN")
    [] method = "registerPredicate" -> Has(contract, "MAPPER")
    [] method = "mapRootToken"      ->
         Has(contract, "MAPPER") /\ RootMaps(contract, args[1], args[2], args[3])
    [] method = "mapChildToken"     ->
         Has(contract, "MAPPER") /\ ChildMaps(contract, args[1], args[2])

Result(name, contract, method, args) ==
  CASE method = "updateAndCall"     ->
         [contract EXCEPT !.impl = args[1], !.inited = TRUE, !.roles = InitialRoles(name)]
    [] method = "transferProxyOwnership" -> [contract EXCEPT !.proxyOwner = args[1]]
    [] method = "grantRole"         -> [contract EXCEPT !.roles = @ \cup {args}]
    [] method = "revokeRole"        -> [contract EXCEPT !.roles = @ \ {args}]
    [] method = "setStateSender"    -> Written(contract, <<"stateSender">>, args[1])
    [] method = "setChildChainManagerAddress" ->
         Written(contract, <<"childChainManagerAddress">>, args[1])
    [] method = "setCheckpointManager" ->
         Written(contract, <<"checkpointManager">>, args[1])
    [] method = "registerPredicate" -> Written(contract, <<"typeToPredicate", args[1]>>, args[2])
    [] method = "mapRootToken"      -> RootMapped(contract, args[1], args[2], args[3])
    [] method = "mapChildToken"     -> ChildMapped(contract, args[1], args[2])

\* A proxy with no implementation forwards to address(0), which has no code: the
\* transaction succeeds and nothing happens.
Forwards(name, contract, method) ==
  /\ name \in Proxies /\ contract.impl = None
  /\ method \notin {"updateAndCall", "transferProxyOwnership"}

Reaches(chain, at, method) == at \in DOMAIN chain /\ ~Forwards(at[1], chain[at], method)

CallPasses(chain, at, method, args) ==
  Reaches(chain, at, method) => Passes(chain[at], method, args)

AfterCall(chain, at, method, args) ==
  IF Reaches(chain, at, method)
  THEN [chain EXCEPT ![at] = Result(at[1], @, method, args)]
  ELSE chain

AfterDeploy(chain, name, args) == Put(chain, NextAddress(chain, name), Constructed(name, args))
=============================================================================
