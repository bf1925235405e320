------------------------------- MODULE Deployment -------------------------------
(***************************************************************************)
(* scripts/deploy.ts: a run deploys one perpetual with all around it, sets *)
(* it up by transactions it does not wait for, and overwrites the file     *)
(* from which servers and clients load the addresses (contracts.ts) when   *)
(* they start.  Every start of the container deploys once more.            *)
(*                                                                         *)
(* A contract is named by the run that deployed it and by its name.  Any   *)
(* step of a run may fail, which ends the run where it is.                 *)
(***************************************************************************)
EXTENDS Sequences, SequencesExt, FiniteSets, Naturals

CONSTANTS
    Run,        \* runs of deploy(true), of one container or of several
    Network,    \* chain ids
    Dev,        \* Network.Dev
    NetworkOf,  \* the chain each run is configured for
    Client      \* processes that load the file for a chain: the server, the demo

ASSUME DeploymentAssumption ==
    /\ Dev \in Network
    /\ NetworkOf \in [Run -> Network]

VARIABLES
    at,         \* per run, how many steps of the script it has done
    ended,      \* whether a run is running, has saved, or has failed
    pool,       \* per run, the calls it has sent and that are not mined yet
    deployed,   \* contracts on their chains
    state,      \* per run, what calls have set up around its PerpetualProxy
    file,       \* deployments/deployments.json, by network
    client      \* per client, the book it has loaded and how far it got

deploymentVars == <<at, ended, pool, deployed, state, file, client>>

Deploy(name) == [do |-> "deploy", name |-> name]
Invoke(method, name) == [do |-> "call", method |-> method, name |-> name]

-----------------------------------------------------------------------------
(* The script                                                              *)

DeployTestContracts(network) ==
    (IF network = Dev THEN <<Deploy("Test_P1Funder")>> ELSE <<>>)
      \o <<Deploy("WETH9"), Deploy("Test_ChainlinkAggregator"),
           Invoke("setAnswer", "Test_ChainlinkAggregator")>>

DeployProtocol == <<Deploy("PerpetualV1"), Deploy("PerpetualProxy")>>

DeployOracles == <<Deploy("P1FundingOracle"), Deploy("P1ChainlinkOracle")>>

Traders == <<"P1Orders", "P1InverseOrders", "P1Deleveraging", "P1Liquidation">>
Proxies == <<"P1CurrencyConverterProxy", "P1LiquidatorProxy", "P1WethProxy">>
GlobalOperators == Traders \o Proxies

DeployTraders ==
    [i \in DOMAIN GlobalOperators |-> Deploy(GlobalOperators[i])]
      \o [i \in DOMAIN Proxies |-> Invoke("approveMaximumOnPerpetual", Proxies[i])]
      \o [i \in DOMAIN GlobalOperators |-> Invoke("setGlobalOperator", GlobalOperators[i])]

\* deploy, up to its save.
Script(network) ==
    DeployTestContracts(network) \o DeployProtocol \o DeployOracles
      \o <<Deploy("MockToken"), Invoke("initializeV1", "PerpetualProxy")>>
      \o DeployTraders

Step(r) == Script(NetworkOf[r])[at[r] + 1]
Deployments(network) == {i \in DOMAIN Script(network) : Script(network)[i].do = "deploy"}

\* Fault: the margin token is entered as addresses.ts and the contract name it.
NamedAsDeployed(network) ==
    LET names == {Script(network)[i].name : i \in Deployments(network)}
    IN  [entry \in names \ {"P1InverseOrders"} |-> entry]

\* What the address book holds once all functions have filled in their part.
AddressBook(network) ==
    LET names == {Script(network)[i].name : i \in Deployments(network)}
        entries == (names \ {"MockToken", "P1InverseOrders"}) \cup {"MarginToken"}
    IN  [entry \in entries |-> IF entry = "MarginToken" THEN "MockToken" ELSE entry]

Addresses(r) ==
    LET book == AddressBook(NetworkOf[r])
    IN  [entry \in DOMAIN book |-> <<r, book[entry]>>]

\* The token, the price oracle and the funder that initializeV1 is called with.
Token(r) == <<r, "MockToken">>
Oracle(r) == <<r, "P1ChainlinkOracle">>
Funder(r) == <<r, IF NetworkOf[r] = Dev THEN "Test_P1Funder" ELSE "P1FundingOracle">>

-----------------------------------------------------------------------------
Nothing == [answered |-> FALSE, initialized |-> <<>>, approved |-> {}, operators |-> {}]
NoBook == [entry \in {} |-> <<>>]
Idle == [stage |-> "stopped", book |-> NoBook]

DeploymentInit ==
    /\ at = [r \in Run |-> 0]
    /\ ended = [r \in Run |-> "running"]
    /\ pool = [r \in Run |-> <<>>]
    /\ deployed = {}
    /\ state = [r \in Run |-> Nothing]
    /\ file = [network \in {} |-> NoBook]
    /\ client = [c \in Client |-> Idle]

Running(r) == ended[r] = "running" /\ at[r] < Len(Script(NetworkOf[r]))

\* deployContract: sends the deployment and waits for it, and so for all the
\* calls its account has sent before.
DeployContract(r) ==
    /\ Running(r) /\ Step(r).do = "deploy" /\ pool[r] = <<>>
    /\ deployed' = deployed \cup {<<r, Step(r).name>>}
    /\ at' = [at EXCEPT ![r] = @ + 1]
    /\ UNCHANGED <<ended, pool, state, file, client>>

\* Whether the chain takes a call.
Succeeds(r, call) ==
    CASE call.method = "initializeV1" -> state[r].initialized = <<>>
      [] call.method = "approveMaximumOnPerpetual" -> state[r].initialized # <<>>
      [] OTHER -> TRUE

\* Fault: a call takes the nonce of the one before it.
Replaced(r) == <<Step(r)>>

\* The calls in flight, by nonce, with one more.
Queued(r) == Append(pool[r], Step(r))

\* A call is estimated and sent; the script does not wait for it to be mined.
SendCall(r) ==
    /\ Running(r) /\ Step(r).do = "call" /\ Succeeds(r, Step(r))
    /\ pool' = [pool EXCEPT ![r] = Queued(r)]
    /\ at' = [at EXCEPT ![r] = @ + 1]
    /\ UNCHANGED <<ended, deployed, state, file, client>>

\* What a call that is mined does.
Effect(r, call) ==
    CASE call.method = "setAnswer" -> [state[r] EXCEPT !.answered = TRUE]
      [] call.method = "initializeV1" ->
           [state[r] EXCEPT !.initialized = <<Token(r), Oracle(r), Funder(r)>>]
      [] call.method = "approveMaximumOnPerpetual" ->
           [state[r] EXCEPT !.approved = @ \cup {call.name}]
      [] call.method = "setGlobalOperator" ->
           [state[r] EXCEPT !.operators = @ \cup {call.name}]

\* Calls are mined in the order of their nonces, whatever has become of the run.
Mine(r) ==
    /\ pool[r] # <<>>
    /\ state' = [state EXCEPT ![r] =
         IF Succeeds(r, Head(pool[r])) THEN Effect(r, Head(pool[r])) ELSE @]
    /\ pool' = [pool EXCEPT ![r] = Tail(@)]
    /\ UNCHANGED <<at, ended, deployed, file, client>>

\* A step fails, or the process is killed.
Fail(r) ==
    /\ ended[r] = "running"
    /\ ended' = [ended EXCEPT ![r] = "failed"]
    /\ UNCHANGED <<at, pool, deployed, state, file, client>>

\* The deployments of one run: this network and no other.
Saved(r) == [network \in {NetworkOf[r]} |-> Addresses(r)]

\* saveDeploymentsAddress overwrites the file.
Save(r) ==
    /\ ended[r] = "running" /\ at[r] = Len(Script(NetworkOf[r]))
    /\ file' = Saved(r)
    /\ ended' = [ended EXCEPT ![r] = "saved"]
    /\ UNCHANGED <<at, pool, deployed, state, client>>

\* What contracts.ts takes from the book.
Loaded == {"P1Orders", "P1Liquidation", "P1Deleveraging", "PerpetualV1", "PerpetualProxy",
           "MarginToken", "P1ChainlinkOracle", "P1FundingOracle", "P1LiquidatorProxy"}

\* new Contracts: the book of a chain that the file does not have is undefined,
\* and reading an address of it throws.
Load(c, network) ==
    /\ client[c].stage = "stopped"
    /\ client' = [client EXCEPT ![c] =
         IF network \notin DOMAIN file THEN [stage |-> "failed", book |-> NoBook]
         ELSE [stage |-> "loaded",
               book |-> [entry \in DOMAIN file[network] \cap Loaded |-> file[network][entry]]]]
    /\ UNCHANGED <<at, ended, pool, deployed, state, file>>

Stop(c) ==
    /\ client' = [client EXCEPT ![c] = Idle]
    /\ UNCHANGED <<at, ended, pool, deployed, state, file>>

DeploymentNext ==
    \/ \E r \in Run : DeployContract(r) \/ SendCall(r) \/ Mine(r) \/ Fail(r) \/ Save(r)
    \/ \E c \in Client :
          \/ \E network \in Network : Load(c, network)
          \/ Stop(c)

\* The chain mines what has been sent.
DeploymentSpec ==
    /\ DeploymentInit /\ [][DeploymentNext]_deploymentVars
    /\ \A r \in Run : WF_deploymentVars(Mine(r))

-----------------------------------------------------------------------------
(* Properties                                                              *)

\* Whether a book has all that contracts.ts takes from it, all of it exists and on
\* one chain, and the perpetual among it is initialized with the very token and price
\* oracle that the book names.  The funder in force is the book's P1FundingOracle on
\* any chain but Dev.  There it is Test_P1Funder (helpers.ts:280), and the
\* P1FundingOracle that clients take is one that no perpetual asks.
Ready(book) ==
    /\ Loaded \subseteq DOMAIN book
    /\ \A entry \in DOMAIN book : book[entry] \in deployed
    /\ LET run == book["PerpetualProxy"][1]
           funder == IF NetworkOf[run] = Dev THEN <<run, "Test_P1Funder">>
                     ELSE book["P1FundingOracle"]
       IN  /\ \A entry \in DOMAIN book : NetworkOf[book[entry][1]] = NetworkOf[run]
           /\ state[run].answered
           /\ state[run].initialized =
                <<book["MarginToken"], book["P1ChainlinkOracle"], funder>>
           /\ funder \in deployed

\* A book that was saved is of the chain it is filed under and in force (Ready),
\* although the script waits for none of its calls, and stays so for those who have
\* loaded it while others deploy and save.  It is not the book of all contracts that
\* helpers.ts:303 announces: deployTraders does not enter P1InverseOrders.
SavedIsReady ==
    /\ \A n \in DOMAIN file :
          Ready(file[n]) /\ NetworkOf[file[n]["PerpetualProxy"][1]] = n
    /\ \A c \in Client : client[c].book # NoBook => Ready(client[c].book)

\* The approvals and the operators may still be missing when the file is saved,
\* but not for good: trades of a server that has loaded it settle in the end.
TradersGetToWork ==
    \A r \in Run :
        ended[r] = "saved" ~> /\ state[r].operators = ToSet(GlobalOperators)
                              /\ state[r].approved = ToSet(Proxies)

=============================================================================
