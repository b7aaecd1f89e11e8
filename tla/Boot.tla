-------------------------------- MODULE Boot --------------------------------
(***************************************************************************)
(* What the server of api/ may be started with: the settings it reads from *)
(* an environment, what the process builds from them, and the guards it    *)
(* runs over both before it serves anything.  No state: the module         *)
(* Settlement runs the boot and serves from what it leaves.                *)
(*                                                                         *)
(* An environment is a function from the names that are set and not empty; *)
(* a URL is a host and a path; of the pool route's description only the    *)
(* clauses it carries are kept.  Networks are "test", whose USDC is "usdc" *)
(* and whose ledger JoinGroups is, and "main", whose USDC is "other".      *)
(***************************************************************************)
EXTENDS Integers, FiniteSets, TLC

CONSTANTS
  App,     \* the application account of application 1
  Garbage  \* text that does not parse as what the setting should be

KnownAssets == [test |-> "usdc", main |-> "other"]

ApplicationAddress(id) == IF id = 1 THEN App ELSE "another application"

Addresses == {"app_account", "fee_payer", "treasury", "verifier"}

Clauses == {"join call", "sha256", "refunded", "Machine-verified",
            "no arbitration", "One seat per address"}

Numbers == {"app_id", "usdc_asa_id", "index_share_price_micro", "index_seats",
            "index_agreement_id", "price_micro_usdc", "funding_window_seconds",
            "price_hook_timeout_seconds", "production_app_id"}

\* The names with no default.
Required(env) ==
  {"usdc_asa_id", "app_id"} \cup
  (IF "pin_route_enabled" \in DOMAIN env /\ env.pin_route_enabled = TRUE
     THEN {"price_micro_usdc"} ELSE {})

Defaults(env) ==
  LET host == IF "public_host" \in DOMAIN env THEN env.public_host ELSE "" IN
  [network |-> "test", app_account |-> "", fee_payer |-> "", treasury |-> "",
   verifier |-> "", admin_mnemonic |-> "", public_host |-> host,
   pin_resource_url |-> [host |-> host, path |-> "/pin"],
   index_resource_url |-> [host |-> host, path |-> "/index"],
   index_share_price_micro |-> 5000000, index_seats |-> 5,
   index_agreement_id |-> 0, price_micro_usdc |-> 0,
   funding_window_seconds |-> 120, price_hook_timeout_seconds |-> 60,
   production_app_id |-> 0, pin_route_enabled |-> FALSE,
   web_dist_dir |-> "absent", index_description |-> Clauses]

\* A required name missing, a number or a switch that is not one.
Loadable(env) ==
  /\ Required(env) \subseteq DOMAIN env
  /\ \A n \in Numbers \cap DOMAIN env : env[n] # Garbage
  /\ "pin_route_enabled" \in DOMAIN env => env.pin_route_enabled \in BOOLEAN

LoadSettings(env) == env @@ Defaults(env)

-----------------------------------------------------------------------------
(* The guards, each a condition the settings must meet.                    *)

NetworkAsset(s) ==
  /\ s.network \in DOMAIN KnownAssets
  /\ s.usdc_asa_id = KnownAssets[s.network]

PinRoute(s) == ~(s.pin_route_enabled /\ s.network = "main")

SigningKey(s) == s.admin_mnemonic # "" => s.pin_route_enabled

BeforeAssembly(s) == NetworkAsset(s) /\ PinRoute(s) /\ SigningKey(s)

\* What build_deps leaves in the process: decoding no mnemonic raises.
Assembles(s) == s.pin_route_enabled => s.admin_mnemonic # ""

Held(s) == IF s.pin_route_enabled THEN {"key", "store"} ELSE {}

\* Not checking that the account configured is the application's own.
NetworkApplication_AnyAccount(s) ==
  /\ s.app_id > 0
  /\ s.production_app_id = s.app_id => s.network = "main"

NetworkApplication(s) ==
  /\ s.app_id > 0
  /\ s.app_account = ApplicationAddress(s.app_id)
  /\ s.production_app_id = s.app_id => s.network = "main"

ValidAddresses(s) == \A name \in Addresses : s[name] \notin {"", Garbage}

\* `receives` are the accounts and assets of this ledger that take a transfer.
AppAccountReady(s, receives) == <<s.app_account, s.usdc_asa_id>> \in receives

Resources(s) ==
  {s.index_resource_url} \cup
  (IF s.pin_route_enabled THEN {s.pin_resource_url} ELSE {})

SecureHosts == {"https://earnest", "https://elsewhere"}

ResourcesOnHost(s) ==
  \A r \in Resources(s) : r.host \in SecureHosts /\ r.host = s.public_host

WholeBundle(s) == s.web_dist_dir \in {"absent", "whole"}

Described(s) == Clauses \subseteq s.index_description

-----------------------------------------------------------------------------
(* The route table, and the guards over it.                                *)

\* The price of one seat in a pool, and the identity it is paid under.
QuoteFor(s, pool, price) ==
  [network |-> s.network, asset |-> s.usdc_asa_id, payTo |-> s.app_account,
   amount |-> price, pool |-> pool]

Route(s, resource, sample) ==
  [resource |-> resource, payTo |-> s.app_account, sample |-> sample,
   maxTimeout |-> s.funding_window_seconds,
   hookTimeout |-> s.price_hook_timeout_seconds,
   tag |-> "x402-global-challenge", feePayer |-> s.fee_payer]

Routes(s) ==
  {Route(s, s.index_resource_url, QuoteFor(s, 0, s.index_share_price_micro))} \cup
  (IF s.pin_route_enabled
     THEN {Route(s, s.pin_resource_url, QuoteFor(s, 0, s.price_micro_usdc))} ELSE {})

SoundRoutes(s, routes) ==
  \A route \in routes :
    /\ route.resource \in Resources(s)
    /\ route.payTo # ""
    /\ route.hookTimeout # 0
    /\ route.hookTimeout < s.funding_window_seconds
    /\ route.maxTimeout = s.funding_window_seconds
    /\ route.tag = "x402-global-challenge"
    /\ route.feePayer # ""

\* verify_startup: every guard, over what this ledger says of the accounts.
VerifyStartup(s, receives) ==
  /\ BeforeAssembly(s)
  /\ ValidAddresses(s)
  /\ NetworkApplication(s)
  /\ AppAccountReady(s, receives)
  /\ ResourcesOnHost(s)
  /\ WholeBundle(s)
  /\ Described(s)
  /\ SoundRoutes(s, Routes(s))
=============================================================================
