# Verification of the Deevnet provisioning API

TLA+ specifications of the provisioning API in this repository, checked with TLC
on small instances, with theorems checked by TLAPS. Paths below are relative to
the repository root; `PROJECT.json` has the line-by-line correspondence
(`map`), the hazards, the findings and the theorems.

## 1. The system

The API is one Go process per site. A *tenant* asks for a slice of the site; the
API registers it, gives it an *index*, derives every number the tenant needs from
the index, and builds its objects in a handful of backends. Every HTTP request is
served by a goroutine of its own. No lock spans a handler: handlers meet in the
database and in the backends, and only two things are serialised: the allocation
of an index, an ordinal or an address (a PostgreSQL advisory lock inside one transaction) and SDN changes
(`Service.sdn`, one mutex in the process).

### Inventory

| Component | State it keeps | Operations | Meets | Hard because | Correct when |
|---|---|---|---|---|---|
| Index allocation and numbering (`internal/tenant/site.go`, `pickIndex`) | none | `Numbering`, `IndexFor...`, `Claims`, `pickIndex` | registry, fabric | claims are read before the lock is taken; off-by-one at both ends of the range; exhaustion | no two tenants share an index, a VNI, a tag or a VMID; a tenant that comes back gets its index |
| Tenant service (`internal/tenant/service.go`) | locals of each handler | create, resume, restore, reconcile, delete | everything | no lock, up to seven steps in as many backends, each may fail half way | ready means built; a delete leaves nothing; repeating a failed call finishes it |
| Registry (`internal/store`) | `tenants`, `tenant_steps` and a table per resource | get, create, set status / secrets, record step, delete with cascade | service, OpenBao | may be lost and rebuilt empty while the backends are not | one row per tenant, one index per row |
| Fabric (`internal/backend/proxmox/network.go`) | zones, VNets, subnets: saved and running | ensure, remove, apply | service, under `sdn` | saved and running differ between write and apply; apply is cluster-wide | what is saved and what runs follow the tenant's status |
| Secrets (`service.go`, `logtokens.go`, `dashboards.go`, `store.go`) | API token hash, TSIG, state, log and dashboard secrets | issue, supply, re-mint, re-push | registry, OpenBao, PowerDNS, MinIO, log store, Grafana, the tenant's own state | four parties hold copies; OpenBao may be sealed or rebuilt; answers get lost | nobody is left with a credential that does not work, a working one is not replaced |
| DNS (`internal/backend/powerdns`) | zones, TSIG keys, records | ensure, remove, records | service | a reverse zone is handed from one tenant to the next with the index | a reverse zone obeys the tenant that has the index |
| State store (`internal/backend/minio`) | bucket policy, user | ensure, remove | service | | part of ready |
| Resolver and DHCP (`internal/backend/opnsense`) | forwards, reservations: saved and applied | ensure, remove | service | saved but not applied, like the fabric | forwards exist only for zones that do |
| Wi-Fi keys (`wifikeys.go`, `internal/backend/omada`) | rows, keys in the controller's profile | issue, re-apply, remove | service | row and controller are written apart; all tenants share a profile, which must never be emptied | a key in the controller has a row; an answer holds whatever other tenants do |
| Broker accounts (`brokeraccounts.go`, `brokerwriter`, `cmd/deevnet-broker-account`) | rows, accounts in the broker | issue, remove | service, a forced-command writer over SSH | the writer goes on when the API has given up on it; two ends judge one request | an account has a row; a password handed out is not rotated; no grant leaves the tenant's topics |
| Device addresses, devices (`addresses.go`, `devices.go`) | rows, reservations, published names | register, reserve, release | service, DHCP, DNS | check-then-act on names; an address range and a quota; conflicts on the DHCP server | one address per device, no address twice, one owner per name |
| Workloads, extra records (`service.go`, `compute.go`) | rows, VMs, published names | create, delete, put record | service, Proxmox, DNS | ordinals and VMIDs; names published before their row | a VM has a row; ordinals are unique and bounded |
| Admission (`admissionkeys.go`, `Admit`, `Redeem`) | wrapped enrollment tokens, admission Wi-Fi keys | admit, redeem, adopt, revoke | OpenBao, Wi-Fi | a token is spent before the create it is for | an admitted tenant can always get in |
| Certificates (`certificates.go`) | rows | put, renew, delete | OpenBao PKI | renewal windows, a limit counted before the write | a certificate is only for the tenant's own names |
| OpenBao client (`internal/openbao`) | login token cache | login, KV, Transit, wrap, sign | everything with a secret | a login refused before it lapses | seal then open gives the secret back |
| Log users (`logwriter`, `cmd/deevnet-log-user`) | a file per tenant, a rendered configuration | put, remove, rebuild, reload | service over SSH | file, reading, configuration and reload are four steps with no lock, and Ansible takes the last three too | the proxy serves the tokens the tenants were told |
| Dashboards (`internal/backend/grafana`) | organisation, user, data sources | ensure, remove | service | several requests, each may fail | data sources carry the read token in force |
| HTTP server, authentication (`internal/server`, `internal/auth`) | readiness | identify, authorise, answer | service | | a tenant's token opens only its own tenant |
| Startup, reseal (`cmd/deevnet-api`, `reseal.go`) | configuration, readiness | migrate, load secrets, reseal | OpenBao, registry | reseal runs while the API serves | no request before the registry is ready |
| `deevnet-kit` (`cmd/deevnet-kit`) | files of one host | install, self-test | | | not modelled: a sequential installer |

`PROJECT.json` repeats this list with the status of each part.

## 2. Modules

```
IndexAllocation          operators: numbering, claims, pickIndex
  |-- IndexAllocationProofs
  `-- TenantLifecycle    state machine: handlers, registry, backends, faults
        |  INSTANCE IndexRegistry   (abstract: who holds which index)
        |-- TenantLifecycleProofs   (also EXTENDS IndexAllocationProofs)
        |     `-- TenantObjectsProofs
        `-- MCTenantLifecycle       TLC
Fabric                   state machine: the network step, saved and running
  |-- FabricProofs
  `-- MCFabric
TenantSecrets            state machine: copies of one tenant's secrets
  |-- TenantSecretsProofs
  `-- MCTenantSecrets
TenantResources          state machine: devices, addresses, workloads, records
  |-- TenantResourcesProofs
  `-- MCTenantResources
Admission                state machine: admission, create, the tenant's Wi-Fi key, the
  |                      controller's profile, OpenBao's login, startup
  |-- AdmissionProofs
  `-- MCAdmission
BrokerGrants             operators: what a broker account may ask for
  `-- AccountWriters     state machine: broker accounts and log users over SSH
        |-- AccountWritersProofs
        `-- MCAccountWriters
```

**IndexAllocation** translates `Site.Numbering`, `IndexForVRFVNI`,
`IndexForVNetTag`, `WorkloadVMID` (`site.go`), `Client.Claims` (`proxmox.go`) and
`pickIndex` (`service.go`). Go's zero value "no index", and `ErrExhausted`, are 0.
The sorted walk over the tenant's own claimed indexes is the least of them that
is usable. Subnets, MAC addresses and names are formatting and are left out.

**TenantLifecycle** is the core. `row`, `steps`, `issued` are the tables;
`built[t][s]` says whether the objects of step `s` are all missing, partly there
or all there; `zoneVNI[t]` is the VNI the zone of that name carries on the fabric,
`reverse[i]` whose key the reverse zone of an index obeys, `placed[t]` the
resources that are in a backend. `req[r]` is a request in flight: the handler's
locals and where it stands. One action is the code between two calls to the store
or to a backend, so handlers interleave wherever the code lets them. `EnsureStep`
and `RemoveStep` run one entry of the code's list of steps, in its order;
`EnsureStepFails` and `RemoveStepFails` leave any part of the step done;
`EnsureFailed` and `EnsureDemote` are the two writes after a failed step. Resources
(Wi-Fi key, broker account, device address, workload) are one of each kind, with
the order row-then-backend when issued and backend-then-row when withdrawn;
`PlaceConflict` is the address conflict that takes the fresh row back. `Abandon`
is a cancelled context or a dead process; `LoseRegistry` an emptied database.

**IndexRegistry** is what the registry promises: an index is taken while nobody
holds it, never changes while held, and goes only with the row (or with the whole
registry). `TenantLifecycle` implements it, with `holds[t]` = `row[t].index`.

**Fabric** opens up the network step: one action per HTTP write of
`Client.Ensure` and `Client.Remove`, with the read that precedes it (all calls are
serialised by `sdn`, so nothing changes in between), a separate apply,
`changed` as the code computes it, and every failure with and without its write
having landed. `status` is that of the tenant as far as the network step decides
it: a step after it that fails sends the tenant back to provisioning or leaves it
deleting, from where the same calls are repeated, which the model has as
`BeginEnsure` and `BeginRemove` of a provisioning or deleting tenant.

**TenantSecrets** follows five secrets of one tenant through four holders: the row
(with `lost`, what the Transit key no longer opens), the backends (`held`), the
caller's state (`mem`) and each handler (`rec`, `mine`, `issued`). `Store` is
`SetSecrets`, which writes every column; `MintLog`, `LoadDash` and `MintDash` are
`ensureLogTokens` and `ensureDashboards` with the reload between them; `Finish` is
the end of `ensure` and the answer, which may be lost. A secret is a number; a mint
takes the least one nobody holds. `SecretsAssumption` asks for more of them than there
can be copies (`MaxSecret` above 4·|Requests| + 4), so that none is used up.

**TenantResources** is what ready tenants keep: `device`, `addr`, `wl`, `rec` are the
tables (a slot is a tenant and a name), `kea` the DHCP server's table with
inventory's rows in it, `unapplied` whether it was written since the last
reconfigure, `vm` the VMs by VMID (a tenant and an ordinal), `zone` and `ptr` the
published names. The handlers are `CreateDevice`, `DeleteDevice`, `CreateAddress`,
`DeleteAddress`, `Reconcile` (its addresses step), `PutRecord`, `DeleteRecord`,
`CreateWorkload`, `DeleteWorkload`; each of these actions is the handler up to its
first write, and every later write is an action. `Search` and `Save` are the read and
the write of `EnsureReservation`, with nothing to keep others out in between;
`Allocate` is the transaction under the allocation lock. `Fail` cuts a call off
before any step, which is also a request that landed and whose answer was lost; no
handler does anything after a failure but the conflict path, which is `Withdraw`.
`RebuildRouter` empties the table down to inventory's rows. `req` keeps the last good
answer until the tenant's next call. Two things serve properties only: `unrecorded`,
the names `PutRecord` has published and not recorded, and `sure`, that the router was
not rebuilt under the call. A tenant has one call at a time (its Terraform state
lock); what two calls of one tenant at once would do to names is not covered. Sizing,
trust classes and the tenant's own status are left out.

**Admission** is how a tenant gets in, and composes six components around it. `row`
(status and the API token it accepts), `adm` and `wifi` are the tables; `profile` and
`placeholder` the controller's entries; `held` what a developer was given: enrollment
token, API token, key; `sealed`, `refused` OpenBao and the API's cached login; `api`,
`migrated` the two loops of `run`. `Admit`, `RevokeAdmission`, `Create`,
`CreateWiFiKey`, `DeleteWiFiKey`, `Delete` are the handlers up to their first write,
with `identify`, `operatorOnly`, `ownTenant` in their guards; every request to OpenBao,
the registry or the controller after that is an action. `EnsureKey` and `RemoveKey` are
one read (`EnsureRead`, `RemoveRead`) and then one action for each write, decided by
what was read. `Do` is `Client.do`, which recovers a refused login; `Wrap` does not.
An adoption that fails is logged and nothing else (`AdoptFails`); a resume adopts
whether it succeeds or not (`CreateFails`). Three variables serve properties only:
`told`, what the last good answer said of a key; `unsettled`, the names with a call
that stopped half done or met another; `escaped`, the names with a record dropped by a
call that met another. A new secret is the least number nobody holds.
`AdmissionAssumption` asks for enough of them (`MaxSecret` above |Names| + 6), so that
there always is one: `NewSecrets` proves it.

**BrokerGrants** translates `internal/brokeracct/contract.go`: the API's rules
(`PrefixPattern`, `CheckGrant`, `CheckLogGrants`), the writer's (`validPatterns`,
`Validate`), and the broker's matching from the MQTT standard. A pattern is its levels.
Left out of `Validate` are the checks of version and names, which the API's own
(`ValidName`, `ValidWorkloadName`) imply, and the limit on a request's bytes in `Decode`,
which only a list of patterns near every other limit, grown by JSON's escapes, could pass.

**AccountWriters** has the registry's rows (`acct`, `users`), the far ends' state
(`broker`; `files`, `auth`, `live`: users.d, auth.yml and what vmauth serves), the API's
calls and, apart from them, the invocations they start (`job`). `Timeout` ends the call
and not the invocation. `WriteUsers`, `Load`, `Rename`, `Reload` are the steps of
`deevnet-log-user`, and `Render` is Ansible's. `mixed` are the things two calls or
invocations were at work on at once, `raced` the tenants whose file was written between
another invocation's reading and its rename.

## 3. What is external

Modelled from how the code uses it, and marked `external` in the map:
PostgreSQL runs `Create` as one transaction under its advisory lock and cascades a
delete. Proxmox reads see the saved configuration; an apply runs what is saved at
that moment; it keeps a VNet that has subnets and a zone that has VNets. PowerDNS
keeps a TSIG key when it is sent none and makes one up for a new name. MinIO takes
no user without a secret. OpenBao when sealed answers nothing, and when rebuilt
opens none of the old ciphertexts. A site with dashboards has a log store, without
which `ensureDashboards` always fails. The DHCP server refuses a second row for a MAC
or an address and a change of a row that is gone (`Accepts`); a PowerDNS rrset is
replaced as a whole. The wireless controller has one entry a name, refuses to add a name
it has, to delete one it has not and to delete its last entry (`CanDelete`). A wrapped
token is good once, until it expires. An invocation of a forced command runs on when its
SSH session is closed. vmauth reads the file that is in place when it is asked to.

## 4. Runs

| Run | Instance | Checks |
|---|---|---|
| `lifecycle` | 2 tenants, 2 requests at once for different tenants, 3 indexes, one of them on a foreign zone, a foreign VNI outside the site, 1 fault, 1 loss of the registry | `TypeOK`, `UniqueIndex`, `FabricUnique`, `ReadyMeansBuilt`, `DeleteLeavesNothing`, `DeletingIsFinal`, `ComesBackToItsIndex`, `ImplementsRegistry` |
| `lifecycle_retry` | 1 tenant, every optional backend, resources, 2 faults, fairness | `PlacedIsRecorded`, `RepeatingSucceeds` |
| `overlap_delete` | 1 tenant, 2 requests at once for it, no faults | violates `DeleteLeavesNothing` (finding 1) |
| `fabric` | 2 tenants with VNet ids of their own, 3 faults, fairness | `TypeOK`, `Serialised`, `SavedMatchesStatus`, `RunningUnlessMissed`, `EveryCallEnds` |
| `fabric_apply` | the same, 1 fault | violates `ReadyIsRunning` (finding 2) |
| `fabric_prefix` | 2 tenants sharing a VNet id, no faults | violates `SavedMatchesStatus` (finding 3) |
| `secrets` | 1 request at a time, 2 faults (failed call, lost answer, cut-off, seal, rebuilt key), 1 loss, fairness | `TypeOK`, `KeptUnlessRestored`, `AnswerIsStored`, `GoodAnswerIsInForce`, `RestoreHeals` |
| `secrets_answer` | 1 request at a time, no fault, no loss | violates `AnswerCarriesEverything` (finding 4) |
| `resources` | 2 tenants calling at once, 2 names, 3 MACs, one of them inventory's, 2 addresses, a quota of 1, 1 ordinal, 1 cut-off or rebuild; any number of calls | `TypeOK`, `AddressesGivenOnce`, `EveryObjectHasARow`, `OneOwnerPerName`, `NoNameLeftBehind`, `AnswerHolds`, `AppliedUnlessCutOff` |
| `resources_name` | the same | violates `NoNameForAnother` (finding 5) |
| `admission` | 2 names sharing the profile, one an established tenant, the operator and both developers calling at once, 2 calls nobody needs, 1 fault, fairness | `TypeOK`, `EveryKeyHasARecord`, `AnswerHolds`, `Settled`, `RefusedOnlyOnStaleRead`, `EventuallyIn` |
| `writers` | 2 tenants, 1 account, 6 requests for it, 3 calls or renderings, 2 at work at once, 1 fault; all patterns of up to 3 levels | `TypeOK`, `GrantsConfined`, `RefusedOnlyOverlong`, `EveryAccountHasARow`, `GivenPasswordKept`, `AnswerHolds` |

**Bounds.** Two tenants and two requests are what a conflict over an index takes:
one reads the claims, the other inserts. With three indexes, one foreign and two for
two tenants, the range is exhausted whenever both are registered, and one loss makes
a tenant come back while the other has been created meanwhile. One fault together
with a loss reaches a half-made tenant in a new registry; two faults, in
`lifecycle_retry`, a failed retry of a failed call. The set of steps matters to
`lifecycle` only in that there are several, so the optional ones are left to
`lifecycle_retry`. In `fabric` three faults are a failed write, a failed apply and a
failed retry. In `resources` calls are not bounded; the menu of calls
(`MCCalls`) is: one tenant uses everything, the other has two devices, of which one
clashes with inventory's MAC, and contends for the addresses. Both want MAC `m2`, so
the check of `CreateDevice`, the allocation and the server's refusal all decide
races. With two addresses and a quota of one the range does not run out, and one
ordinal means the next workload waits for the last one's row to go. Two cut-offs
instead of one also pass, in four minutes. Tenants and request slots are symmetric in `lifecycle`, which checks
no liveness. Bounds are in guards (`MaxFaults`, `MaxLosses`), never in constraints.

In `admission` the calls that bring a tenant in (`Needed`) are not bounded, and at most
`MaxSpare` = 2 others (`Unneeded`, from the menu `MCCalls`) run beside them: a second
admission, a revocation, a delete, a key deleted or applied again, another tenant's name.
An established tenant whose key is the only entry of the profile, and a second one that
comes and goes, meet every case of `guardMinimum`. One fault is enough for each of a
crash, a cut-off, a seal, a revoked login, an expired token and a failed step to fall
anywhere. In `writers` three calls, of which two are at work at once, are a put, the
retry or delete that races it, and one more to see the result; the two backends share
nothing, so calls to one are not mixed with calls to the other (`Together`). With
`MaxFaults` = 2 it also passes, in a few minutes.

**`Overlap`.** With `Overlap = FALSE` a create, reconcile or delete has the tenant to
itself; this is how the tenant's own tooling calls the API (a Terraform state lock),
not something the API enforces. `UniqueIndex`, `TypeOK` and `ImplementsRegistry`
do not depend on it, and are proved without it. `DeleteLeavesNothing`,
`DeletingIsFinal`, `ReadyMeansBuilt`, `FabricUnique`, `PlacedIsRecorded` and
`ComesBackToItsIndex` do: with `Overlap = TRUE` TLC refutes each, and section 6 proves
each with `Overlap = FALSE`. Finding 1 is the plainest trace.

**Fairness.** `TenantLifecycle` assumes that the Go runtime schedules every handler
(weak fairness of its next step, failing or not; calls to backends have timeouts)
and, for `RepeatingSucceeds` only, that a caller repeats a create or delete that was
left unfinished, as the 502 answer tells it to (strong fairness: other calls may
occupy the tenant in between). Faults are bounded, so in the end a repeated call
meets none. `Fabric` assumes scheduling and that `sync.Mutex` passes over no waiter
for ever, which its starvation mode gives (strong fairness of `Lock`).
`TenantSecrets` assumes scheduling, that a sealed OpenBao is unsealed in the end, and
that the owner of an unfinished tenant applies its state again. `Admission` assumes
only that something goes on while it can, be it a handler, a loop of `run` or the call
the state of a name calls for (weak fairness of their disjunction: nothing else repeats
for ever, so more is not needed), that OpenBao is unsealed in the end and that a login
lapses, which its lease time does. `AccountWriters` checks no liveness.

**Deadlock** is checked in every run but `admission` and `writers`, where everybody may
have what they wanted and make no more calls.

## 5. Findings

1. `overlap_delete`: a delete of a tenant whose create is still running drops the row
   with objects in place. `ensure` never looks at the row again, so the create goes on
   building for a tenant that is not registered and whose index is free.
2. `fabric_apply`: `Ensure` applies SDN only if this very call changed something. When
   the apply fails, everything is saved; the repeated call finds nothing to change,
   applies nothing, and the tenant is ready with a network the cluster does not run.
   `RunningUnlessMissed` says precisely how far this reaches: only a tenant whose call
   failed with nothing left to write, and only until the next apply of anybody's.
3. `fabric_prefix`: a VNet id is six characters of the name and a digit, names have up
   to eight. The second of two such tenants is refused; deleting it deletes the first
   one's VNet and subnet.
4. `secrets_answer`: a restore over a ready tenant starts from an empty record
   (`service.go:278`), so the log tokens and the dashboard password, which work and which
   the caller does not bring, are minted again; the answer has no log tokens
   (`service.go:277`, `:300`). The caller's are dead, and only the operator's reconcile
   returns the new ones. Nor does a resume after a lost answer return any.
5. `resources_name`: a `PutRecord` that stopped between zone and row leaves a name the
   registry does not know; the address it points at can be given back, and the name then
   points at the device of the tenant that gets it next.

Each is quoted with its lines in `PROJECT.json`.

**Further counterexamples.** Each of these configurations checks one more property that
states a line of the repository, and TLC refutes it:

| Configuration, module | Refutes | What happens |
|---|---|---|
| `MCTenantOverlapReady.cfg`, `MCTenantLifecycle` | `ReadyAtRest`: a delete that did not finish leaves the tenant deleting (`tenant-lifecycle.md:120`) | `ensure` ends with `SetStatus(ready)` whatever the status has become (`service.go:794`): a create at its last step undoes a delete's mark, the delete then fails, and the tenant is ready, in pieces |
| `MCTenantSecretsKept.cfg`, `MCTenantSecrets` | `KeptUnlessSupplied`: an issued secret is kept (`conventions.md:12-13`) | the half of finding 4 that is about the registry alone |
| `MCTenantSecretsLost.cfg`, `MCTenantSecrets` | `ResupplyIsAsked`: `secrets_stored` is false when a secret can no longer be read (`conventions.md:40-41`) | a resume without secrets, after the Transit key was rebuilt, seals the secrets it read as empty (`service.go:274`); they are readable again, and nobody asks for the lost ones |
| `MCTenantResourcesMove.cfg`, `MCTenantResources` | `ReservationFollowsMAC`: changing the MAC moves the reservation (`device-services.md:41`) | `CreateDevice` writes the registry and then the DHCP server; cut off in between, its repetition sees no move (`devices.go:93`) and answers well |
| `MCTenantResourcesApply.cfg`, `MCTenantResources` | `AnsweredIsApplied`: the same call resumes a failed one (`conventions.md:57`) | `EnsureReservation`, like the fabric's `Ensure`, does not repeat a reconfigure that failed (`kea.go:114`) |
| `MCAdmissionAdopt.cfg`, `MCAdmission` | `AdoptedByNextCreate`: the next create adopts the key (`service.go:163-165`) | of a ready tenant it is a 409 or a restore, and neither adopts; the key works, is on no list of the tenant's and outlives it |
| `MCAdmissionRace.cfg`, `MCAdmission` | `NoKeyWithoutRecord`: no key without a row (`wifikeys.go:117-118`) | a `CreateWiFiKey` that puts its row behind the list of a `Delete` writes a key to the controller whose row has gone with the tenant |
| `MCAccountWritersLate.cfg`, `MCAccountWriters` | `AccountsAreRecorded`: no account without a row (`brokeraccounts.go:115-116`) | of a create and a delete, at once or after the API gave up on the create's session, the broker takes the create's statement last; the delete drops the row |
| `MCAccountWritersRaced.cfg`, `MCAccountWriters` | `ToldUsersStay`: a run cannot drop a tenant's users (`cmd/deevnet-log-user/main.go:13-15`) | of two invocations the one that read `users.d` first renames `auth.yml` last, and a tenant is told that tokens are live that vmauth does not know |

Next to each a passing property says exactly how far the code's words do
reach, by an exception that names the event, and it is these that are proved:
`ReadyMeansBuilt`, without overlapping changes; `KeptUnlessRestored` and
`GoodAnswerIsInForce`, of which the first says what a restore does to each secret
and the second claims the log tokens for a reconcile's caller only; `NoNameLeftBehind`,
but for the names in `unrecorded`; `AppliedUnlessCutOff`, while nothing was cut off;
`Settled`, but for names in `unsettled`; `EveryKeyHasARecord`, but for those in
`escaped`; `EveryAccountHasARow` and `GivenPasswordKept`, but for accounts in
`mixed`; `AnswerHolds` of `writers`, but for tenants in `raced`.

`RefusedOnlyOverlong` shows
the one request the API accepts and the account writer refuses, a pattern that only the
prefix makes too long (`contract.go:257` against `:205`). `EventuallyIn` holds although
`Wrap` keeps a refused login, because the login lapses.

## 6. Proofs

All are checked by TLAPS for every value of the constants that satisfies the
`ASSUME`s of the modules (`MaxAllocatable` a positive natural, bases natural numbers,
foreign zones named unlike tenants, and so on).

**IndexAllocationProofs.** `PickIndexIsFree`: `pickIndex` answers an allocatable index
that neither a row nor another zone holds, and gives up only if there is none.
`PickIndexGivesBack`: a tenant that asks for no index and whose zone carries one that
is free is given that one. `VRFVNIRoundTrip`, `VNetTagRoundTrip`: what
`Claims` reads back is what `Numbering` derived. `BlocksDisjoint`: two indexes share
no tag and no VMID. `Min` of the community modules is a `CHOOSE`; `LeastElement`
shows that it chooses something, from the well-foundedness of `<` on the naturals.

**TenantLifecycleProofs.** `TypeCorrect`, `IndexesUnique` and `RegistryRefinement`,
with any number of tenants, requests, faults and losses, and with `Overlap` either
way. `TypeOK` and `UniqueIndex` are not inductive by themselves. The invariant is

    IndexInv == TypeOK /\ CarriesIndex /\ RowHasIndex /\ UniqueIndex

`CarriesIndex`: a handler inside ensure or remove carries an index of the range (else
`EnsureStep` would put a zone on VNI `VRFVNIBase + 0`, and `reverse[0]` does not
exist). `RowHasIndex`: a row has an index exactly when it is present (else the
refinement mapping would show an index nobody holds, or hide one). `Insert` is the
one step that gives an index out: `PickIndexIsFree`, instantiated with the rows the
transaction reads, gives `UniqueIndex'` and the guard of `Allocate`. Every other step
leaves `row[t].index` alone except `DropRow` (`Release`) and `LoseRegistry` (`Wipe`).
There is one lemma per action; `NextInv` puts them together.

**TenantObjectsProofs.** `ZonesDiffer`, `ReadyTenantsAreBuilt`, `ResourcesRecorded`,
`DeletingStays`, `DeletedTenantsAreGone` and `TenantsComeBack`: the other six safety
properties of `TenantLifecycle`, for any tenants, requests, faults and losses, under the
hypothesis `~Overlap`, without which TLC refutes each of them. The invariant is

    ObjectsInv == /\ IndexInv /\ Exclusive /\ FabricInv
                  /\ \A r \in Requests : CallInv(r) /\ Claimed(r)
                  /\ \A t \in Tenants : TenantInv(t)

`Exclusive` is all that is made of `~Overlap`, by `Begin` alone: of two calls for one
tenant each is about a resource of its own. From it every other step keeps `CallInv`: what
the handler read of the row is still so (`Standing`), each step of ensure that is no
longer ahead is done and each step of Delete that is no longer ahead undone (`Progress`),
a resource has its row before it is placed (`Issuing`). `TenantInv` is what holds between
calls, also after one that was cut off: so a delete may begin with any part of the
objects there, and still `Progress` with no step ahead is `DeleteLeavesNothing`. That
all the optional steps a site has are in both lists is `StepsCovered`. Tenants meet only
in the indexes and on the fabric. `FabricInv` is `FabricUnique` with the zones that rows
have yet to build; to keep it across `Insert` needs `Claimed`: since the claims were
read, a zone that was built belongs to a row, and the tenant's own zone is as it was, so
`PickIndexIsFree` and `PickIndexGivesBack` apply to what the create read long before.
A step of one call keeps everybody else's part by `OtherCalls`, `OtherTenants` and
`FabricKeeps`.

**FabricProofs.** `FabricTypeCorrect` and `CallsSerialised` for any VNet ids;
`SavedFollowsStatus` and `RunningFollowsStatus` under `DistinctVNets`, the
hypothesis that no two tenants derive one id, which finding 3 shows to be needed.
The invariant is `TypeOK /\ Serialised` and, for each tenant, four parts: `CallOK`
(what a call is for, by where it stands, and the status that goes with it; nothing
is changed before the first write), `OwnVNet` (an id is used by its tenant only),
`Progress` (what is saved at each point of the call) and `Carried`: a network that
is whole, or gone, in the saved configuration is so in the running one, unless the
tenant is missed or the call at work has changed something and has yet to apply it.
`Carried` is the heart: it holds across a failed call because a half-made network
is neither whole nor gone, so the repeated call has something to write and sets
`changed`; the one call it does not hold across is the one that failed with nothing
left to write. A step of one tenant's call keeps another's part by `OtherTenant`.

**TenantResourcesProofs.** `ResourcesTypeCorrect`, `AddressesUnique`, `ObjectsHaveRows`,
`NamesHaveOneOwner`, `NamesDoNotOutlive`, `GoodAnswersHold` and `SavedIsApplied`, for any
tenants, names, MACs, range, shares and menu of calls, with calls of different tenants
interleaved at will and cut off anywhere. None of the properties is inductive alone: that
a reservation has its row needs to know that no call is about to drop the row with the
reservation still there, and that in turn what the call found when it began. The
invariant has, for each tenant, `RowsInv` (what holds between calls: `AddressRows`,
`NameRows`, `WorkloadRows`) and, by where its call stands, `CallInv`, `AddressInv`,
`NameInv`, `WorkloadInv` and `AnswerInv`. `NameInv` carries the check-then-act on names
across the steps of the call that made the check. Two tenants share only the range and
the DHCP server's table: `AddressesGivenOnce` is kept from `PickAddressAnswers` under the
allocation lock, and the lemmas on `Untouched` keep everybody else's part. `None` is no
name, and inventory's rows are no tenant's (`ResourcesAssumption`).

**AccountWritersProofs.** `AcceptedIsConfined` and `RefusalIsOverlong` are about the
rules alone, for patterns and topics of any number of levels (TLC: up to three): from the
levels a pattern begins with and the broker's matching position by position, with no
induction. `GrantsStayConfined`, `RefusalsAreOverlong`, `AccountsHaveRows`,
`PasswordsStay`, `WritersAnswersHold` and `WritersTypeCorrect` follow from `WritersInv`.
`Alone` says that of two calls or invocations at work on one thing both are marked as
having met another, so one that is not marked can rely on what it has read and written;
`Quiet`, that what the last answer said is about a thing nobody is at work on since. For such a call
`PutInv`, `HashInv`, `DeleteInv` and `UsersInv` say what it has done by its point;
`AccountInv` and `TenantInv` say what is so between calls. `HashInv` is what makes
`GivenPasswordKept` inductive: the hash a put is about to write is the one in the row.
`SeenInv` is the log writer's: unless the tenant is in `raced`, whoever has read the
directory and has yet to rename read the file that is still there. Assumed: patterns are
non-empty sequences of levels, of which a request has finitely many
(`WritersAssumption`); that is what the API's decoding gives.

**AdmissionProofs.** `AdmissionTypeCorrect`, `KeysHaveRecords`, `AdmissionAnswersHold`,
`AdmissionSettles` and `RefusalsAreStale`, from `AdmissionInv`. `Alone` is as above, by
name. `RecordInv` and `PlacedInv` say what a key's record and the profile are at each
point of the call that writes them, and `StageInv` how far a call has taken registry and
controller from agreeing (`Agreed`, `Adoptable`): `Settled` speaks of names with no call,
so it needs to know at every point of a call how it will come out. The profile is the one
thing all names share, so `StaleInv` cannot rely on `Alone`: it holds until another call
writes the profile, which marks the reader `stale`, and gives `RefusedOnlyOnStaleRead`.
Most steps leave most of this alone, which `CallFrame`, `NameFrame`, `OthersKeep` and
`StepKeeps` say once.

**TenantSecretsProofs.** `SecretsTypeCorrect` for any number of requests at once, and
`IssuedSecretsAreKept`, `AnswersAreStored` and `GoodAnswersAreInForce` under the
hypothesis `OneAtATime`, that there is one slot for requests: with two, TLC refutes each
of these three, since a handler writes back the whole record it read (see the hazard at
`logtokens.go:36`). `IssuedSecretsAreKept` is `KeptUnlessRestored`: a restore writes what
it brings, and nothing for the other two; `GoodAnswersAreInForce` leaves out the log tokens
of a create's caller, for which the stronger statements are refuted (section 5). Faults, seals, rebuilt keys and losses of the registry are any number.
The invariant is

    SecretsInv == /\ TypeInv /\ Paired(row.secrets)
                  /\ \A r \in Requests : CopiesInv(r) /\ PushedInv(r)

`CopiesInv` orders the copies a handler holds, each `Within` the next: what the answer
will carry, the record ensure was called with, the copy the step works on, the row.
`Current` says that a copy lacks a secret of the row only if the row's cannot be read,
also when the key is rebuilt after the copy was read; so a step that mints a secret its
copy lacks replaces none that works. That the reload before the dashboards changes
nothing (`LoadDashKeeps`) rests on two things: a rebuilt key loses all four sealed secrets
at once, and the step fails without the log token. `PushedInv` is what the steps behind
have pushed; the zone's key may be missing from the record until the state store, which
takes no empty secret, has refused it (`Paired`: the two come and go together). That
there is always a secret to mint (`MintIsNew`) is counted: four copies a request, and
four more.

**Only model-checked:** liveness (`RepeatingSucceeds`,
`EveryCallEnds`, `RestoreHeals`, `EventuallyIn`), which needs fairness and ENABLED, beyond
the prover.

## 7. Not modelled yet, and the plan

In this order:

1. **Secrets with two requests at once**: the token's revocation by a create whose
   record is older, then delete.
2. **Certificates** (`certificates.go`: a limit counted before the write, a renewal that
   races a delete) and **reseal** against a serving API, whose writes are conditional on
   what was read.
3. **Dashboards** (`grafana.go`) and the resolver's forwards (`opnsense.go`), which are
   one step each here, request by request.

Left out for good: `deevnet-kit` (an installer for one host), the fakes of the tests
(`tenanttest`), the parsing of the environment (`config.go`), read-only routes and readiness, the OpenAPI document and
the documentation site (quoted in findings), logging, wording and formatting.
