# A verification project for disponit

disponit decides, records and carries out business actions for tenants under a
policy. Its core is not the policy function but the protocol around it: an
action that cannot be decided becomes a *case* (`unntak`), the M-37 engine tries
to repair it, the repair is a new policy decision, a permitted decision becomes
an *order* (`oppdrag`) in an outbox, and an owner module answers the order with
a signed receipt. Several processes work on the same rows with leases, fencing
tokens, single-use capabilities and idempotency keys, and any of them may die or
be late. That protocol is what this directory models, checks and proves.

## 1. Inventory

| Component | State it keeps | Operations | Interacts through |
|---|---|---|---|
| M-37 worker (`core/m37/arbeider.py`, `reparasjoner.py`) | nothing across transactions but its copy of the claimed case | `claim`, `planlegg` (compensation, two-phase R1, local R2, manual R3), `_start_fase1`, `_fase2`, `utsted_kapabilitet`, `fullfor`, `frigi_utlopte` | SQL functions under fencing; `POST /v1/beslutning` |
| Case tables (migrations 005, 007, 041, 085) | `unntak`, `reparasjonsoperasjoner`, `verifikasjonsgenerasjon`, `oppdrag`, `arbeidskapabiliteter` with triggers and unique indexes | `claim_neste_sak`, `frigi_utlopte_claims`, `start_verifikasjonsgenerasjon`, `registrer_verifikasjonsbevis`, `utsted_`/`reserver_`/`bruk_kapabilitet` | row locks, status machines |
| Decision endpoint (`core/api/kjerne.py`, `app.py`) | `idempotens`, `revisjonslogg` | pre-auth, `_krev_kapabilitet`, `_flyt`, `_avslutt` | advisory lock per key; capability row |
| Policy validator (`core/policy_validator`) | none (pure) | `evaluate` | called by the endpoint |
| Outbox and receipts (`app.py`, migrations 035, 038, 043, 063, 067, 071, 085) | order row, `kvitteringskapabiliteter` | `claim_neste_oppdrag`, `forny_oppdragslease`, `_ingest_kvittering`, `reap_evidensfrister` | owner claim and generation; row lock on the case |
| Human handling (`api/unntaksbehandling.py`, 011, 043) | approval rounds, votes | approve, reject with resolution | case lock, receipt capability |
| Policy administration (`api/policyadmin.py`, 012, 013) | drafts, approvals, active version | propose, approve (four eyes), activate | the active policy the workers read |
| Fairness and planning (`m38`, `plan`, 085) | derived from the case table | ranking, caps, planning window | `claim_neste_sak` |
| Domains and takeover (019, 041) | ownership, challenges, takeover cases | challenge, attest, adjudicate | cases of another type |
| Notifications (026-030, 046) | outbox of messages with a claim fence | claim, send, close | own table |
| Module registry (014, 015, 035, 047, 049) | modules, releases, keys, acceptance | register, activate, revoke | receipt capabilities |
| Sessions and access, business registers, UI, deployment | own tables or none | - | - |

Hard behaviour, and what makes each part correct:

* **M-37 case.** Two workers may believe they own a case, since a lease runs out
  while its worker still computes. Planning reads without locks and writes
  later. A worker may die after the decision was committed and before the order
  is placed. Correct means: only the current owner moves the case; at most one
  business order, resting on a committed TILLAT and, after verification, on the
  newest proof; no wait for something that cannot come; the automation ends.
* **Decision endpoint.** Reservation and decision are two transactions, the case
  is read without lock. Correct means: a capability is burnt exactly with its
  decision; a settled key is answered, never decided again.
* **Outbox.** Receipts may be late, repeated, contradictory, from an earlier
  owner, or race a human's no and a reaper. Correct means: the first accepted
  outcome stands, nothing that was executed is lost from sight.
* **Human handling.** Votes on a frozen snapshot race policy changes, role
  changes, expiry and other requests. Correct means: an approval lifts a stop
  only with enough people who signed the policy that is in force, in the role it
  asks for; a no is final; a repeated request gets its first answer.
* **Policy validator.** Pure, with early returns and a second pass for an
  approval. Correct means: a permit satisfies every control of the policy, and
  what the contract lets in can be applied.
* **Policy administration.** A round is opened and attested over several
  statements under READ COMMITTED. Correct means: what comes into force is the
  document the attestants saw, on the base they saw, and no document is
  deleted under somebody.
* **Domains.** Three parties move one hostname between them while lookups,
  pages and votes are out of date. Correct means: rows, binding and case never
  disagree, and a refused tenant does not slip in.
* **Notices.** A mail server has no transactions and a sender may die anywhere.
  Correct means: what a row says of its mail is true, a mail is sent at most
  once where that can be known, a closed round asks nobody, the queue empties.
* **Customer ordering.** The decision and the order are two commits. Correct
  means: one decision per key, a permit whose payload meets its contract comes
  to one order, and a decided key is answered as it was decided.

`PROJECT.json` lists every component with its status, and the hazards with the
line where each bites.

## 2. Modules

| Module | What it is |
|---|---|
| `M37Sak` | the life of one case: workers, database rows, decision endpoint, owner modules as this case sees them |
| `OppdragKo` | the life of one order in the outbox: owners, receipts, a human's no, the reaper, the cases it gives rise to |
| `Engangsnokkel` | abstract: what an idempotency key promises its callers |
| `Reparasjonsordre` | abstract: what the engine and the outbox owe each other about a case and the order that repairs it |
| `Beslutning` | the decision endpoint: locks, single-use attestations, frequency, commit; implements `Engangsnokkel` |
| `Godkjenning` | human handling of one case: rounds, votes, four eyes; implements `Engangsnokkel` |
| `Policymotor` | the policy engine, its attestation gates and contracts, as total functions |
| `Policyadmin` | how one policy comes into force: drafts, rounds, attestation, activation, deletion, set-up |
| `Domenekontroll` | who controls one hostname: proof, takeover, adjudication, worker and guard |
| `Varsel` | notices of activation rounds and the mails that copy them |
| `Bestilling` | a customer's order from the key's lock to the booked answer |
| `MC...` | values of the constants of each for TLC |
| `...Proofs` | theorems for every value of the constants (section 4) |

How they compose. `M37Sak` and `OppdragKo` meet in the order: the first sees it
as its case does (placed, taken, closed once), the second sees every owner and
receipt, and of the case only whether it waits. What each takes the other to do
is the contract `Reparasjonsordre`: the engine ends its treatment once, by
placing the order or without one, then only the owner moves the two, and a human
may take the case over. `M37Sak` is shown to keep the engine's and the owner's
part of it as its case sees them, `OppdragKo` the owner's and the human's for
every order of origin `m37_reparasjon`, with all the claims, retries, late and
contradictory receipts and reapers that the contract leaves out (`Ordreloftet`
in both proof modules). The engine's half needs policies that agree on the
compensating action: under the constants of `M37SakKanseller`, where they do
not, TLC finds it broken, since a stale worker cancels the order. `Bestilling` and `M37Sak` take
the decision endpoint at its word, and that word is `Beslutning`. `Beslutning`
and `Godkjenning` each carry an instance of `Engangsnokkel` through a refinement
mapping, since both stand on table `idempotens`. `Godkjenning` and `Beslutning`
leave the engine's verdict free; `Policymotor` has it, and `EngineInTheRound`
proves that whatever it answers on a round's approval is one of the choices that
`Godkjenning` has. `Policyadmin` makes the
versions that `Beslutning` and the others only see change.

A lock order, a wait or a snapshot that several modules meet is modelled the
same way in all of them: a transaction's steps are the statements between which
others may commit, what it wrote is seen at its commit, an advisory lock is held
to the end of the transaction that took it (to the end of the session for
`Bestilling`), and a row lock waits and then reads the row anew.

### M37Sak and the code

| Variable | Code |
|---|---|
| `sak` | the row of `unntak`: `status`, `claim_id` (`claim`), `claim_generation` (`gen`), whether `claim_utloper > now()` (`lease`), `forsok`, `verification_generation` (`ver`), `krav_sett` (`krav`); `vei` is which repair route its data leads to |
| `gener` | `verifikasjonsgenerasjon`, one row per round |
| `op` | `reparasjonsoperasjoner.status` per identity |
| `oppdrag`, `frist` | `oppdrag.status` per identity, and which of its two deadlines have passed |
| `kap` | `arbeidskapabiliteter` |
| `kall` | requests inside the API, with the step they have come to |
| `beslutning` | `idempotens` (ferdig) and the audit row, per key |
| `arb` | a worker: program counter and the copies it works on |
| `aktivPolicy` | the policy version `_aktiv_policy` would return |

One action is one committed transaction, with two exceptions that the code
makes: planning reads rows it does not lock (`PlanLes`) and writes at its end,
and the decision endpoint is reservation, revalidation and commit. The order in
which the code registers, cancels, supersedes and sets the status inside one
transaction is inside the action. The fenced `UPDATE ... WHERE claim_id AND
claim_generation AND status AND claim_utloper > now()` is the guard `Fencet` at
the moment of the write; a write on which it fails is `Leasetap`.

Abstractions:

* There is no clock: a lease, a capability and each deadline runs out by an
  action of its own, at any time. A capability never outlives its lease, as the
  trigger `kapabilitet_innenfor_claim` demands. `bruk_kapabilitet` compares with
  the start of its transaction, so the model measures it at `Revalider`.
* A claim's random `claim_id` is fresh for each claim and is represented by the
  generation it was drawn for; 0 is NULL.
* Identities are records of the components that the code hashes.
* The data conditions that end in `manuell` (no payload, no policy, irreversible,
  deadline of the reversal, unreadable or revoked proof, unknown class) are one
  nondeterministic action, `PlanManuell`.
* The decision is TILLAT or NEKTET, nondeterministically; any error of the API is
  `Feilsvar`, and may be answered at any step before the commit.
* A verifier that answers delivers the set its order asked for; its owner claim
  is one step (`Plukk`). R1's targets all go through the outbox
  (`utforelsesklasser`).
* A worker that dies, times out on HTTP or meets a unique violation is `Krasj`.
* Two status names are spelt in ASCII: `venter_utforelse`, `lost`.

### OppdragKo and the code

| Variable | Code |
|---|---|
| `oppdrag` | the row of `oppdrag`: `status`, `owner_generation` (`gen`), whether `owner_lease_utloper` is ahead (`lease`), `resultathash` (`hash`; Ingen is NULL, and `kvittering` is NULL with it), `kansellert_aarsak = 'menneskelig_avvis'` (`nei`); fixed for its life: `opprinnelse` (`opphav`) and what `reversibilitet_for_oppdrag` answers (`rev`; `ukjent` is NULL) |
| `frist` | which of `utforelsesfrist` and `evidensfrist` have passed |
| `kap` | `kvitteringskapabiliteter`, by the generation of the claim they were issued to |
| `saker` | the newest case of the order per `arsak`; `opphav` is the case an M-37 order came from, `oppfolging` stands for the three reasons of a late "done" (`kompensasjon_kreves`, `irreversibel_utfort`, `reversibilitet_ukjent`) |
| `historikk` | the rows of `unntak_historikk` that say something of a receipt |
| `inn` | requests to `POST .../kvittering`: what they have read, which cases they hold locked, what was answered |

A receipt is three steps. `Les` redeems the capability and reads the order with
no lock. `Laas` takes `SELECT ... FOR UPDATE` on the order's cases and, only when
there are any, reads again. The third step is judgement, burning, writing and
commit. It is one step because nothing the judgement used is read again after
the burning, the burning is one UPDATE on the capability row, and the closing
UPDATE meets whatever the order's row is by then: that is `Lovlig`, the trigger
`oppdrag_kolonnelaas` evaluated on the current row, while `kan` is what was
judged before. A refused UPDATE is an error that rolls the burning back (`Feil`).

Abstractions:

* No clock: the lease and the two deadlines pass by actions of their own. A
  request keeps its arrival time (`naa` is not refreshed), so `iTide` is set at
  `Les`; the capability's expiry is measured at the start of the transaction.
* The hash of a receipt is its result. Whether its artefact is what was signed
  is nondeterministic (`ArtefaktAvvist`), on both the closing and the late path.
* The release chain's orders (`frigivelse`) cannot be closed through the API at
  all: the trigger allows only their own owner, and no code does.
* `SettManuell` is not code: nothing takes such a case from `ny` to `manuell`
  (configuration `OppdragKoMenneske`, section 3), yet a human may only reject what is there. It
  stands for an operator doing so in the database, bounded by `Driftsinngrep`.
  Of the human path only the rejection is here, as its one commit.
* The customer's stop of an evaluation (`Avbryt`) keeps owner and capability, as
  the code does.
* Orders of type `verifikasjon` have a receipt path of their own, in `M37Sak`.

### Engangsnokkel, Beslutning and the code

`Engangsnokkel` has one action: a fresh key is bound to one input, given one
answer and its operation has taken effect, all at once, for good.

`Beslutning` is `behandle()` of `kjerne.py`, statement by statement: the
advisory lock of the key and the look in `idempotens` (`Krev`), the policy
under its shared lock, one advisory lock per attestation identity in sorted
order, the engine, the frequency group's lock and count, and the commit. A
request that fails at any step rolls everything back. Beside it the policy is
activated, put out of force, and deleted by `slett_ubrukt_policy`, which takes
the exclusive policy lock and refuses a version that is in the log.

* The engine's verdict is free, except that the frequency rule binds it.
* A case born of a decision is part of its log entry.
* The refinement `HolderNokkelloftet` maps `bundet` and `svar` to the committed
  rows of `idempotens`, and `virket` to the keys in the log: that the log and
  the rows move together is what it says of this code.

### Godkjenning and the code

`POST /v1/unntak/{id}/handling` for one case: `Krev` (key lock, replay), `Laas`
(case row, authorisation anew), `Vurder` (policy, what is outstanding), `Avgjor`
(round, vote, count, engine, commit or rollback). Memberships, the active
policy, the order behind the case and the clock move between any two of them.

* The case was stopped on one grounds code; the engine's verdict without the
  human is a choice of tillat, the bound code or another.
* The intention's encryption and the envelope's MAC are left out: the server
  makes and checks them over the same locked data.

### Policymotor and the code

`_evaluer` is `Evaluer`: the first reason in `Foerst` that applies, and what it
leads to. `_anvend_menneskelig_godkjenning` is `Anvend`, a second pass with one
limit replaced; `UgyldigGrense` is the bound that cannot be read, which is looked
at after the currency. The attestation gates, the loading contract
(`valider_policy`) and the introduction contract (`valider_ny_policy`, with its
bound on amounts, `Baerbar`) are operators. The state machine only picks a policy, decides an event, keeps what `bygg_handlingsintensjon` keeps of it and
decides again with an approval. Amounts, time zones and texts are their
verdicts. Its behaviour is `MotorInit`, `MotorNext`, `MotorSpec`, since
`GodkjenningProofs` extends both this module and `Godkjenning`.

### Policyadmin and the code

A request that opens a round reads (`RundeLes`), checks the flag (`RundeSjekk`)
and writes (`RundeSkriv`); one that attests reads, writes its attestation and,
at the threshold, activates in the same transaction; a deletion lists and locks
drafts, waits for the exclusive policy lock and deletes. The draft's row lock
and the policy's advisory lock decide who may take a step.

* The statuses `klar` and `godkjent` exist only inside `aktiver_policy`, which is
  one step. A hash is the content it is of.
* The branch of `attester_aktivering` for a pointer that has drifted from the
  flag is a guard, and is never taken: the deferred trigger
  `policy_peker_konsistent` (012) forbids the drift at every commit.
* Left out: idempotency keys (the mechanism is `Beslutning`'s), the optimistic
  version of a draft, MAC, `registrer(aktiver=False)`, the origin of a rollback
  (a rollback makes a draft). A policy that has decided is in `Beslutning`.

### Domenekontroll and the code

Every transition of rows, binding and case runs under the hostname's advisory
lock and is one step. What is read before the lock is a variable of its own: the
worker's lookup (`oppslag`), the page an adjudicator has before them (`side`),
the tuple the guard picked (`vakt`).

* Challenges are numbered per tenant; an expired one is 0. A lookup brings home
  the token the row carries at that moment (its publication is assumed).
* A rejecting vote decides at once and is not kept. Outcome `uenighet` cannot be
  reached. `nei` is a history variable.
* Observed on the way and harmless: `degrader`'s lookup for a challenge in the
  challenger's own tenant finds none since 041; an operator's recall leaves the
  open case to be settled by the next reapplication.

### Varsel and the code

Notices are written and retired in the transaction of what they are about, under
savepoints, so they may fail while that succeeds (`urydda`); a replay of the
request makes up for it. A sender is `rekoe`, claim, SMTP, result. `varsel_rekoe`
is two steps: what the statement reads of `varselvalg` is from its snapshot, what
it updates is read anew under the lock. The number of a claim stands for its
fresh uuid. `levert` and `tapt` are history variables (which mails a server took,
which claims were taken back).

### Bestilling and the code

`Opptatt`, `Gjenspill` and `Mottak` are the try-lock on the client's key and the
read of `bestilling_idempotens` under it; `PortAvviser`, `Konflikt`, `Gjenopprett`
and `TilBeslutning` the probe for an earlier decision, the try-lock on the bundle
and the ports; `Behandle` and `IngenDom` the decision endpoint's commit;
`Kontraktbrudd`, `UtenOppdrag`, `MedOppdrag` and `BuntUbrukelig` the transaction
that builds the payload, holds it against its contract, places the order, binds
the bundle and books the answer; `Krasj` a process that dies, or an
error, with its session's locks; `Utlop`, `Fornyes` and `Modul` the world.

* Two types of order: `evaluering`, which consumes a bundle and asks for an
  earlier decision before its ports, and `register`, which stands for every type
  whose port reads a register row (hostname, reminder, campaign, reply, offer,
  booking).
* `kjerne.RESERVERTE_NOKKELROM` keeps everybody else out of the `bestilling:`
  name space, so only these requests write those keys.
* `avbrutt` is a history variable, `svar` the answer the step at hand gave.
* Left out: refusals by `normaliser`, key length, that the profile of a bundle
  exists (append-only), the missing log row and the missing deadline, which a
  committed decision and the table of deadlines rule out; `policy_ukjent` is in
  `IngenDom`.
* The contract of a payload (`oppdragskontrakt`) is its verdict: `Kontrakt` is the
  set of payloads that meet it, whatever they are. An evaluation's payload
  (`Nyttelast`) is made of its body, another's of what the register said of the
  row. The type of the hostname has no such check, so all of its payloads are in
  the set. A permit whose own payload breaches its contract has burnt its place
  in the window and answers `intern_feil` as often as it is asked for:
  `KvotenGirJobb` and `DommenSvares` name that exception and no wider one.

## 3. Runs

| Run | Checks | Distinct states |
|---|---|---|
| `sak` | seven safety properties of the case, and `AutomatikkenEnder`: from some time on no worker claims it again | 371 308, depth 39 |
| `oppdrag` | six properties of the order under reclaim, late, repeated and contradictory receipts, a no, a cancellation, the reaper | 1 168 071, depth 19 |
| `oppdrag_fremdrift` | `OppdragEnder`: an order of a decision or a release ends | |
| `godkjenning` | round and case, votes, the lift, the no, the refinement `HolderNokkelloftet` | 1 356 640, depth 19 |
| `godkjenning_svar` | `AlleFaarSvar`: requests that wait for each other's key and case are all answered | 10 456, depth 13 |
| `motor` | a permit satisfies every control; an override let in for an action without conditions can be applied | 347 614, depth 4 |
| `beslutning` | an attestation decides once, the limit holds, what decided is not deleted, nobody waits in a ring, `HolderNokkelloftet` | 1 147 843, depth 27 |
| `policyadmin` | a round stands for what it froze, what is activated was attested | 2 087 796, depth 45 |
| `domene` | rows, binding and case agree, the guard cries only for a conflict, two adjudicators, the no stands | 1 219 691, depth 43 |
| `varsel` | what a row says of its mail, one copy, a closed round asks nobody, the queue empties | 104 621, depth 22 |
| `bestilling` | one decision per key, a permit that meets its contract comes to an order, a decided key is answered | 1 852 801, depth 21 |
| `bestilling_rad` | violation of `OppdragetErDetBesluttede`: a retry after a crash places an order of what the register says by then | |

Every property of a passing run has a mutant: an operator `Feil...` before its
original that drops a guard, shifts a comparison, forgets a write or picks the
wrong row, and that TLC catches.

### Bounds

* `sak`: two workers (an owner and a stale one), two policies of which the second
  asks for one condition more (so a frozen set becomes too small), two attempts
  (a first round, a retry, an exhausted budget). Generations grow only with
  claims, which the attempts bound. `VentingHarSvar` is stated for policies that
  agree on the compensating action; where they do not, `M37SakKanseller` below
  breaks it too, since the new owner's case then waits for a cancelled order.
* `oppdrag`: three receipts (two that race and one that comes back), two claims
  (an old and a current owner), two results, three origins, three contract
  classes (`irreversibel` takes the branch of `ukjent`). Receipts are
  interchangeable, hence the symmetry, not used under fairness.
* `godkjenning`: two people, two sets of roles, two requests, two keys, a strict
  policy with four eyes and a lax one, two rounds. One person more adds no case:
  the threshold is two.
* `motor`: about 600 policies, 60 events, every approval. The policies vary each
  field of the one action they are about through its meaningful values; `BelopTak`
  is three, for the 10^18 of the code, so that a limit and an override are beyond
  what can be carried while an event may still need them.
* `beslutning`: two requests, two keys, three attestations, three versions (one
  irreversible with a limit, one without a limit, one corrupt), a window of one,
  two ticks, two logged decisions.
* `policyadmin`: two drafts of one author, three documents of two versions, two
  rounds per draft, two requests, one membership change.
* `domene`: three tenants; b may ask twice and the others once, enough for a
  hostname to go A, B, C, B; two adjudicators of b, and one change of one's
  membership (a1's); recalls only of b, up to generation two. a and c are
  symmetric.
* `varsel`: one recipient, one round, two senders, two attempts, one change of
  choice. `VarselRunder` below has two rounds.
* `bestilling`: two requests, a client key and none, two bodies on one bundle and
  one on a register row, two decisions, a register row that changes once. The
  second body and the changed row breach their contracts; the race for the
  bundle is between two requests with the first body. In `bestilling_rad` and
  `BestillingPort` every payload meets its contract.

Deadlock is not checked where the world runs out: an order that has ended,
drafts, rounds, tokens, attempts or decisions that are used up. `IngenVranglaas`
says of `Beslutning` what deadlock checking would.

### Fairness

* `sak`: each worker's loop (`kjor` runs for ever, systemd restarts it), the HTTP
  client's timeout, leases and deadlines that pass, and `frigi_utlopte`, which
  every pass of the loop calls. Nothing of the API, the administrator, the
  verifiers or the owners.
* `oppdrag_fremdrift`: deadlines pass, the reaper's timer fires, a request inside
  the API ends by an answer or an error and lets go of its locks. Nothing of
  owners or humans.
* `godkjenning_svar`: strong fairness of each request's step, since PostgreSQL
  serves who waits for a lock in turn. No symmetry here.
* `varsel`: the timer fires again and again, a run is not always killed at the
  same place, leases and backoff pass.

### What `NeiStenger` does not say

A capability of an earlier generation may still be live after a no (only the
newest issued one is burnt; its receipt is evidence only), and a receipt already
past its lock may meet a no given on a case born after that lock, and is then
refused as `kapabilitet_ugyldig` (action `Ugyldig`) until it is sent again.

### Extra configurations

These are kept beside the runs. Each states what a document or a comment of the
repository says and is violated by what the code does, except those that pass. The
quotations are under `findings` in `PROJECT.json`. Run one with
`tlc -config <name>.cfg MC<module>`, and with `-continue` where it names several.

| Configuration | Property | What TLC shows |
|---|---|---|
| `M37SakFunn` | `AldriStaaendeNy` | a case with its attempts used up is left in `ny` |
| `M37SakFunn` | `SammeSettPaaNytt` | a second round asks for another set than the frozen one |
| `M37SakKanseller` | `BareEierenKansellerer` | a stale worker cancels the current owner's order |
| `M37SakUtlop` | `VerifikasjonTarSlutt` | a silent verifier leaves the case waiting for ever |
| `OppdragKoFunn` | `NyEierVinner` | an earlier owner's receipt closes an order another has claimed |
| `OppdragKoFunn` | `UlikeResultaterSes` | two owners' different results are never compared when the late one comes first |
| `OppdragKoFunn` | `EierensUtforelseFolges` | an earlier owner's late failure hides the last owner's "done" after a no |
| `OppdragKoFunn` | `HolderOrdreloftet` | passes: the outbox's half of `Reparasjonsordre` (95 018 states, all origins) |
| `OppdragKoMenneske` | `SakNaarMenneske` | the reaper's case stays in `ny` for ever |
| `GodkjenningFunn` | `AlleRevalidert` | an earlier approver who has lost the role still counts |
| `GodkjenningUtlop` | `IngenEtterUtlop` | a request that waited past the expiry completes the round |
| `GodkjenningFunn` | `GodkjentErLevert` | an approved permit waits for an order nobody places |
| `GodkjenningMetadata` | `StemmeTeller` | under a policy with metadata no approval ever counts |
| `GodkjenningFrys` | `UtloptRundeLukkes` | an expired round closes the case to every handling |
| `PolicymotorOverstyring` | `OverstyringVirker` | an override of an action with conditions or a frequency rule is let in and can never apply |
| `PolicyadminFunn` | `UsynkErDrift` | two readings around an activation are reported as drifted data |
| `PolicyadminFunn` | `IngenVerdilos` | a vote is taken on a base no longer in force |
| `DomenekontrollAvvist` | `AvvistAldriVerifisert` | a refused tenant is verified with nobody deciding |
| `DomenekontrollNei` | `NeiVirker` | two adjudicators, of whom one's membership changed after the vote, can neither approve nor reject |
| `VarselAvmeldt` | `AvmeldtErUteAvKo` | an opt-out during re-queueing leaves the mail queued |
| `VarselSending` | `SendingTarSlutt` | a sender that dies on the last attempt leaves the row being sent for good |
| `VarselIgjen` | `EttPerHendelse` | a deleted notice is made and mailed again |
| `BestillingPort` | `DommenSvaresAlltid` | a decided order of a register type is refused when its row has changed |
| `VarselRunder` | `LukketMaserIkke` | passes: two rounds, one sender (730 597 states; `VIEW UtenHistorie` drops the two history variables, which no step reads) |

`M37Sak`'s `HolderOrdreloftet` has no configuration of its own: named as a
PROPERTY of `M37Sak.cfg` it holds over the 371 308 states of that run, and of
`M37SakKanseller.cfg` it does not.

## 4. Proofs

Every theorem is for all values of the constants that satisfy the named
assumptions. Each strengthening was an invariant of a TLC run before it was
proved.

| Module | Theorems | From |
|---|---|---|
| `M37SakProofs` | `Typekorrekt`, `EnAktiv`, `EttOppdrag`, `EierAlene`, `ForsteVinner`, `BruktBesluttet`, `KoGrunnlag`, `VentetRunde`, `NyesteBevis`, `Venting`, `Ordreloftet` | `ForsokAntatt`, `KravAntatt`, `KompAntatt`, `IngenAntatt`; `Venting` and `Ordreloftet` also that the policies agree on the compensating action |
| `OppdragKoProofs` | `Typekorrekt`, `ForsteUtfall`, `NeiErEndelig`, `IngenResultatTapt`, `Folges`, `SakFolger`, `SvarSant`, `Ordreloftet` | `ClaimAntatt`, `IngenAntatt`, `UtfortAntatt` |
| `BeslutningProofs` | `Typekorrekt`, `Engang`, `Nokkelloftet`, `PolicyBlir`, `Frekvens`, `Fremkommelig` | `BeslutningAntakelse`, `HendelserAntakelse`, `SvarAntakelse` |
| `PolicyadminProofs` | `Typekorrekt`, `RunderStaar`, `AktivertAttestert` | `PolicyadminAntakelse` |
| `DomenekontrollProofs` | `Typekorrekt`, `Partene`, `IngenAlarm`, `NeiBlirStaaende`, `ToSaa` | `Antakelser` |
| `VarselProofs` | `Typekorrekt`, `SendtSant`, `Kopi`, `LukketTaus` | `VarselAntatt` |
| `GodkjenningProofs`, the handling | `Typekorrekt`, `RundenBaerer`, `LoftetNok`, `NeiStaarFast`, `Nokkelen`, `VoteCounts` | `KreverAntatt`, `UteAntatt`, `RundeAntatt`, `IngenAntatt`; `VoteCounts` also that no policy carries metadata |
| `GodkjenningProofs`, the engine | `FeilLovlig`, `MotorInvariant`, `LetThroughIsLawful`, `MotorTypes`, `IntroductionTurnsAwayTheUseless`, `EngineInTheRound` | `PolicyerAntatt`, `HendelserAntatt`, `IntetAntatt`; `IntroductionTurnsAwayTheUseless` also that every event can come |
| `BestillingProofs` | `Typekorrekt`, `EnDom`, `Kvoten`, `Dommen` | `BestillingAntatt` |

With these, every safety property of every passing run is proved, both
refinements of `Engangsnokkel` among them (`Nokkelen` and `Nokkelloftet`), and
the two of `Reparasjonsordre` besides (`Ordreloftet`). The
types of these modules, and `EnAktivOperasjon`, are proved instead of run.

The arguments:

* **M37Sak.** `EttOppdragInv`: a case with a business order is out of treatment,
  since the order and the status are one fenced commit. `RegistrertInv`: an
  operation never registered has no order, a round in use has an operation, and
  no worker holds a planned identity that was not registered. The grounds:
  `KlaimInv` (a claim has one worker and at most one capability), `VeiInv` (only
  the two-phase route has rounds), `PlanInv` (what a worker planned is of its
  kind), `EierInv` (what the owner copied is still so), `RundeInv` (an open round
  is the newest and has its order out), together `GrunnInv`, and `BeslutInv` (a
  burnt capability has its decision). A business order that is waited for is
  cancelled only by registering another identity, and when the policies agree on
  the compensating action a stale worker plans the same one. `Ordreloftet` reads
the order off the case (`OrdrenEr`: there is at most one to choose): a step that
leaves the set of orders and their states alone moves the case only within
treatment (`StilleOrdre`), a case without an order leaves treatment once
(`UtenOrdre`), and placing the order and closing it are the contract's steps.
* **OppdragKo.** `IInv`: only a spent capability has a result, none is issued
  ahead of the order's generation, an open order has no result and no human's
  no. `Fast`, `KapStaar` and `OppdragStaar`: what a step never undoes. `SporEtter`:
  what a late "done" leaves behind. `SakInv`: an M-37 case that waits has its
  order, and only its order moves it. `SvarInv`: what a request holds in hand is
  still on the rows when it answers. `Ordreloftet` needs one thing more
(`OrdreInv`): an M-37 order fails only by an answer, since the reaper does not
take it. A receipt that closes such an order was therefore signed under a
capability that a claim had issued, and the order stood claimed
(`AvslutterPlukket`).
* **Godkjenning.** Every step is one of six kinds (`Kart`): the world, a request
  sent, ended, gone on, barred, or writing in a round, and the last in four ways.
  `SaksInv`: one request holds the case and one a key, which is unused while it is
  held (`LaasInv`); rounds are numbered without gaps and a number is left for who
  opens the next (`PlassInv`); an open round has exactly its opener's approval,
  under the policy it froze, so a second name is a second person (`RundeInv`);
  who holds the case knows its version, and a rejection past gate 14a faces no
  order that cannot be dissolved (`ForespOK`). `BokInv`: rows and log agree.
  `VoteCounts` is the other side of `GodkjenningMetadata`: without metadata,
  `MotorTar` leaves no answer that would throw a vote away, so metadata is the
  only cause.
* **Policymotor.** No induction over the list of reasons is needed: the seventeen
  are named, the list has no repetition (`FoerstEr`), and each reason is absent
  exactly when its control holds (`KravBrutt`), so none is left exactly when all
  hold (`FeilLovlig`). Conditions are a sequence, and every condition is judged
  without regard to the others, so that control is one quantified formula. For the second pass,
  `LoftEr` says that raising one limit changes exactly that control, `AnvendGrener`
  takes the early returns of the approval apart, and `MotorInv` says that the
  verdict at hand is what the engine computes. For the contract on overrides an
  event that stops on the code and on nothing else is constructed
  (`FlytterAnvendelig`), exactly as large as the override allows, or of
  its currency, and the bound is then shown to let the approval reach
  it; the other direction reads the same facts off an event that works. The bound
  on amounts is a condition of its own on both sides, whatever its value.
* **The engine in the round.** `Innholdet` ties the names of `Godkjenning`'s
  policies to contents, `FraEndepunktet` says how the endpoint makes an approval,
  and each way the engine can answer is met by a choice of `Motor` with the same
  answer, lift and queue.
* **Beslutning.** `LaasInv`: an advisory lock has one holder, a request holds its key,
  which nobody has settled, and reserves under its group's lock. `JtiInv`: an attestation in a request past its lock is
  unused until that request commits. `BokInv`: rows and log agree, key by key.
  `PolInv`: a version a request decides under exists until it ends, since the
  deletion needs the exclusive lock. `FrekInv`: a reservation
  that is not committed yet still has room, because the group's lock is held in
  between. `OrdenInv`: locks are taken in one order (key, policy, attestations by
  rank, group), so a ring of waiting requests would have to climb for ever.
* **Policyadmin.** `RunderOK`: an open round is of the draft as it stands, asks for
  the signatures that change demands, and its base is kept. `ForespOK`: what a
  request has read and still holds locked is so. Activation
  reads the base anew under the anchor's lock, so what it puts in force is what
  was attested on that base.
* **Domenekontroll.** `ParteneStemmer` is inductive relative to `TypInv`.
  `NeiInv`: a refused row carries no challenge. `SettInv`: case number and
  revision only grow, and a page shows one of the past. `EnStemme`: an actor has
  one vote per revision, so two votes are two
  people's.
* **Varsel.** A row's claim number tells whether a sender's token is the
  current one: `SvarOK`, `TokenOK`, `KlaimOK`, `Orden` with `SendtErSendt` are
  the invariant. `LukketMaserIkke` is inductive relative to `TypInv`: the only
  steps that close a round retire its rows or record that they could not.
* **Bestilling.** Every step is one of five kinds for decisions, orders and books
  (quiet, received, released, decided, finished). `Grunn`: a request holds its key
  from first to last and its bundle until there is an order, what it completes is
  the decision of its key and intent, and a key has one decision. `Boken`: a
  booked answer is of a decision and, for a permit, of its order. `Ubundet`: the
  bundle of a request on its way to an order is unbound, unless it took over the
  permit of one that died or breached its contract. `Veid`: unless it took over
  from a dead one, what a request is about to write meets its contract if what
  was decided does. The answers' properties follow from that invariant step by step.

Only model-checked: the liveness properties `AutomatikkenEnder`, `OppdragEnder`,
`AlleFaarSvar` and `KoenTommes` (liveness and ENABLED are out of the prover's
reach), and the extra configurations.

## 5. Not modelled

* M-38's ranking and caps, and the planning windows: they choose between cases,
  which `M37Sak` sees as a delay. They would be the next module.
* Module registry, releases, environment drift and acceptance; retention anchors
  and evaluation bundles of M-57 beyond the bundle `Bestilling` binds.
* Sessions, OIDC, API keys, rate limits: every modelled request is authenticated.
* Business modules: actors that take an order and answer it, or do not.
* UI, prototype, deployment, backup, reports: no protocol state of their own.
* Inside what is modelled: history rows and their wording, encryption, canonical
  JSON and HMAC, queue order between cases, tenants and hostnames, revalidation
  and wildcard scope of domains, languages and the sweeps that queue other kinds
  of notices, the case that a refused decision gives rise to.

What is modelled is the protocol core, and it is a small share of the
repository: most of its 131 854 implementation lines are validation schemas,
registers of business modules, listings, operations scripts and pages, which
hold no interleaving and whose properties a test reaches. The `map` names the
lines the definitions stand for, between five and six per cent of the whole.

## 6. Plan

1. Planned windows (`plan/materialiser.py`, `klassifiser.py`, migrations 044 and
   045) and triggers, which order through `utfor_bestilling`: composed with
   `Bestilling`.
2. `Sakslop`: the rest of the abstract case (the status machine of
   `unntak_kolonnelaas` with rounds and approvals). `Reparasjonsordre` is its part
   that concerns the order.
3. M-38's choice between cases, with starvation as its question.
4. Module onboarding and acceptance; sessions; M-57's retention; the rotation of
   the challenge queue.
