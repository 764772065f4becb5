----------------------------- MODULE NulthVault -----------------------------
(***************************************************************************)
(* x402 payments from a Nulth account (packages/nulth-sdk,                 *)
(* client/NulthVault.ts, client/nulthScheme.ts): a signer holds the        *)
(* policy, an allowlist and a daily cap, and proves each transfer it       *)
(* authorises to be within it.                                             *)
(*                                                                         *)
(* pay() makes a signer for every payment.  An integrator of the nulth-sdk *)
(* keeps one, and sets the context of the next payment on it while others  *)
(* are under way.  Commitments, digests and proof bytes are left out: a    *)
(* proof is what it says in public.                                        *)
(***************************************************************************)
EXTENDS Integers

CONSTANTS
  VaultPayments,
  VaultPayees, VaultAllowed,  \* whom a manifest may name, and the allowlist
  NoPayee,
  VaultPrices,     \* what a manifest may ask for
  VaultCap,        \* dailyCapStroops
  LedgersPerDay,   \* 17280
  ExpiryLedger,    \* expiryLedger, or NoExpiry
  NoExpiry,
  MaxLedger        \* bound: the last ledger

ASSUME VaultAssumption ==
  /\ VaultPayments # {} /\ VaultAllowed \subseteq VaultPayees /\ NoPayee \notin VaultPayees
  /\ VaultPrices \subseteq Nat \ {0} /\ VaultCap \in Nat
  /\ LedgersPerDay \in Nat \ {0} /\ MaxLedger \in Nat
  /\ NoExpiry \notin Int /\ ExpiryLedger \in Nat \cup {NoExpiry}

VARIABLES
  custody,         \* "client": pay(), a signer for each payment, or "signer": one for all
  network,
  latest,          \* the network's latest ledger
  payment,         \* how far each is, what its manifest and its 402 ask for
  context,         \* each signer's paymentContext
  policy,          \* each signer's dailySpend and the day it is of
  proof,           \* what each payment's signature proves
  provenOn,        \* each signer: what it has proven, by day
  inOrder          \* each signer: no proof was for a day before the one it was at

vaultVars == <<custody, network, latest, payment, context, policy, proof, provenOn, inOrder>>

Ledgers == 0..MaxLedger
NoContext == [payee |-> NoPayee, amount |-> 0, ledger |-> 0]
NoPayment == [st |-> "new", payee |-> NoPayee, price |-> 0, asked |-> 0, ledger |-> 0]
NoProof == [payee |-> NoPayee, amount |-> 0, day |-> 0]

\* dayBucket
DayBucket(ledger) == ledger \div LedgersPerDay
VaultDays == 0..DayBucket(MaxLedger)

\* createPolicyState
FreshPolicy(ledger) == [day |-> DayBucket(ledger), spend |-> 0]

VaultInit ==
  /\ custody \in {"client", "signer"} /\ network \in {"testnet", "mainnet"} /\ latest = 0
  /\ payment = [p \in VaultPayments |-> NoPayment]
  /\ context = [p \in VaultPayments |-> NoContext]
  /\ policy = [p \in VaultPayments |-> FreshPolicy(0)]
  /\ proof = [p \in VaultPayments |-> NoProof]
  /\ provenOn = [p \in VaultPayments |-> [d \in VaultDays |-> 0]]
  /\ inOrder = [p \in VaultPayments |-> TRUE]

SignerOf(p) == IF custody = "client" THEN p ELSE CHOOSE q \in VaultPayments : TRUE

Becomes(p, became) ==
  /\ payment' = [payment EXCEPT ![p] = became]
  /\ UNCHANGED <<custody, network, latest>>

GetsTo(p, st) == Becomes(p, [payment[p] EXCEPT !.st = st])
Fails(p) == Becomes(p, [NoPayment EXCEPT !.st = "failed"])
SignersStay == UNCHANGED <<context, policy, proof, provenOn, inOrder>>

----------------------------------------------------------------------------
\* Preparing the signer

\* The mock prover is for testnet only, whoever makes the signer.
NetworkAllowed == network = "testnet"

\* assertNulthVaultManifest: no other vault mode and no other account, if any is named.
FitsVault(m) == m.vault \in {"none", "nulth"} /\ m.account \in {"none", "own"}

VaultManifests ==
  [vault : {"none", "nulth", "other"}, account : {"none", "own", "other"},
   payee : VaultPayees, price : VaultPrices]

\* _payWithNulthVault: only the x402 scheme proves.
PayWithVault(p) ==
  /\ payment[p].st = "new"
  /\ \E m \in VaultManifests, mode \in {"x402", "mpp-charge"} :
       IF NetworkAllowed /\ mode = "x402" /\ FitsVault(m)
         THEN Becomes(p, [NoPayment EXCEPT !.st = "ledger", !.payee = m.payee, !.price = m.price])
         ELSE Fails(p)
  /\ SignersStay

\* The latest ledger is read, and may be an earlier one when the answer is there.
FetchLedger(p) ==
  /\ payment[p].st = "ledger"
  /\ \/ Becomes(p, [payment[p] EXCEPT !.st = "prepare", !.ledger = latest])
     \/ Fails(p)
  /\ SignersStay

\* paymentContextFromManifest
ContextFromManifest(p) ==
  [payee |-> payment[p].payee, amount |-> payment[p].price, ledger |-> payment[p].ledger]

\* prepareNulthSigner: a new policy, and the context; the signer of an integrator
\* keeps its policy.
PrepareSigner(p) ==
  /\ payment[p].st = "prepare" /\ GetsTo(p, "probe")
  /\ context' = [context EXCEPT ![SignerOf(p)] = ContextFromManifest(p)]
  /\ policy' = IF custody = "client" THEN [policy EXCEPT ![p] = FreshPolicy(payment[p].ledger)] ELSE policy
  /\ UNCHANGED <<proof, provenOn, inOrder>>

----------------------------------------------------------------------------
\* The 402 and the transaction

\* What checkX402Accept lets through: the manifest's payee, at most its price.
Challenge(p) ==
  /\ payment[p].st = "probe"
  /\ \/ \E asked \in 1..payment[p].price :
          Becomes(p, [payment[p] EXCEPT !.st = "payload", !.asked = asked])
     \/ Fails(p)
  /\ SignersStay

\* createPaymentPayload up to the signature: the requirements, until when the signature is
\* good, the transfer and its simulation, which only the account is to sign.
CreatePaymentPayload(p) ==
  /\ payment[p].st = "payload"
  /\ GetsTo(p, "sign") \/ Fails(p)
  /\ SignersStay

\* The transfer is simulated again with its signature, and nobody else is to sign.
Simulated(p) ==
  /\ payment[p].st = "simulate"
  /\ GetsTo(p, "sent") \/ GetsTo(p, "failed")
  /\ SignersStay

----------------------------------------------------------------------------
\* Signing

\* Mutant: the transfer is not compared with the context.
AnyEntry(p, ctx) == ctx # NoContext

\* assertAuthEntryMatchesContext: what is signed is the transfer the policy is checked
\* against.
AuthEntryMatches(p, ctx) == ctx # NoContext /\ payment[p].payee = ctx.payee /\ payment[p].asked = ctx.amount

\* The spend of a day, which starts from nothing.
SpendOn(s, day) == IF policy[s].day = day THEN policy[s].spend ELSE 0

\* enforcePolicy
WithinPolicy(s, ctx) ==
  /\ ExpiryLedger # NoExpiry => ctx.ledger <= ExpiryLedger
  /\ ctx.payee \in VaultAllowed
  /\ SpendOn(s, DayBucket(ctx.ledger)) + ctx.amount <= VaultCap

\* nulthProofScVal: what a signature says in public.
PublicInputs(ctx) == [payee |-> ctx.payee, amount |-> ctx.amount, day |-> DayBucket(ctx.ledger)]

\* buildPaymentAuthProof: what is proven is spent, paid or not.
Prove(p, s, ctx) ==
  LET day == DayBucket(ctx.ledger) IN
  /\ policy' = [policy EXCEPT ![s] = [day |-> day, spend |-> SpendOn(s, day) + ctx.amount]]
  /\ proof' = [proof EXCEPT ![p] = PublicInputs(ctx)]
  /\ provenOn' = [provenOn EXCEPT ![s][day] = @ + ctx.amount]
  /\ inOrder' = [inOrder EXCEPT ![s] = @ /\ policy[s].day <= day]

\* signAuthEntry reads the context that is set by now.
Authorises(s, p) == AuthEntryMatches(p, context[s]) /\ WithinPolicy(s, context[s])

\* nulthAuthorizeEntry
SignTransfer(p) ==
  /\ payment[p].st = "sign"
  /\ LET s == SignerOf(p)
     IN IF Authorises(s, p)
          THEN GetsTo(p, "simulate") /\ Prove(p, s, context[s])
          ELSE Fails(p) /\ UNCHANGED <<policy, proof, provenOn, inOrder>>
  /\ UNCHANGED context

LedgerCloses ==
  /\ latest < MaxLedger /\ latest' = latest + 1
  /\ UNCHANGED <<custody, network, payment, context, policy, proof, provenOn, inOrder>>

VaultStep ==
  \/ LedgerCloses
  \/ \E p \in VaultPayments :
       \/ PayWithVault(p) \/ FetchLedger(p) \/ PrepareSigner(p)
       \/ Challenge(p) \/ CreatePaymentPayload(p) \/ SignTransfer(p) \/ Simulated(p)

VaultSpec == VaultInit /\ [][VaultStep]_vaultVars

----------------------------------------------------------------------------
\* assertAuthEntryMatchesContext: without it "a completely different transfer [...]
\* can be the one that actually gets signed": a proof names the transfer it is
\* attached to, whatever context was set meanwhile.
ProofNamesItsTransfer(p) ==
  proof[p] # NoProof =>
    /\ proof[p].payee = payment[p].payee /\ proof[p].amount = payment[p].asked
    /\ proof[p].payee \in VaultAllowed /\ network = "testnet"

\* A day's proofs of a signer are within the cap, as long as the days of the
\* contexts do not go back.
DayWithinCap(s) == inOrder[s] => \A d \in VaultDays : provenOn[s][d] <= VaultCap

\* No signature leaves the policy: it is for its own transfer to an allowed payee, and
\* with the others of its day within the cap.
ProvenWithinPolicy == \A p \in VaultPayments : ProofNamesItsTransfer(p) /\ DayWithinCap(p)

\* The same without the condition: a context of yesterday takes the policy back to
\* yesterday with nothing spent.
EveryDayWithinCap == \A s \in VaultPayments, d \in VaultDays : provenOn[s][d] <= VaultCap
=============================================================================
