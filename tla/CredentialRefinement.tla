-------------------------- MODULE CredentialRefinement --------------------------
(* The custody of the provider credential implements CredentialLease.         *)
EXTENDS ProviderCredential

\* What a retained settlement says of its lease.
Said(receipt) ==
  [disposition |-> receipt.disposition,
   result |-> IF receipt = NoReceipt THEN "none" ELSE receipt.result]

\* A settlement takes place when state.json is written: until then its intent
\* and its receipt are the decision alone, after it they are the record alone.
Decision == Said(IF state.active = "none" THEN NoReceipt ELSE pending)
Record ==
  [s \in Subject |-> Said(IF state.active = s THEN NoReceipt ELSE receipts[s])]

Lease == INSTANCE CredentialLease
  WITH installed <- auth, touched <- moves # 0, lease <- state,
       decision <- Decision, record <- Record, ended <- contained

\* Whichever file a call dies after, and whatever the owner does to auth.json,
\* the files are one lease at a time, settled once and in one step.
ImplementsLease == Lease!Spec
==============================================================================
