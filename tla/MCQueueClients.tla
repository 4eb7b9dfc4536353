--------------------------- MODULE MCQueueClients ---------------------------
(* Small instances of QueueClients.  Bound: the capacity.  A mail has a    *)
(* delegate with functions in one container, in the other, or in none.     *)
EXTENDS QueueClients

CONSTANTS p1, c1, c2, f, g, a, b

OneProducer == {p1}
OneConsumer == {c1}
TwoConsumers == {c1, c2}
OneToOne == {p1, c1}
OneToTwo == {p1, c1, c2}

MailParts == {"_container", "_idx_container", "args"}
DelegateParts == {"_container", "_idx_container"}
MailContents == {f, g, a, b}
Mail(functions, keyed, args) ==
  [p \in MailParts |-> CASE p = "_container" -> functions
                         [] p = "_idx_container" -> keyed
                         [] p = "args" -> args]
Mails == {Mail(f, None, a), Mail(None, g, b), Mail(None, None, a)}

NumberParts == {"int"}
NoParts == {}
TwoNumbers == {[p \in NumberParts |-> a], [p \in NumberParts |-> b]}
=============================================================================
