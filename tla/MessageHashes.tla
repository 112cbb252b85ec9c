---------------------------- MODULE MessageHashes ----------------------------
(***************************************************************************)
(* What MessageSender computes of a message before it sends it: nothing, a *)
(* SHA-1 digest or a VMAC tag, as the option "security" of the database    *)
(* says; and the two libraries by themselves.                              *)
(***************************************************************************)
EXTENDS Sha1, Vmac

CONSTANT MessageLengths    \* the lengths of the messages that are sent

ASSUME MessageAssumption == MessageLengths \subseteq 0 .. MaxLength

VARIABLE security

hashVars == <<sha1Vars, vmacVars, security>>

HashInit ==
  /\ security \in {"none", "sha1", "vmac"}
  /\ Sha1Init
  /\ VmacInit

\* MessageSender::send(), up to the send itself.
HashMessage(n) ==
  /\ CASE security = "sha1" -> Sha1Function(n) /\ UNCHANGED vmacVars
       [] security = "vmac" ->
            /\ vmacContext = AbortedContext
            /\ Authenticate(n, "string")
            /\ UNCHANGED sha1Vars
       [] OTHER -> UNCHANGED <<sha1Vars, vmacVars>>
  /\ UNCHANGED security

\* The libraries as anybody may use them.
UseSha1 == security = "sha1" /\ Sha1Next /\ UNCHANGED <<vmacVars, security>>
UseVmac == security = "vmac" /\ VmacNext /\ UNCHANGED <<sha1Vars, security>>

HashNext ==
  \/ UseSha1
  \/ UseVmac
  \/ \E n \in MessageLengths : HashMessage(n)

HashSpec == HashInit /\ [][HashNext]_hashVars
=============================================================================
