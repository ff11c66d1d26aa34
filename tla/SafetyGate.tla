----------------------------- MODULE SafetyGate -----------------------------
(***************************************************************************)
(* The decisions taken before a control value may leave the server:        *)
(* SafetyValidator.validate_write_operation (safety.py) and the reviewed   *)
(* hardware contracts (hardware_contracts.py).  Pure operators, used by    *)
(* WriteVerify.                                                            *)
(*                                                                         *)
(* A request is [operation, argument, target, confirmed]: the argument is  *)
(* a mode name, a number, or something that is neither; the target is the  *)
(* item topic of the device instance and path the tool writes.             *)
(***************************************************************************)
EXTENDS Naturals, Sequences

CONSTANTS
  WritePathAllowlist,  \* operations whose path is in write_path_allowlist
  MaxChargeCurrent,    \* safety.max_charge_current
  MinSocLimit, MaxSocLimit,  \* safety.min_soc_limit, max_soc_limit
  AllowedModes,        \* safety.allowed_modes
  ModeCodes,           \* MODE_CODES["vebus"]: mode name -> enum code
  Contracts            \* safety.hardware_write_contracts

Operations == {"set_inverter_mode", "set_charge_current_limit", "set_soc_limit"}

\* A parsed contract: validate_scope() admits mode codes for Mode and a closed
\* range for the numeric paths.
ASSUME GateAssumption ==
  /\ WritePathAllowlist \subseteq Operations
  /\ MaxChargeCurrent \in Nat /\ MinSocLimit \in Nat /\ MaxSocLimit \in Nat
  /\ \A k \in Contracts : DOMAIN k = {"id", "target", "identity", "modeCodes", "range"}

-----------------------------------------------------------------------------

\* validate_charge_current, validate_soc_limit, validate_mode: what is not a
\* finite number, or not an integer, is in no range.
ArgumentAllowed(r) ==
  CASE r.operation = "set_charge_current_limit" -> r.argument \in 0 .. MaxChargeCurrent
    [] r.operation = "set_soc_limit"            -> r.argument \in MinSocLimit .. MaxSocLimit
    [] r.operation = "set_inverter_mode"        -> r.argument \in AllowedModes

\* Mutant: the confirmation is not asked for.
ValidateUnconfirmed(cfg, r) ==
  IF ~cfg.enable_writes                         THEN "error"
  ELSE IF r.operation \notin WritePathAllowlist THEN "error"
  ELSE IF ~ArgumentAllowed(r)                   THEN "error"
  ELSE "allowed"

\* validate_write_operation: first failure wins.
ValidateWriteOperation(cfg, r) ==
  IF ~cfg.enable_writes                            THEN "error"
  ELSE IF r.operation \notin WritePathAllowlist    THEN "error"
  ELSE IF ~ArgumentAllowed(r)                      THEN "error"
  ELSE IF cfg.require_confirmation /\ ~r.confirmed THEN "prompt"
  ELSE "allowed"

\* _mode_code: an allowed mode need not have an enum code for VE.Bus devices.
HasValue(r) == r.operation = "set_inverter_mode" => r.argument \in DOMAIN ModeCodes

\* The value put on the wire.
ValueOf(r) == IF r.operation = "set_inverter_mode" THEN ModeCodes[r.argument] ELSE r.argument

\* The contracts for exactly this portal, device, instance and path.
Matches(r) == {k \in Contracts : k.target = r.target}

\* Exactly one reviewed contract is required.
HasContract(r) == \E k \in Contracts : Matches(r) = {k}
ContractOf(r)  == CHOOSE k \in Contracts : k.target = r.target

\* The last test of validate_hardware_write: the qualified meaning of the code,
\* or the qualified range.
ValueQualified(k, r) ==
  IF r.operation = "set_inverter_mode"
    THEN r.argument \in DOMAIN k.modeCodes /\ k.modeCodes[r.argument] = ValueOf(r)
    ELSE ValueOf(r) \in k.range

=============================================================================
