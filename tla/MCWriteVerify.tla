--------------------------- MODULE MCWriteVerify ---------------------------
(* Small instances of WriteVerify for TLC.                                 *)
EXTENDS WriteVerify, TLC

CONSTANTS
  limit,             \* a target topic
  firmware,          \* a second identity topic
  On, Off, Eco,      \* mode names; Eco is allowed but has no VE.Bus code
  Malformed          \* an argument that is no number

MCModeCodes == (On :> 3) @@ (Off :> 4)

Identity(ts) == [i \in DOMAIN ts |-> [topic |-> ts[i], expected |-> 3]]

\* The reviewed contracts: a charge current identified by the topics the instance
\* has, a mode whose target is one of them (to keep the topics few), and two that
\* compete for one target.  The code's five probes are read by the same loop.
MCContracts ==
  {[id |-> "limit", target |-> limit, modeCodes |-> [m \in {} |-> 0], range |-> {3},
    identity |-> Identity(SelectSeq(<<SerialTopic, firmware>>, LAMBDA t : t \in Topics))],
   [id |-> "mode", target |-> firmware, modeCodes |-> (On :> 3), range |-> {},
    identity |-> Identity(<<SerialTopic>>)],
   [id |-> "first", target |-> SerialTopic, modeCodes |-> (On :> 3), range |-> {},
    identity |-> Identity(<<SerialTopic>>)],
   [id |-> "second", target |-> SerialTopic, modeCodes |-> (On :> 4), range |-> {},
    identity |-> Identity(<<SerialTopic>>)]}

ChargeCurrent(a, ok) ==
  [operation |-> "set_charge_current_limit", argument |-> a, target |-> limit, confirmed |-> ok]

InverterMode(m, t, ok) ==
  [operation |-> "set_inverter_mode", argument |-> m, target |-> t, confirmed |-> ok]

\* In range and qualified, in range but outside the contract, out of range, no
\* number, not confirmed; a mode that is qualified, one without a code, one with a
\* code nobody qualified, and one for a target with two contracts.
AllRequests ==
  {ChargeCurrent(3, TRUE), ChargeCurrent(4, TRUE), ChargeCurrent(9, TRUE),
   ChargeCurrent(Malformed, TRUE), ChargeCurrent(3, FALSE),
   InverterMode(On, firmware, TRUE), InverterMode(Eco, firmware, TRUE),
   InverterMode(Off, firmware, TRUE), InverterMode(On, SerialTopic, TRUE)}

Say(t, p) == [topic |-> t, payload |-> p, retain |-> FALSE]

\* What the topics may say: the first identity comes, goes and is replayed, the
\* second, which is also the target of a mode, changes its value, and the other
\* target says what is written.
MCNotices ==
  {Say(SerialTopic, 3), Say(SerialTopic, Gone),
   [topic |-> SerialTopic, payload |-> 3, retain |-> TRUE],
   Say(firmware, 3), Say(firmware, 4), Say(limit, 3)}

\* The identity comes and goes, and the target says what was written.
FewNotices == {Say(SerialTopic, 3), Say(SerialTopic, Gone), Say(limit, 3)}

\* One request that passes every gate.
QualifiedLimit == {ChargeCurrent(3, TRUE)}

WritesOn == {[enable_writes |-> TRUE, require_confirmation |-> TRUE, use_mqtt |-> TRUE]}

\* All on, the killswitch, and the D-Bus backend without confirmation.
MCConfigs ==
  {[enable_writes |-> TRUE, require_confirmation |-> TRUE, use_mqtt |-> TRUE],
   [enable_writes |-> FALSE, require_confirmation |-> TRUE, use_mqtt |-> TRUE],
   [enable_writes |-> TRUE, require_confirmation |-> FALSE, use_mqtt |-> FALSE]}

=============================================================================
