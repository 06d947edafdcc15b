---------------------------- MODULE DeviceTokens -----------------------------
(***************************************************************************)
(* Who owns an FCM token: the device endpoints, and the token statements   *)
(* of logout and account deletion.  Each is one statement on the table the *)
(* notification worker reads; a failed one changes nothing.                *)
(***************************************************************************)
EXTENDS ReminderStore

\* POST /api/devices: a token another account registered moves to u.
RegisterDevice(u, d) ==
  /\ Upsert(u, d)
  /\ UNCHANGED <<events, notifs, now, faults>>

\* DELETE /api/devices and POST /api/auth/logout, when u owns d; otherwise
\* they answer ErrDeviceTokenNotFound.
UnregisterDevice(u, d) ==
  /\ d \in TokensOf(u)
  /\ DeleteTokens({d})
  /\ UNCHANGED <<events, notifs, now, faults>>

\* authService.DeleteAccount: the events and reminders of u stay.
DeleteAccountTokens(u) ==
  /\ TokensOf(u) # {}
  /\ DeleteTokens(TokensOf(u))
  /\ UNCHANGED <<events, notifs, now, faults>>

DeviceStep ==
  \E u \in Users :
     \/ \E d \in Devices : RegisterDevice(u, d) \/ UnregisterDevice(u, d)
     \/ DeleteAccountTokens(u)
=============================================================================
