---------------------------- MODULE MCEventDelivery -----------------------------
(* Small instance of EventDelivery for TLC. *)
EXTENDS EventDelivery, TLC

CONSTANTS r1, r2

MCLoads ==
  {r1 :> "register" @@ r2 :> "resend",
   r1 :> "suspicious" @@ r2 :> "confirm_deletion",
   r1 :> "deletion_request" @@ r2 :> "email_change",
   r1 :> "confirm_email_change" @@ r2 :> "login"}
==============================================================================
