---------------------------- MODULE StatusCodes ----------------------------
(***************************************************************************)
(* The codes by which an outcome is told, and the three conversions it     *)
(* passes through: StatusCode on the wire, the Code of either RPC          *)
(* interface, and the errors of the device's SDK.  A code of one           *)
(* enumeration has the name of its namesake in the others.                 *)
(***************************************************************************)

\* deviceproto.StatusCode
StatusCode == {"Unknown", "InternalServerError", "OK", "Continue", "Terminate", "NotFount",
  "BadRequest", "MethodNotAllowed", "TooManyRequests", "TooManyObservations"}

\* deviceaccess.Code: what a user is told.
AccessCode == {"InternalServerError", "OK", "DeviceIDOffline", "DeviceIDTimeout", "Continue",
  "Terminate", "NotFount", "BadRequest", "MethodNotAllowed", "TooManyRequests",
  "TooManyObservations", "RequestTimeout"}

\* deviceservice.Code: what a service says.
ServiceCode == {"InternalServerError", "OK", "DeviceIDOffline", "DeviceIDTimeout", "Continue",
  "Terminate", "NotFount", "BadRequest", "MethodNotAllowed", "TooManyRequests",
  "TooManyObservations"}

\* What Get and Post of the device return; "nil" is no error.
SDKError == {"nil", "ErrInternel", "ErrInternalServerError", "ErrResourceNotFount",
  "ErrBadRequest", "ErrMethodNotAllowed", "ErrTooManyRequests", "ErrRequestTimeout"}

\* Each code becomes its namesake; Unknown has none.
transToRPCCode(code) == IF code \in AccessCode THEN code ELSE "InternalServerError"

\* Mutant: the switch falls through to a default of success.
transToDeviceCode_OK(code) == IF code \in StatusCode THEN code ELSE "OK"

\* The two codes that speak of the device have no namesake.
transToDeviceCode(code) == IF code \in StatusCode THEN code ELSE "Unknown"

transToSDKError(code) ==
  CASE code = "OK" -> "nil"
    [] code = "NotFount" -> "ErrResourceNotFount"
    [] code = "BadRequest" -> "ErrBadRequest"
    [] code = "MethodNotAllowed" -> "ErrMethodNotAllowed"
    [] code = "TooManyRequests" -> "ErrTooManyRequests"
    [] code \in {"Unknown", "InternalServerError", "Continue", "Terminate",
                 "TooManyObservations"} -> "ErrInternalServerError"
    [] OTHER -> "ErrInternel"
=============================================================================
