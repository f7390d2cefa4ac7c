-------------------------- MODULE ExceptionMapping --------------------------
(***************************************************************************)
(* The HTTP status that GenericExceptionMapper and ExceptionConverter give *)
(* to an exception.  An exception is the set of the classes the converter  *)
(* asks for that it is an instance of, the code of its message, and the    *)
(* status of the response it carries, 0 if none.                           *)
(***************************************************************************)
EXTENDS Naturals

CONSTANT MessageCodes   \* codes of messages_en.properties and messages_fr.properties

Exception(classes, code) == [classes |-> classes, code |-> code, response |-> 0]

Is(ex, classes) == ex.classes \cap classes # {}

\* Codes that end with .not.found.
NotFoundCodes == {"account.not.found", "authority.not.found", "foodSpecialty.not.found",
                  "restaurant.not.found"}

\* The first class that fits decides.
ResolveHttpStatus(ex) ==
  IF Is(ex, {"AuthenticationException"}) THEN 401
  ELSE IF Is(ex, {"AccessDeniedException", "OwnershipException"}) THEN 403
  ELSE IF Is(ex, {"IllegalArgumentException", "ValidationException", "PersistenceException"})
       THEN 400
  ELSE IF Is(ex, {"BusinessException"}) THEN (IF ex.code \in NotFoundCodes THEN 404 ELSE 400)
  ELSE IF ex.response # 0 /\ ~Is(ex, {"IllegalStateException"}) THEN ex.response
  ELSE 500

\* resolveMesage throws for a business exception whose message does not exist.
MessageFound(ex) == Is(ex, {"BusinessException"}) => ex.code \in MessageCodes

\* When the mapper itself throws, the container answers.
ToResponse(ex) == IF MessageFound(ex) THEN ResolveHttpStatus(ex) ELSE 500
=============================================================================
