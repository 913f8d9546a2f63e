----------------------------- MODULE MCRateLimiter -----------------------------
(* One quota key and one lockout key with different limits: small enough   *)
(* for every placement of charges on a clock of several periods.           *)
EXTENDS RateLimiter, TLC

CONSTANTS ip, email

MCQuotaKeys == {ip}
MCLockoutKeys == {email}
MCMaxCalls == ip :> 2 @@ email :> 2
MCPeriod == ip :> 3 @@ email :> 2

================================================================================
