-------------------------------- MODULE MCSignOn --------------------------------
(* SingleSignOn and RateLimiter for TLC: the two ways to sign on.          *)
EXTENDS SingleSignOn, RateLimiter

CONSTANTS a1, u1, o1, o2, c1, c2, t1, t2, s1, s2, n1, r1, r2

\* Two requests on one connection, one at a time on several, or logins with
\* passwords.
Some == {{r1, r2, a1, u1, o1, c1, t1, t2, s1, n1},
         {r1, a1, u1, o1, c1, c2, t1, t2, s1, s2, n1},
         {r1, Root, u1, o1, o2, c1, t1, s1, n1},
         {o1}}

AsIs(name) == name

SignOnInit == SsoInit /\ LimiterInit

SignOnNext == /\ \/ Used(Requests) # {} /\ SsoNext /\ UNCHANGED limiter
                 \/ Used(Requests) = {} /\ LimiterNext /\ UNCHANGED <<vars, states>>
              /\ UNCHANGED scope

SignOnVars == <<vars, states, limiter>>

\* Time passes.
SignOnSpec == SignOnInit /\ [][SignOnNext]_SignOnVars /\ WF_limiter(tick)
===============================================================================
