------------------------------ MODULE MCCaptcha ------------------------------
(* A small instance of Captcha: two requests at a time, two instances. *)
EXTENDS Captcha
CONSTANTS i1, i2, any, s1, s2
=============================================================================
