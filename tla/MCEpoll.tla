------------------------------- MODULE MCEpoll ------------------------------
(* A small instance of Epoll. *)
EXTENDS Epoll

Kinds == {{}, {"EPOLLET"}, {"EPOLLONESHOT"}}

=============================================================================
